# A verification development for U-Boot (AM5728 tree)

TLA+ models of the parts of this U-Boot 2016.05 tree whose correctness depends
on order, failure and interruption: the environment and the media it is kept on,
the network loop with its commands and the TFTP and DHCP clients, the Ethernet
driver of the board, the memory blocks of `bootm` and the life cycle of devices in
the driver model. TLC checks them on small instances; TLAPS proves the redundant
environment, the environment's hash table, the network loop, the TFTP and DHCP
clients, the memory blocks and the driver model for all instances. Source paths
are relative to `src/src/`.

## The system and what is modelled

U-Boot is one thread of C code. What makes it hard is what happens around that
thread: power fails, media and drivers return errors half way, packets are
lost, late or repeated, a DMA engine works on the same descriptors, tables fill
up, and callbacks re-enter the code that called them.

| Part | Source | Module |
|---|---|---|
| What a persistent environment promises | `common/env_common.c`, `cmd/nvedit.c` | `EnvStore` (abstract) |
| Redundant environment with a serial number | `common/env_mmc.c` (`env_ubi.c`, `env_nand.c` alike) | `EnvSerial`, `StorageProofs` |
| Redundant environment with active/obsolete flags | `common/env_sf.c` | `EnvSf`, `EnvSfProofs` |
| Hash table of the environment | `lib/hashtable.c`, `cmd/nvedit.c` | `HashTable`, `MCHashTable`, `HashTableProofs` |
| Files on a FAT volume, the environment in one | `fs/fat/fat_write.c`, `common/env_fat.c` | `FatWrite`, `MCFatWrite`, `StorageProofs` |
| TFTP read | `net/tftp.c` | `TftpGet`, `TftpGetProofs` |
| Network loop, ARP, ping, device rotation | `net/net.c`, `arp.c`, `ping.c`, `eth-uclass.c`, `eth_common.c` | `NetLoop`, `NetLoopProofs` |
| DHCP client | `net/bootp.c` | `Dhcp`, `MCDhcp`, `NetworkProofs` |
| Descriptor queues of the Ethernet driver | `drivers/net/cpsw.c` | `Cpsw`, `NetworkProofs` |
| Logical memory blocks | `lib/lmb.c`, `common/image*.c` | `Lmb`, `LmbProofs` |
| Driver model | `drivers/core/device.c`, `device-remove.c`, `uclass.c` | `DriverModel`, `MCDriverModel`; proofs in `DriverModelProofs` |

`PROJECT.json` lists every part of the tree, the ones left out with the reason,
the source lines of each definition, and the hazards the properties aim at.

### EnvStore, EnvSerial, EnvSf

`EnvStore` is the console's view: a set `loadable` of environments the next
boot may load. A save adds the environment being written; success, or a boot,
reduces the set to one. `EnvSerial` and `EnvSf` keep the same set as a history
variable next to the code's own state (the two copies, `gd->env_valid`,
`env_flags`, the hash table) and implement `EnvStore`.

A copy is abstracted to whether its CRC matches, its flags byte and the
environment in it. A write or erase is not atomic: the copy is bad while it
runs, and `power_fail` is enabled everywhere. In `EnvSerial`, `Spec` has a
medium without errors; `SpecWithErrors` adds read errors at boot and write
errors (`env_mmc.c`), `SpecNand` the fallback of `env_nand.c`. In `EnvSf` every
operation of `saveenv` may report an error, with or without having changed the
flash; reads at boot succeed. Early returns of `saveenv` that change nothing
(no card, export failed) are stuttering steps.

How they fit together: `setenv` changes the table of `HashTable`; `saveenv`
exports it (`ExportIsEnv` says that the export is the environment) and hands it
to `EnvSerial`, to `EnvSf` or, as a file, to `FatWrite`; at boot `himport_r` puts
it back. `TftpGet` and `Dhcp` are commands that run in the loop of `NetLoop`,
which calls the driver of `Cpsw`; `Cpsw` in turn lets handlers stop and start the
device in the middle of a receive, as `net_start_again` does.

### HashTable

Open addressing with double hashing: a bucket was never used, is deleted, or
holds an entry with its hash. `hsearch_r`, `hdelete_r` and the lines of an import
are whole calls; `change_ok`, callbacks and `strdup` answer freely. Names and
values are model values, the hash function is a constant. `env` is what the
console was told: the environment as a map. `Roomy` (some bucket was never used)
and "no `strdup` failed" are the conditions under which the table agrees with it.

### FatWrite

`do_fat_write` in the order of its writes: the old chain freed and flushed, data
written run by run while clusters are looked for through a FAT buffer that holds
one window of the table, the FAT flushed, the directory entry last. Each write
may be the last one (power failure or a device error). A cluster holds which file,
which size and which part was written there, so a file can be read back by
following its chain. The promise ends where a cut write left a directory entry
naming freed clusters and another file was then written (`crossed`): the volume
then needs a repair, and the constraint `Promised` does not explore it further.

### Cpsw

The pool, the two queues, the head descriptor registers and the DMA engine
(external). Every access to a field that the engine also uses is a step, so the
engine can reach the end of a queue between the driver's look at `hw_next` and
its look at `EOQ`. Handlers that run between `_cpsw_recv` and
`cpsw_eth_free_pkt` may send, halt and start the device.

### Lmb

The table of reserved regions as a sequence, addresses as words of `Width` bits
that wrap. `lmb_add_region` (merge, insert) and `lmb_free` (shrink, split) are
translated branch by branch. An allocation is a loop, and so it is here:
`lmb_alloc_base` puts the first base into `search`, `alloc_below` is a turn that
goes on below the first region in the way, and `alloc_takes` or `alloc_fails` ends
it; nothing else runs meanwhile. The callers are the reservations and allocations
of `bootm`, among them the device tree whose reservation is replaced once it is
final (`image_setup_libfdt`). The results
of `lmb_reserve` are ignored by the callers, in the model as in the code.
`blocks` is what the callers believe is theirs. In the model a resized tree is
never larger than the block it had.

### Dhcp

`bootp_request` with the cache of ids, `dhcp_handler` in its states, the retry
timer, ctrl-c and the automatic load that ends the command. External: DHCP
servers, each with one address for the client and a lease that outlives a
command, BOOTP servers, and a network that loses, repeats and reorders packets.
A DHCPNAK is ignored by the code (`handler_requesting` waits for an ACK), so no
server sends one. An id is a fresh one, as long as the clock has moved on.

### TftpGet

One action per kind of packet `tftp_handler` accepts, plus the timeout handler
and `tftp_start`. A byte of the file is its position, so misplaced bytes show.
The server and the network are external: a lock-step sender with a port per
session, which may resend or fall silent at will, and a network that loses
packets and, for the files in `ReorderedSizes`, delivers them out of order
(`LockStep` is about the others). `net_start_again` is reduced to "again, or
fail"; `NetLoop` has it in full. Assumption: each restart uses a new source
port (`1024 + get_timer(0) % 3072`); with the same port, sessions with
different block sizes can mix.

### NetLoop

A turn of `net_loop` is walked in the code's order (`pc` = arp, rx, time,
check, switch): the ARP timer, the packets of `eth_rx`, ctrl-c, the timeout
handler, `net_start_again` on failure, the switch on `net_state`. Commands
follow each other, so static variables, the ARP wait and late answers carry
over. `up`, the set of devices whose start operation works, is chosen anew at
every `eth_init`. A TFTP transfer is its first and last packet here. A device
without an address is one whose `ethaddr` was deleted after its probe.

### DriverModel

The calls under way are a stack of frames, with labels for the places where one
call makes another; every callback may fail. `uclass_post_probe_device` may
probe children, as `pci_uclass_post_probe` does, on `device_remove`'s error path
too. Private data of the three kinds are one set, since they are allocated and
freed together. A driver's own `probe` does not probe other devices here.

## Runs

| Run | Shows |
|---|---|
| `env_serial` | The last saved environment is loaded wherever power fails; a good copy is kept; a reported save sticks; refinement of `EnvStore`. All 256 serials, three environments: default, old, new. |
| `env_sf` | As `env_serial`, with failing flash operations, and the copy in use is never damaged. |
| `hashtable` | `getenv` and the export agree with the environment, and no call disturbs another name, through collisions, deletions, refusals, failing allocations and imports. |
| `fat_write` | A file whose last write succeeded reads back whole, wherever other writes are cut, and no cluster is in two chains. |
| `tftp_get` | Bytes are in place, success means the whole file, client and server stay in step, the command ends. |
| `net_loop` | One device started at most, everything quiet at the prompt, always a timeout to wait for, the loop returns. |
| `net_late_reply` | Violation of `LoadedMeansComplete`: a late echo reply ends a tftpboot with success. |
| `dhcp` | An address in use is one its server granted, and an answer to any request the cache should remember is accepted. |
| `cpsw` | No descriptor is lost or used twice, each queue is worked on once and in order, no buffer is queued twice, a stalled receive queue starts again. |
| `cpsw_restart` | Violation of `StackOwnsPacket`: a device restarted from a handler is given the buffer the stack is reading. |
| `lmb` | The table stays sorted and merged, what was handed out stays reserved, no two blocks overlap, and allocations fit. |
| `dm` | Data, sequence numbers and the tree stay consistent through nested, failing and re-entered calls. |

The two violation runs are disagreements between the code and its documentation
or comments; `PROJECT.json` quotes both sides under "findings".

### Further disagreements

Ten more configurations each show one disagreement in the same way. They are not
in the list of runs; `tlc -config <file> <module>` reproduces each one, and TLC
reports the property violated.

| Config, module | Property | What the code does, and what is said |
|---|---|---|
| `EnvMmcErrors.cfg`, `EnvSerial` | `SaveSticks` | When neither copy can be read at boot, `env_relocate_spec` (`common/env_mmc.c:258`) leaves `env_flags` at 0; the next `saveenv` writes serial 1 and reports success, and a boot that can read both copies prefers the old one. README:5158: "saveenv - save environment variables to persistent storage". |
| `EnvNand.cfg`, `EnvSerial` | `BackupKept` | When the spare copy cannot be written, `saveenv` (`common/env_nand.c:227`) erases the copy that was loaded, the only good one. README:4311-4314: "so that there is a valid backup copy in case there is a power failure during a "saveenv" operation". |
| `TftpWrap.cfg`, `TftpGet` | `BytesInPlace` | A repeat of the last block before the wrap, arriving after block 0, is stored one whole sequence of block numbers too far; `net/tftp.c:600`: "Same block again; ignore it." |
| `NetPing.cfg`, `NetLoop` | `AliveMeansAnswered` | With `netretry=yes` and every device tried, `net_start_again` (`net/net.c:605`) returns `eth_init()`'s 0 with `net_state` at FAIL; `do_ping` prints "host %s is alive" (`cmd/net.c:275`). |
| `NetOnce.cfg`, `NetLoop` | `OnceTriesAll` | `netretry=once` gives up after the first interface (`net/net.c:684`). README:5344-5346: "will fail when all the available network interfaces are tried once without success." |
| `DriverRemove.cfg`, `MCDriverModel` | `ActiveChain` | On `device_remove`'s error path the result of `uclass_post_probe_device` replaces the error (`drivers/core/device-remove.c:200`), so the parent of a child that refused is removed. `doc/driver-model/README.txt:733-734`: "It is not permitted to have an active child device with a non-active parent." |
| `HashLost.cfg`, `MCHashTable` | `EmptyBucketFound` | Once every bucket has been used, by names set and unset, the search for a new name comes back to its first bucket and takes it, live or not; `lib/hashtable.c:348`: "An empty bucket has been found." |
| `FatFull.cfg`, `MCFatWrite` | `SpaceChecked` | `check_overflow` measures the size from the first cluster on, not the clusters that are free; a write it lets through frees the old chain and fails at the end of the volume. `fs/fat/fat_write.c:799-803`: "Check whether adding a file makes the file system to exceed the size of the block device". |
| `LmbTop.cfg`, `Lmb` | `Apart` | Where memory ends at the top of the address space (4 GiB with a 32-bit `phys_addr_t`), the end of U-Boot's region wraps to 0, nothing overlaps it, and an allocation is placed in it. `common/image-fdt.c:73-75`: reserving "prevents u-boot from using them to store the initrd or the fdt blob". |
| `DhcpIds64.cfg`, `Dhcp` | `LateAnswersAccepted` | `bootp_add_id` (`net/bootp.c:96`) moves the cache of `u32` ids by a size in `ulong`: with a 64-bit `ulong` one id too few is moved, and an id is lost. README:2107-2109: "In order to allow earlier responses to still be accepted after these retransmissions, U-Boot's BOOTP client keeps a small cache of IDs." The board has a 32-bit `ulong` and is not affected. |

### Bounds

- `EnvSerial`, `EnvSf`: none on behaviour. Three environments are enough to
  tell the default, the copy before and the copy after a save apart.
- `TftpGet`: block numbers modulo 4 instead of 2^16, block sizes 1 and 2, files
  of 0, 2 and 5 bytes: an empty file, a last block that is empty, a short last
  block, and a wrap of the block number. Only the file of 2 bytes, whose blocks
  do not wrap, is delivered out of order: `TftpWrap.cfg` has both. Two packets
  under way per direction, two sessions, two tries, one resend per try. Losses
  and resends of the server are not bounded.
- `NetLoop`: two devices, `ARP_TIMEOUT_COUNT` 2 and one TFTP resend, which is one
  retry of each kind; `MaxTryCount` stops the counter that `netretry=yes` never
  compares. The number of commands is not bounded.
- `HashTable`: five buckets, two names that collide and one whose first bucket is
  on their path, so that deleted buckets lie on every path; one failing `strdup`;
  two scripts, with a name given twice and with a deletion. The number of
  operations is not bounded.
- `FatWrite`: two files of up to three clusters on three clusters, FAT windows of
  two entries: every chain of two clusters or more can cross a window, and the
  volume fills up. The number of writes is not bounded.
- `Dhcp`: two DHCP servers and a BOOTP server, a cache of two ids, three packets
  in flight, ids used again once nothing holds them: a full cache, offers of both
  servers to different requests, answers of an earlier command.
- `Cpsw`: two receive buffers and four descriptors: a queue that is empty, has
  one element, or two, and a pool that runs out. No bound on behaviour.
- `Lmb`: addresses of four bits, three regions (`MAX_LMB_REGIONS` is 8), five
  blocks, sizes 1 to 3 and alignments 1, 2 and 4: the table can be full, a
  region can be merged on either side, bridged, and split.
- `DriverModel`: a root, a bus and two devices of one uclass asking for the same
  sequence number; the number of operations is not bounded.

### Fairness

Safety runs assume none. `TftpGet!FairSpec`: weak fairness of the timeout
handler and of the restart, since `net_loop` polls the timer on every turn;
nothing is assumed of server or network. `NetLoop!FairSpec`: weak fairness of
the loop itself (the only thread) and strong fairness of a timer being found
due, because time passes between the polls. The strong form is needed because
the program counter leaves the polling point between two looks at the timer.
`CpswSpec`: weak fairness of the next access of a driver call under way, and
strong fairness of a receive or of the return of its buffer, since `net_loop` calls
`eth_rx` on every turn while a device is active; nothing is assumed of the engine.
`Terminates` has one more abstraction: receiving a new block re-arms the timer
in the code, and the model lets the timeout strike at any time.

## Proofs

`StorageProofs` proves about `EnvSerial`, for every set `Envs` and every `DefaultEnv` in it
(`DefaultEnvAssumption`, the only assumption), under `Spec`:

- `TypeCorrect`: `[]TypeOK`;
- `LastSavedIsLoaded`: `[]LoadsLastSaved`;
- `BackupAlwaysKept`: the action property `BackupKept`;
- `SavedStays`: the action property `SaveSticks`;
- `ImplementsStore`: `Spec` implements `EnvStore!Spec` under the refinement
  mapping.

`LoadsLastSaved` is not inductive: that the newer of two good copies wins says
nothing about which one the next save overwrites. The inductive invariant adds
that, while the board is on, `env_valid` names the copy a boot would load, that
`env_flags` is its serial (one more inside `saveenv`), and that two good copies
carry serials that follow each other modulo 256. The central lemma,
`NewestFollows`, is that the comparison of `env_relocate_spec` picks the
successor among two consecutive serials, 255 and 0 included. `SaveSticks` is
false with read errors (`EnvMmcErrors.cfg`), so the proofs are about `Spec`
and not `SpecWithErrors`.

`EnvSfProofs` proves, for every `Envs` and under the same assumption,
`SfTypeCorrect`, `SfLastSavedIsLoaded`, `SfCopyInUseAlwaysKept` (the action
property `CopyInUseKept`) and `SfImplementsStore`, here with every operation of
`saveenv` failing. The invariant differs: after a failed save the copy a boot
would choose need not be the one `env_valid` names, so `InUseLoadable` says that
the latter, too, may be loaded (it is what is left once the next save has erased
the other), and `SaveUnderWay` what each stage of `saveenv` has left in the
sector it writes. `KeptLoadable` then covers erase, write and every error at
once; `ActiveWins` covers the last write.

`HashTableProofs` proves `TypeCorrect`, `LookupCorrect` (`[]LookupIsEnv`),
`ExportCorrect` (`[]ExportIsEnv`) and `OthersKept` (the action property
`OthersIntact`) for all names, values, scripts and hash functions. Besides the
types it assumes `ProbeAssumption`: that the probe path of every hash value visits
every bucket once, which the code gets from a prime size ("Because SIZE is prime
this guarantees to step through all available indices"); TLC evaluates it for the
size of the run. The properties are about lookups; the induction needs to know
where entries lie: each on the path of its name, behind buckets that have all
been used (`KeysReachable`), and once (`KeysOnce`). Deleting keeps a bucket used,
which is what keeps `KeysReachable`.

`NetworkProofs` proves about `Dhcp` `AddressIsGranted` (`[]AddressGranted`) for all servers, all
sizes of the cache and of a `ulong`, and `LateAnswersAreAccepted`
(`[]LateAnswersAccepted`) where a `ulong` has 32 bits (`UlongWords = 1`), from
`DhcpAssumption`. The first needs that every DHCPACK on its way whose id the cache
would accept comes from a server that holds a lease (`AcksGood`), and that a
fresh id makes no old packet acceptable. The second needs the cache to be the
list of the last ids, place by place.

`NetLoopProofs` proves `OneDeviceStarted`, `QuietWhenDone`, `AlwaysWaiting` and
`NetTypeCorrect` for any number of devices and any limits, from
`NetLoopAssumption`, under `Spec`, that is without fairness. The invariant adds
what holds in the middle of a turn: a timeout handler is set wherever the loop is
undecided (`Waiting`, of which `NeverStuck` is the end of a turn), no handler is set
before the first start (`CleanStart`), and a failure has stopped the device or is
reported as success (`FailureStops`). `StartAgain` covers `net_start_again` once
for all its callers; the types need that the TFTP counter has not passed its
limit while its handler is set (`Counting`).

`DriverModelProofs` proves all six properties of the run `dm` (`DmTypeCorrect`,
`DmDataWhileActive`, `DmSeqNamesOne`, `DmNoOrphans`, `DmReentryBounded` and the action
property `DmParentFirst`) for every tree of devices, all uclasses and all requested
numbers, from `DriverModelAssumption`: parents have smaller numbers than their
children, there is one root, and there are at least as many sequence numbers as
devices. The invariant, in `DriverModelProofs`, is about the whole stack of calls,
since a step of the innermost call can take away what an outer one relies on:

- each frame waits for the one above it as the code says (`Linked`), and a call
  of `device_unbind` is never under one of another function (`UnbindAlone`);
- a call that probes or removes children has an active device
  (`DescendsActive`), and everything above it on the stack is for devices below
  that one in the tree, except a `device_probe` that finds it active and returns
  (`StaysBelow`); so nothing above it gives that device up;
- a `device_probe` waiting for its parent can be followed by calls for its own
  device only through a call that descends from the parent (`EnteredFromParent`),
  which with `StaysBelow` bounds the re-entry;
- a re-entered call that fails frees the private data an outer `device_probe` has
  allocated; the outer one is then sure to get an error and not to use them, because
  every call between hands the error on (`LostIsTold`);
- data of an inactive device belong to a call that waits to use them
  (`DataIsAwaited`), an outer success means an active parent (`ParentReady`), and
  `device_unbind` has each remaining child on its list or remembers a failure
  (`UnbindCounts`).

Every action keeps it. That a free number exists is a counting argument over
`FS_Surjection` (`NumberLeft`).

`TftpGetProofs` proves `TftpBytesInPlace`, `TftpSuccessIsWhole` and `TftpLockStep`
(`[]BytesInPlace`, `[]SuccessIsWhole`, `[]LockStep`) for every file size, block size,
size of the sequence of block numbers, number of sessions and tries and length of
the channels, under `Spec`, from `TftpGetAssumption` and the hypothesis `Unambiguous`:
a file whose packets may overtake each other has fewer blocks than there are block
numbers. Without it the first property is false, as `TftpWrap.cfg` shows; files
delivered in order may wrap any number of times. The properties are about memory;
the invariant has to say what is under way. While order is kept, the session the
client has taken up is at the client's block or the next, the ACKs under way are
those of the block before and then of that block, and the packets to the client
those of that block and then of the next (`Acked`, `DataOK`); so a block number
that is not the client's is the next one's, wraps included. While it is not kept, a block number
stands for one block, an ACK under way acknowledges only blocks in memory, and so a
session is never more than one block ahead (`OutOfOrder`). Sessions the client has
abandoned, or not taken up, are told apart by their port (`FromSessions`,
`Untouched`).

`LmbProofs` proves `LmbCanonical`, `LmbCovered` and `LmbApart` (`[]Canonical`,
`[]Covered`, `[]Apart`) for every memory, every position of U-Boot in it, every table
size and all sizes, alignments and limits, from `MemoryAssumption` and two
hypotheses. `BelowTop`: memory ends below the top of the address space. It cannot
be dropped (`LmbTop.cfg`): where memory ends at 4 GiB and `phys_addr_t` has 32 bits
the theorems say nothing, and `Apart` is false. `LimitsFit`: no
allocation asks for more bytes than there are below its limit, else
`max_addr - size` wraps in `__lmb_alloc_base`. `LmbAllocFits` (`[]AllocFits`) needs
only the second. None of it says anything once `torn` holds, which is where a
region could not be split because the table was full, or where bytes that round up an
allocation belonged to another region; `AllocFits` holds then as well. The
invariant makes the table a set of intervals: no region is empty, each lies in
memory, and each begins above the end of the one before, with a gap. `AddKeeps`
(adding an interval clear of the table adds exactly its bytes) goes through the
cases of `lmb_add_region`: only the first region that touches is extended, and only
its successor is looked at, which is enough because of the gaps. `FreeKeeps` is
the same for `lmb_free`; it needs that a block held byte by byte lies in one
region (`HeldInOne`), again because of the gaps. Two more results have no run of
their own. `LmbSearchDescends`: each turn of the search goes strictly lower, so it
ends, under `LimitsFit`. `LmbNeverEmpty`: `lmb_add_region` never meets an empty
table, where `cnt - 1` would wrap, since U-Boot's block is never freed.

`StorageProofs` proves about `FatWrite` `FilesStayWhole` (`[]FilesKept`) and
`ChainsStayApart` (`[]ChainsApart`) under `FatSpec`, for every set of files, every
size of volume, file and FAT window and every position of the partition, from
`SizeAssumption` alone. Like the run, they say nothing once `crossed` holds. The
inductive invariant (`FatInv`, theorem `FatInvariant`) gives each file a set of
clusters, and these sets are disjoint:

- the table on the device does not lead out of a file's set (`Apart`), and neither
  does the one in the buffer, which is the same elsewhere (`BufferAt`). So any mix
  of the two is safe, which is what a write of the window cut in the middle
  leaves (`CutInv`);
- a file that is promised to be kept has its whole chain in its set, and none of
  the set is free (`KeptFile`), so that a cluster `determine_fatent` finds free
  belongs to nobody else (`LinkFresh`). A file without a first cluster has none
  (`NoneLeft`), which is where `~crossed` is needed: of a cut file that still names
  clusters some may be free;
- the set of the file being written holds its old chain and its new one. The new
  one goes up, its last `wr.act` clusters are a run, and what comes before the run
  is written (`Found`); hence the data fill exactly the chain that `set_eof` ends.

`Chain` is the least set closed under the table, and `Reads` asks for a sequence of
clusters, so that no induction over the length of a chain is needed.

`NetworkProofs` proves about `Cpsw` `QueuesInOrder` (`[]InOrder`),
`DescriptorsAccounted` (`[]Accounted`) and `BuffersGivenOnce` (`[]BuffersOnce`) for
any number of receive buffers, from `NumRxAssumption`; the fairness of `CpswSpec` is
not used. The invariant (`CpswInv`, theorem `CpswInvariant`) names the three lists
and a place for every descriptor: pool, receive queue, transmit queue, or taken by
`cpdma_submit` and not linked yet (`Placed`). Each list follows `hw_next` without
repeating (`Path`, `Inj`). For a channel it adds (`ChanOK`) that the engine owns an
end of the queue and is at the first descriptor it owns, that what it has read of
`hw_next` is the truth or "no successor" from before `submit_link`, and that where
the last descriptor has EOQ the register is empty. The last two are the race
between `submit_link` and the engine; what a call that was interrupted has seen
still holds (`CallOK`). That the lists of the properties are those of the invariant
is `ListIs`, which needs only that a sequence without repetition in `Descs` has at
most as many elements as `Descs`.

Only model-checked is liveness under fairness, which is out of the prover's reach:
`TftpGet!Terminates`, `Cpsw!RxRestarts` and the liveness of `NetLoop`.

## Not modelled

- Hardware set-up, SPL, the shell, file formats, image parsing, the allocator
  and imported subsystems such as UBI have no protocol of their own to explore, or
  are projects of their own. Most of the tree is drivers, board code, headers and
  configurations of other boards, of this kind; the share of it that the models
  cover is small for that reason.
- TFTP put, server and multicast modes, DNS, SNTP, RARP, CDP, link-local
  addresses, DFU and fastboot are not in the AM57xx configuration. Put shares the
  handler and the timer of `TftpGet`; its block number wraps in the same way
  (`net/tftp.c:501`).
- NFS, X/Ymodem and Kermit downloads, the ext4 journal and the two copies of the
  GPT are in the configuration and could be modelled in the same way; they are
  left out.
- Environments on NOR flash, EEPROM and NVRAM, and single-copy builds.
- In the modelled parts: `hcreate_r` failing or a table of another size;
  `hmatch_r`; long names, directories of more than one cluster, FAT12 and the
  second FAT in `FatWrite`, and a write-back that fails while a window is
  switched; a device tree that outgrows its block in `Lmb`; how long `dhcp` goes on
  retrying (`net/bootp.c:383` decides by the clock), so that its liveness is not
  checked; a driver's `probe` that probes others, more than 999 sequence numbers
  (`drivers/core/uclass.c:493`) and platform data freed before a driver refuses
  (`drivers/core/device-remove.c:106`); read errors at boot in `EnvSf`.
