------------------------------ MODULE EnvSerial ------------------------------
(***************************************************************************)
(* The redundant environment with a serial number: two copies on the       *)
(* medium, each with a CRC over its data and an 8-bit serial in "flags"    *)
(* (common/env_mmc.c; common/env_ubi.c and common/env_nand.c use the same  *)
(* scheme, env_nand.c with a fallback when the write fails).               *)
(*                                                                         *)
(* A copy is modelled by whether its CRC matches, its serial and the       *)
(* environment in its data.  block_write is not atomic: while it runs the  *)
(* copy being written has no matching CRC, and power may fail.             *)
(***************************************************************************)
EXTENDS Integers

CONSTANTS
    Envs,          \* the contents an environment can have
    DefaultEnv     \* the compiled-in default_environment

ASSUME DefaultEnvAssumption == DefaultEnv \in Envs

VARIABLES
    copy,          \* the medium: copy[1] at ENV_OFFSET, copy[2] at ENV_OFFSET_REDUND
    env_valid,     \* gd->env_valid: which copy was loaded, or written last
    env_flags,     \* the static u8 env_flags: the serial last used
    env_htab,      \* the environment in RAM
    pc,            \* "off", "idle", "write" (in write_env) or "fallback" (NAND)
    loadable       \* history: what the next boot may load (see EnvStore)

vars == <<copy, env_valid, env_flags, env_htab, pc, loadable>>

SERIALS == 0 .. 255

Copies == [crc_ok : BOOLEAN, flags : SERIALS, data : Envs]

TypeOK ==
    /\ copy \in [1..2 -> Copies]
    /\ env_valid \in 1..2
    /\ env_flags \in SERIALS
    /\ env_htab \in Envs
    /\ pc \in {"off", "idle", "write", "fallback"}
    /\ loadable \in SUBSET Envs

\* A copy whose CRC does not match: erased, or half written.  Its flags and
\* data are never looked at.
BadCopy == [crc_ok |-> FALSE, flags |-> 0, data |-> DefaultEnv]

------------------------------------------------------------------------------
(* env_relocate_spec *)

\* Mutant of Newest: the serials are compared without the wrap.
NewestWithoutWrap(c) == IF c[2].flags > c[1].flags THEN 2 ELSE 1

\* "both ok - check serial"
Newest(c) ==
    IF c[1].flags = 255 /\ c[2].flags = 0 THEN 2
    ELSE IF c[2].flags = 255 /\ c[1].flags = 0 THEN 1
    ELSE IF c[2].flags > c[1].flags THEN 2 ELSE 1

NoneOk(c) == ~c[1].crc_ok /\ ~c[2].crc_ok

\* gd->env_valid after env_relocate_spec; with no good copy it keeps the 1
\* that env_init gave it.
Selected(c) ==
    IF c[1].crc_ok /\ c[2].crc_ok THEN Newest(c)
    ELSE IF c[2].crc_ok THEN 2 ELSE 1

Loaded(c) == IF NoneOk(c) THEN DefaultEnv ELSE c[Selected(c)].data

\* Boot: env_init, then env_relocate_spec.  unreadable is the set of copies
\* read_env fails on; when MMC initialisation fails neither is read.
boot(unreadable) ==
    LET seen == [i \in 1..2 |-> IF i \in unreadable THEN BadCopy ELSE copy[i]]
    IN  /\ pc = "off"
        /\ pc' = "idle"
        /\ env_valid' = Selected(seen)
        /\ env_flags' = IF NoneOk(seen) THEN 0 ELSE seen[Selected(seen)].flags
        /\ env_htab' = Loaded(seen)
        /\ loadable' = IF unreadable = {} THEN {env_htab'} ELSE loadable
        /\ UNCHANGED copy

------------------------------------------------------------------------------
(* The console, and saveenv *)

\* setenv, "env default", "env import": any change of the hash table.
setenv ==
    /\ pc = "idle"
    /\ env_htab' \in Envs \ {env_htab}
    /\ UNCHANGED <<copy, env_valid, env_flags, pc, loadable>>

\* Mutant of Target: the copy in use is written.
TargetKeepsLoaded == env_valid

\* The copy saveenv writes: the one that was not loaded.
Target == IF env_valid = 1 THEN 2 ELSE 1

\* Mutant of saveenv: the serial is not increased.
SerialNotIncreased ==
    /\ pc = "idle"
    /\ pc' = "write"
    /\ loadable' = loadable \cup {env_htab}
    /\ UNCHANGED <<copy, env_valid, env_flags, env_htab>>

\* Mutant of saveenv: the serial is not kept to eight bits.
SerialNotWrapped ==
    /\ pc = "idle"
    /\ pc' = "write"
    /\ env_flags' = env_flags + 1
    /\ loadable' = loadable \cup {env_htab}
    /\ UNCHANGED <<copy, env_valid, env_htab>>

\* saveenv up to the call of write_env: export and increase the serial.
saveenv ==
    /\ pc = "idle"
    /\ pc' = "write"
    /\ env_flags' = (env_flags + 1) % 256
    /\ loadable' = loadable \cup {env_htab}
    /\ UNCHANGED <<copy, env_valid, env_htab>>

\* Some blocks of the copy are on the medium, others are not.
block_write ==
    /\ pc = "write"
    /\ copy' = [copy EXCEPT ![Target] = BadCopy]
    /\ UNCHANGED <<env_valid, env_flags, env_htab, pc, loadable>>

Written == [crc_ok |-> TRUE, flags |-> env_flags, data |-> env_htab]

\* Mutant of write_done: the other copy is not preset.
WriteDoneKeepsValid ==
    /\ pc = "write"
    /\ pc' = "idle"
    /\ copy' = [copy EXCEPT ![Target] = Written]
    /\ loadable' = {env_htab}
    /\ UNCHANGED <<env_valid, env_flags, env_htab>>

\* write_env returned 0: the other copy is preset for the next write.
write_done ==
    /\ pc = "write"
    /\ pc' = "idle"
    /\ copy' = [copy EXCEPT ![Target] = Written]
    /\ env_valid' = IF env_valid = 2 THEN 1 ELSE 2
    /\ loadable' = {env_htab}
    /\ UNCHANGED <<env_flags, env_htab>>

\* Power failure, or the reset command: RAM is lost, the medium is not.
power_fail ==
    /\ pc # "off"
    /\ pc' = "off"
    /\ env_valid' = 1
    /\ env_flags' = 0
    /\ env_htab' = DefaultEnv
    /\ UNCHANGED <<copy, loadable>>

------------------------------------------------------------------------------
(* Errors of the medium *)

\* The write reports an error, after it changed some blocks, all or none: the
\* command fails, and env_flags keeps the serial it gave out.
write_error ==
    /\ pc = "write"
    /\ pc' = "idle"
    /\ copy' \in {copy, [copy EXCEPT ![Target] = Written]}
    /\ UNCHANGED <<env_valid, env_flags, env_htab, loadable>>

\* env_nand.c: the write (or the erase) of the target failed, so the same
\* environment is written over the other copy.
nand_write_error ==
    /\ pc = "write"
    /\ pc' = "fallback"
    /\ copy' = [copy EXCEPT ![Target] = BadCopy]
    /\ UNCHANGED <<env_valid, env_flags, env_htab, loadable>>

nand_fallback_erase ==
    /\ pc = "fallback"
    /\ copy' = [copy EXCEPT ![env_valid] = BadCopy]
    /\ UNCHANGED <<env_valid, env_flags, env_htab, pc, loadable>>

nand_fallback_done ==
    /\ pc = "fallback"
    /\ pc' = "idle"
    /\ copy' = [copy EXCEPT ![env_valid] = Written]
    /\ loadable' = {env_htab}
    /\ UNCHANGED <<env_valid, env_flags, env_htab>>

nand_fallback_error ==
    /\ pc = "fallback"
    /\ pc' = "idle"
    /\ UNCHANGED <<copy, env_valid, env_flags, env_htab, loadable>>

------------------------------------------------------------------------------
(* A new board: nothing valid on the medium. *)
Init ==
    /\ copy = [i \in 1..2 |-> BadCopy]
    /\ env_valid = 1
    /\ env_flags = 0
    /\ env_htab = DefaultEnv
    /\ pc = "off"
    /\ loadable = {DefaultEnv}

\* The medium does what it is told, and power may fail at any moment.
Next ==
    \/ boot({})
    \/ setenv
    \/ saveenv
    \/ block_write
    \/ write_done
    \/ power_fail

Spec == Init /\ [][Next]_vars

\* The same, with reads and writes that may fail (env_mmc.c).
NextWithErrors ==
    \/ Next
    \/ boot({1}) \/ boot({2}) \/ boot({1, 2})
    \/ write_error

SpecWithErrors == Init /\ [][NextWithErrors]_vars

\* NAND, where blocks may go bad under the erase or the write (env_nand.c).
NextNand ==
    \/ Next
    \/ nand_write_error
    \/ nand_fallback_erase
    \/ nand_fallback_done
    \/ nand_fallback_error

SpecNand == Init /\ [][NextNand]_vars

------------------------------------------------------------------------------
(* Properties *)

\* What a boot would load at this moment (env_relocate_spec of env_mmc.c) is
\* the environment saved last, or the one a save under way is writing: at every
\* point where power can fail, and across the wrap of the 8-bit serial.
LoadsLastSaved == Loaded(copy) \in loadable

\* Once a copy with a good CRC exists, no step of saveenv or of a power failure
\* leaves the medium without one (README:4431-4434, "a valid backup copy in
\* case the other copy is corrupted").
BackupKept == [][~NoneOk(copy) => ~NoneOk(copy')]_vars

\* When write_env has returned 0 and saveenv reports success, the next boot
\* loads what was saved (README:5158, "saveenv - save environment variables to
\* persistent storage").
SaveSticks == [][write_done => Loaded(copy') = env_htab]_vars

status == IF pc \in {"off", "idle"} THEN pc ELSE "saving"

\* The two copies and the serial implement the store of EnvStore: a save that
\* returned success survives, one that was cut short is all or nothing.
Store == INSTANCE EnvStore WITH env <- env_htab

StoreSpec == Store!Spec
=============================================================================
