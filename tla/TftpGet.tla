------------------------------ MODULE TftpGet ------------------------------
(***************************************************************************)
(* "tftpboot": the TFTP client of net/tftp.c reading a file, with the      *)
(* server and the network it runs against.                                 *)
(*                                                                         *)
(* The client is translated from net/tftp.c: one action per kind of packet *)
(* tftp_handler accepts, the timeout handler, and tftp_start.  The server  *)
(* is external: a lock-step sender that opens a session, with a port of    *)
(* its own, for every read request it gets, and may retransmit or fall     *)
(* silent.  The network loses packets at will and, for some of the files,   *)
(* delivers the others out of order.  Data are modelled by positions: byte number i of the file *)
(* is the number i, and mem[i] is the file byte stored at load_addr + i.   *)
(***************************************************************************)
EXTENDS Integers, Sequences

CONSTANTS
    TFTP_SEQUENCE_SIZE,   \* block numbers are modulo this; 2^16 in the code
    TFTP_BLOCK_SIZE,      \* the block size without options; 512 in the code
    BlkSizeOption,        \* the block size asked for with "blksize"
    timeout_count_max,    \* resends before the transfer is restarted
    MaxTries,             \* bound: restarts of the transfer
    Sessions,             \* bound: the ports the server answers from
    FileSizes,            \* the sizes of the file served
    ReorderedSizes,       \* those for which the network may change the order
    Capacity              \* bound: packets under way in each direction

ASSUME TftpGetAssumption ==
    /\ TFTP_SEQUENCE_SIZE \in Nat \ {0, 1}
    /\ TFTP_BLOCK_SIZE \in Nat \ {0}
    /\ BlkSizeOption \in Nat \ {0}
    /\ timeout_count_max \in Nat
    /\ MaxTries \in Nat \ {0}
    /\ Sessions \subseteq Nat \ {0}
    /\ FileSizes \subseteq Nat
    /\ ReorderedSizes \subseteq FileSizes
    /\ Capacity \in Nat

VARIABLES
    tftp_state,           \* "SEND_RRQ", "OACK" or "DATA"
    tftp_cur_block,
    tftp_prev_block,
    tftp_block_wrap,      \* tftp_block_wrap_offset is this many sequences of blocks
    tftp_block_size,
    tftp_remote_port,     \* 0 for the well-known port
    tftp_our_port,
    timeout_count,
    net_state,            \* "CONTINUE", "RESTART", "SUCCESS" or "FAIL"
    net_try_count,
    net_boot_file_size,
    mem,                  \* what store_block has written, from load_addr on
    file_size,            \* external: the size of the file on the server
    reorders,             \* external: whether the network changes the order
    server,               \* external: the server's sessions
    toServer, toClient    \* the packets under way

client == <<tftp_state, tftp_cur_block, tftp_prev_block, tftp_block_wrap,
            tftp_block_size, tftp_remote_port, tftp_our_port, timeout_count,
            net_state, net_try_count, net_boot_file_size, mem>>

file == <<file_size, reorders>>

vars == <<client, file, server, toServer, toClient>>

WELL_KNOWN_PORT == 0

\* The transfer is over, one way or the other; what the server and the network
\* do from then on is left out.
Ended == net_state \in {"SUCCESS", "FAIL"}

------------------------------------------------------------------------------
(* The network *)

\* A packet is put under way, or lost when the network is full.
Sent(channel, packet) ==
    IF Len(channel) < Capacity THEN Append(channel, packet) ELSE channel

\* Where the packets are that may arrive next.
Arriving(channel) == IF reorders THEN DOMAIN channel ELSE DOMAIN channel \cap {1}

\* The channel without its i-th packet.
Without(channel, i) ==
    SubSeq(channel, 1, i - 1) \o SubSeq(channel, i + 1, Len(channel))

lose ==
    \/ \E i \in Arriving(toServer) :
        /\ ~Ended
        /\ toServer' = Without(toServer, i)
        /\ UNCHANGED <<client, file, server, toClient>>
    \/ \E i \in Arriving(toClient) :
        /\ ~Ended
        /\ toClient' = Without(toClient, i)
        /\ UNCHANGED <<client, file, server, toServer>>

------------------------------------------------------------------------------
(* The server (external) *)

Unused == [state |-> "unused", blksize |-> 0, blk |-> 0, peer |-> 0]

\* Number of the last block, and the length of block number blk, of a session.
LastBlock(s) == (file_size \div s.blksize) + 1

BlockLen(s) == IF s.blk < LastBlock(s) THEN s.blksize ELSE file_size % s.blksize

\* What session s, on port p, has sent last.
Reply(p, s) ==
    IF s.state = "oack"
    THEN [op |-> "OACK", src |-> p, dest |-> s.peer, blksize |-> s.blksize]
    ELSE [op |-> "DATA", src |-> p, dest |-> s.peer,
          blk |-> s.blk % TFTP_SEQUENCE_SIZE,
          pos |-> (s.blk - 1) * s.blksize, len |-> BlockLen(s)]

\* A new session: it starts with the OACK, or with block 1 for want of options.
Opened(options, blksize, peer) ==
    [state   |-> IF options THEN "oack" ELSE "data",
     blksize |-> IF options THEN blksize ELSE TFTP_BLOCK_SIZE,
     blk     |-> IF options THEN 0 ELSE 1,
     peer    |-> peer]

\* A read request opens a session; the server may or may not know options, and
\* may answer the options without taking the block size asked for.
server_rrq ==
    \E i \in Arriving(toServer), p \in Sessions,
        options \in BOOLEAN, blksize \in {TFTP_BLOCK_SIZE, BlkSizeOption} :
        LET s == Opened(options, blksize, toServer[i].src)
        IN  /\ ~Ended
            /\ toServer[i].op = "RRQ"
            /\ server[p].state = "unused"
            /\ \A q \in Sessions : server[q].state = "unused" => p <= q
            /\ server' = [server EXCEPT ![p] = s]
            /\ toServer' = Without(toServer, i)
            /\ toClient' = Sent(toClient, Reply(p, s))
            /\ UNCHANGED <<client, file>>

\* A read request refused: the file does not exist, or any other error.
server_error ==
    \E i \in Arriving(toServer), p \in Sessions :
        /\ ~Ended
        /\ toServer[i].op = "RRQ"
        /\ toServer' = Without(toServer, i)
        /\ toClient' = Sent(toClient, [op |-> "ERROR", src |-> p, dest |-> toServer[i].src])
        /\ UNCHANGED <<client, file, server>>

\* An ACK of the last block sent moves a session on; any other is dropped.
server_ack ==
    \E i \in Arriving(toServer) :
        LET m == toServer[i]
            p == m.port
            s == server[p]
            acked == \/ s.state = "oack" /\ m.blk = 0
                     \/ s.state = "data" /\ m.blk = s.blk % TFTP_SEQUENCE_SIZE
            next == [s EXCEPT !.state = "data", !.blk = @ + 1]
        IN  /\ ~Ended
            /\ m.op = "ACK"
            /\ toServer' = Without(toServer, i)
            /\ IF ~acked
               THEN UNCHANGED <<server, toClient>>
               ELSE IF s.state = "data" /\ s.blk = LastBlock(s)
               THEN /\ server' = [server EXCEPT ![p].state = "closed"]
                    /\ UNCHANGED toClient
               ELSE /\ server' = [server EXCEPT ![p] = next]
                    /\ toClient' = Sent(toClient, Reply(p, next))
            /\ UNCHANGED <<client, file>>

\* The server resends what it sent last, as often as it likes; a server that
\* falls silent takes no more steps.
server_resend ==
    \E p \in Sessions :
        /\ ~Ended
        /\ server[p].state \in {"oack", "data"}
        /\ Len(toClient) < Capacity
        /\ toClient' = Append(toClient, Reply(p, server[p]))
        /\ UNCHANGED <<client, file, server, toServer>>

------------------------------------------------------------------------------
(* The client: net/tftp.c *)

\* tftp_send: the request in STATE_SEND_RRQ, an ACK of the current block in
\* STATE_OACK and STATE_DATA.
tftp_send(state, port, block) ==
    Sent(toServer,
         IF state = "SEND_RRQ"
         THEN [op |-> "RRQ", port |-> WELL_KNOWN_PORT, src |-> tftp_our_port]
         ELSE [op |-> "ACK", port |-> port, blk |-> block])

\* net_start_again as the transfer sees it: another try, or the end, as the
\* "netretry" variable has it.
net_start_again ==
    \/ /\ net_try_count < MaxTries
       /\ net_try_count' = net_try_count + 1
       /\ net_state' = "RESTART"
    \/ /\ net_state' = "FAIL"
       /\ UNCHANGED net_try_count

\* The loop of net_loop runs the handlers while net_state is NETLOOP_CONTINUE.
Looping == net_state = "CONTINUE"

\* Mutant of Accepted: any port of the server will do.
AcceptedFromAnyPort(m) == m.dest = tftp_our_port

\* tftp_handler drops what is not for us, or not from the server's port.
Accepted(m) ==
    /\ m.dest = tftp_our_port
    /\ tftp_state # "SEND_RRQ" => m.src = tftp_remote_port

handler_ignores ==
    \E i \in Arriving(toClient) :
        LET m == toClient[i]
        IN  /\ Looping
            /\ ~Accepted(m)
            /\ toClient' = Without(toClient, i)
            /\ UNCHANGED <<client, file, server, toServer>>

handler_oack ==
    \E i \in Arriving(toClient) :
        LET m == toClient[i]
        IN  /\ Looping
            /\ m.op = "OACK"
            /\ Accepted(m)
            /\ toClient' = Without(toClient, i)
            /\ tftp_state' = "OACK"
            /\ tftp_remote_port' = m.src
            /\ tftp_block_size' = m.blksize
            /\ toServer' = tftp_send("OACK", m.src, tftp_cur_block)
            /\ UNCHANGED <<tftp_cur_block, tftp_prev_block, tftp_block_wrap,
                           tftp_our_port, timeout_count, net_state, net_try_count,
                           net_boot_file_size, mem, file, server>>

\* store_block: where the payload goes, and the new size of the file.
Offset(block, wrap) ==
    (block - 1) * tftp_block_size + wrap * TFTP_SEQUENCE_SIZE * tftp_block_size

store_block(offset, m) ==
    /\ mem' = [a \in DOMAIN mem \cup (offset .. offset + m.len - 1) |->
                  IF a \in offset .. offset + m.len - 1 THEN m.pos + (a - offset)
                  ELSE mem[a]]
    /\ net_boot_file_size' = IF net_boot_file_size < offset + m.len
                             THEN offset + m.len ELSE net_boot_file_size

\* Mutant of Wrapped: a wrap is looked for in the wrong order.
WrappedBefore(block) == block # 0 /\ tftp_prev_block = 0 /\ tftp_block_wrap > 0

\* update_block_number: a block number of 0 after another one is a wrap.
Wrapped(block) == block = 0 /\ tftp_prev_block # 0

\* The first block of a transfer is not block 1.
handler_data_not_first ==
    \E i \in Arriving(toClient) :
        LET m == toClient[i]
        IN  /\ Looping
            /\ m.op = "DATA"
            /\ Accepted(m)
            /\ tftp_state \in {"SEND_RRQ", "OACK"}
            /\ m.blk # 1
            /\ toClient' = Without(toClient, i)
            /\ tftp_state' = "DATA"
            /\ tftp_cur_block' = m.blk
            /\ tftp_remote_port' = m.src
            /\ tftp_prev_block' = 0
            /\ tftp_block_wrap' = 0
            /\ timeout_count' = IF Wrapped(m.blk) THEN 0 ELSE timeout_count
            /\ net_start_again
            /\ UNCHANGED <<tftp_block_size, tftp_our_port, net_boot_file_size, mem,
                           file, server, toServer>>

\* Mutant of handler_data_again: a block received again restarts the timeouts.
AgainIsProgress ==
    \E i \in Arriving(toClient) :
        LET m == toClient[i]
        IN  /\ Looping
            /\ m.op = "DATA"
            /\ Accepted(m)
            /\ tftp_state = "DATA"
            /\ m.blk = tftp_prev_block
            /\ toClient' = Without(toClient, i)
            /\ tftp_cur_block' = m.blk
            /\ timeout_count' = 0
            /\ UNCHANGED <<tftp_state, tftp_prev_block, tftp_block_wrap, tftp_block_size,
                           tftp_remote_port, tftp_our_port, net_state, net_try_count,
                           net_boot_file_size, mem, file, server, toServer>>

\* The same block again: ignored, and not acknowledged again.
handler_data_again ==
    \E i \in Arriving(toClient) :
        LET m == toClient[i]
        IN  /\ Looping
            /\ m.op = "DATA"
            /\ Accepted(m)
            /\ tftp_state = "DATA"
            /\ m.blk = tftp_prev_block
            /\ toClient' = Without(toClient, i)
            /\ tftp_cur_block' = m.blk
            /\ UNCHANGED <<tftp_state, tftp_prev_block, tftp_block_wrap, tftp_block_size,
                           tftp_remote_port, tftp_our_port, timeout_count, net_state,
                           net_try_count, net_boot_file_size, mem,
                           file, server, toServer>>

\* Mutant of LastReceived: a full block ends the transfer.
FullBlockIsLast(m) == m.len <= tftp_block_size

\* A block shorter than the block size is the last one.
LastReceived(m) == m.len < tftp_block_size

\* A block to store: acknowledged, and the last one ends the transfer.
handler_data ==
    \E i \in Arriving(toClient) :
        LET m == toClient[i]
            first == tftp_state \in {"SEND_RRQ", "OACK"}
            wrap == IF first THEN 0
                    ELSE IF Wrapped(m.blk) THEN tftp_block_wrap + 1
                    ELSE tftp_block_wrap
        IN  /\ Looping
            /\ m.op = "DATA"
            /\ Accepted(m)
            /\ IF first THEN m.blk = 1 ELSE m.blk # tftp_prev_block
            /\ toClient' = Without(toClient, i)
            /\ tftp_state' = "DATA"
            /\ tftp_cur_block' = m.blk
            /\ tftp_prev_block' = m.blk
            /\ tftp_block_wrap' = wrap
            /\ tftp_remote_port' = m.src
            /\ timeout_count' = IF Wrapped(m.blk) THEN 0 ELSE timeout_count
            /\ store_block(Offset(m.blk, wrap), m)
            /\ toServer' = tftp_send("DATA", m.src, m.blk)
            /\ net_state' = IF LastReceived(m) THEN "SUCCESS" ELSE net_state
            /\ UNCHANGED <<tftp_block_size, tftp_our_port, net_try_count,
                           file, server>>

\* "Not retrying..." sets NETLOOP_FAIL, for which net_loop calls
\* net_start_again; the other errors call it themselves.
handler_error ==
    \E i \in Arriving(toClient) :
        LET m == toClient[i]
        IN  /\ Looping
            /\ m.op = "ERROR"
            /\ Accepted(m)
            /\ toClient' = Without(toClient, i)
            /\ net_start_again
            /\ UNCHANGED <<tftp_state, tftp_cur_block, tftp_prev_block, tftp_block_wrap,
                           tftp_block_size, tftp_remote_port, tftp_our_port, timeout_count,
                           net_boot_file_size, mem, file, server, toServer>>

tftp_timeout_handler ==
    /\ Looping
    /\ timeout_count' = timeout_count + 1
    /\ IF timeout_count' > timeout_count_max
       THEN /\ net_start_again
            /\ UNCHANGED toServer
       ELSE /\ toServer' = tftp_send(tftp_state, tftp_remote_port, tftp_cur_block)
            /\ UNCHANGED <<net_state, net_try_count>>
    /\ UNCHANGED <<tftp_state, tftp_cur_block, tftp_prev_block, tftp_block_wrap,
                   tftp_block_size, tftp_remote_port, tftp_our_port,
                   net_boot_file_size, mem, file, server, toClient>>

\* net_loop's restart: net_boot_file_size = 0, then tftp_start.  The ten seconds
\* net_start_again may wait before it, with no UDP handler set, are the packets
\* the network loses.  1024 + (get_timer(0) % 3072) gives another port than the
\* tries before, which is an assumption: it has the tries last a different time.
tftp_start ==
    /\ net_state = "RESTART"
    /\ net_state' = "CONTINUE"
    /\ net_boot_file_size' = 0
    /\ tftp_state' = "SEND_RRQ"
    /\ tftp_remote_port' = WELL_KNOWN_PORT
    /\ timeout_count' = 0
    /\ tftp_our_port' = tftp_our_port + 1
    /\ tftp_cur_block' = 0
    /\ tftp_block_size' = TFTP_BLOCK_SIZE
    /\ toServer' = Sent(toServer, [op |-> "RRQ", port |-> WELL_KNOWN_PORT,
                                   src |-> tftp_our_port'])
    /\ UNCHANGED <<tftp_prev_block, tftp_block_wrap, net_try_count, mem,
                   file, server, toClient>>

------------------------------------------------------------------------------
\* Entry of net_loop: the first tftp_start is about to run.
Init ==
    /\ tftp_state = "SEND_RRQ"
    /\ tftp_cur_block = 0
    /\ tftp_prev_block = 0
    /\ tftp_block_wrap = 0
    /\ tftp_block_size = TFTP_BLOCK_SIZE
    /\ tftp_remote_port = WELL_KNOWN_PORT
    /\ tftp_our_port = 0
    /\ timeout_count = 0
    /\ net_state = "RESTART"
    /\ net_try_count = 1
    /\ net_boot_file_size = 0
    /\ mem = <<>>
    /\ file_size \in FileSizes
    /\ reorders \in BOOLEAN /\ (reorders => file_size \in ReorderedSizes)
    /\ server = [p \in Sessions |-> Unused]
    /\ toServer = <<>>
    /\ toClient = <<>>

\* net_loop has returned to its caller.
Done == Ended /\ UNCHANGED vars

Next ==
    \/ tftp_start
    \/ handler_ignores
    \/ handler_oack
    \/ handler_data_not_first
    \/ handler_data_again
    \/ handler_data
    \/ handler_error
    \/ tftp_timeout_handler
    \/ server_rrq
    \/ server_error
    \/ server_ack
    \/ server_resend
    \/ lose
    \/ Done

Spec == Init /\ [][Next]_vars

\* net_loop polls the timer and checks net_state on every turn, so a timeout
\* that is due and a restart that was asked for do happen.  Nothing is assumed
\* of the server or of the network.
Fairness == WF_vars(tftp_timeout_handler) /\ WF_vars(tftp_start)

FairSpec == Spec /\ Fairness

------------------------------------------------------------------------------
(* Properties *)

\* store_block puts every byte where it belongs: at no time, in this transfer
\* or left over from one that was restarted, does memory hold a byte of the
\* file at another byte's place, wrap of the block number included.
BytesInPlace == \A a \in DOMAIN mem : mem[a] = a

\* When tftp_complete reports success the whole file is in memory, nothing
\* beyond it is, and net_boot_file_size ("Bytes transferred") is its size:
\* whatever was lost, resent by either side or left over from a session the
\* client abandoned.
SuccessIsWhole ==
    net_state = "SUCCESS" =>
        /\ net_boot_file_size = file_size
        /\ DOMAIN mem = 0 .. file_size - 1

\* The block number with the wraps counted.
ClientBlock == tftp_block_wrap * TFTP_SEQUENCE_SIZE + tftp_prev_block

\* While packets keep their order, client and server are never more than one
\* block apart: the server has sent the block the client stored last, or the
\* next one, so that a block number modulo TFTP_SEQUENCE_SIZE is never ambiguous
\* to update_block_number.
LockStep ==
    ~reorders /\ tftp_state = "DATA" /\ net_state = "CONTINUE" =>
        /\ tftp_cur_block = tftp_prev_block
        /\ server[tftp_remote_port].blk \in {ClientBlock, ClientBlock + 1}

\* net_loop returns: the transfer ends in success or failure even if the server
\* goes silent, or never stops resending what the client has already.
Terminates == <>Ended
=============================================================================
