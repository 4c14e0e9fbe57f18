--------------------------- MODULE TftpGetProofs ---------------------------
(***************************************************************************)
(* Proofs about TftpGet, for all files, block sizes, block numbers that    *)
(* wrap anywhere, sessions, tries and channels.                            *)
(*                                                                         *)
(* The invariant IInv says what the two sides and the channels between     *)
(* them agree on.  Every packet under way to the client was sent by the    *)
(* session it names (FromSessions).  A session the client has not taken up *)
(* got no ACK and is at its first packet (Untouched), so that the first    *)
(* packet the client accepts starts a transfer.  While the order is kept,  *)
(* the session the client has taken up is at the client's block c or at    *)
(* the next, the ACKs under way are those of c - 1 and then of c (Acked),  *)
(* and the packets to the client those of c and then of c + 1 (DataOK):    *)
(* a block number that is not c's is that of c + 1, wraps included.  While *)
(* it is not kept, block numbers stand for one block each (Fits), an ACK   *)
(* acknowledges blocks in memory, and so a session is never more than one  *)
(* block beyond memory (OutOfOrder).                                       *)
(***************************************************************************)
EXTENDS TftpGet, TLAPS

-----------------------------------------------------------------------------
(* Arithmetic *)

\* The order of numbers is reflexive.
LEMMA Reflexive == \A n \in Nat : n <= n
OBVIOUS

\* Division with remainder, of block numbers and of file sizes.
LEMMA DivMod ==
    ASSUME NEW a \in Nat, NEW b \in Nat \ {0}
    PROVE  /\ a = (a \div b) * b + (a % b)
           /\ a % b \in 0..(b - 1) /\ a \div b \in Nat
OBVIOUS

\* The remainder is unique.
LEMMA ModUnique ==
    ASSUME NEW w \in Nat, NEW b \in Nat \ {0}, NEW r \in 0..(b - 1)
    PROVE  (w * b + r) % b = r
OBVIOUS

\* Block numbers count up and wrap.
LEMMA ModNext ==
    ASSUME NEW c \in Nat, NEW b \in Nat \ {0, 1}
    PROVE  /\ (c + 1) % b = IF c % b = b - 1 THEN 0 ELSE (c % b) + 1
           /\ (c + 1) % b # c % b
<1> DEFINE q == c \div b  r == c % b
<1>1. c = q * b + r /\ r \in 0..(b - 1) /\ q \in Nat
  BY DivMod, Zenon
<1> HIDE DEF q, r
<1>2. CASE r = b - 1
  <2>1. c + 1 = (q + 1) * b + 0
    BY <1>1, <1>2
  <2>2. (c + 1) % b = 0
    BY <2>1, <1>1, ModUnique
  <2> QED BY <1>2, <2>2 DEF r
<1>3. CASE r # b - 1
  <2>1. c + 1 = q * b + (r + 1) /\ r + 1 \in 0..(b - 1)
    BY <1>1, <1>3
  <2>2. (c + 1) % b = r + 1
    BY ONLY <1>1, <2>1, ModUnique, b \in Nat \ {0, 1}, Zenon
  <2> QED BY <1>1, <1>3, <2>2 DEF r
<1> QED BY <1>2, <1>3, Zenon

\* Products grow with their factors.
LEMMA Products ==
    ASSUME NEW m \in Nat, NEW n \in Nat, NEW b \in Nat, m <= n
    PROVE  m * b <= n * b /\ m * b \in Nat /\ (m + 1) * b = m * b + b
OBVIOUS

\* Where store_block puts block number r after w wraps.
LEMMA OffsetIs ==
    ASSUME NEW w \in Nat, NEW b \in Nat, NEW r \in Nat, NEW s \in Nat
    PROVE  (r - 1) * s + w * b * s = (w * b + r - 1) * s
OBVIOUS

-----------------------------------------------------------------------------
(* Channels *)

\* A concatenation, position by position.
LEMMA ConcatIs ==
    ASSUME NEW T, NEW a \in Seq(T), NEW b \in Seq(T)
    PROVE  /\ a \o b \in Seq(T) /\ Len(a \o b) = Len(a) + Len(b)
           /\ \A i \in 1..Len(a) : (a \o b)[i] = a[i]
           /\ \A i \in 1..Len(b) : (a \o b)[Len(a) + i] = b[i]
<1>1. a \o b \in Seq(T)
  OBVIOUS
<1>2. Len(a \o b) = Len(a) + Len(b)
  OBVIOUS
<1>3. \A i \in 1..Len(a) : (a \o b)[i] = a[i]
  OBVIOUS
<1>4. \A i \in 1..Len(b) : (a \o b)[Len(a) + i] = b[i]
  OBVIOUS
<1> QED BY <1>1, <1>2, <1>3, <1>4, Zenon

\* Without takes one packet off a channel and keeps the order of the others.
LEMMA WithoutIs ==
    ASSUME NEW T, NEW ch \in Seq(T), NEW j \in 1..Len(ch)
    PROVE  /\ Without(ch, j) \in Seq(T)
           /\ Len(Without(ch, j)) = Len(ch) - 1
           /\ \A i \in 1..(Len(ch) - 1) :
                 Without(ch, j)[i] = ch[IF i < j THEN i ELSE i + 1]
<1> DEFINE a == SubSeq(ch, 1, j - 1)  b == SubSeq(ch, j + 1, Len(ch))
<1>1. a \in Seq(T) /\ Len(a) = j - 1 /\ \A i \in 1..(j - 1) : a[i] = ch[i]
  OBVIOUS
<1>2. b \in Seq(T) /\ Len(b) = Len(ch) - j /\ \A i \in 1..(Len(ch) - j) : b[i] = ch[j + i]
  OBVIOUS
<1>3. Without(ch, j) = a \o b
  BY Zenon DEF Without
<1> HIDE DEF a, b
<1>4. a \o b \in Seq(T) /\ Len(a \o b) = Len(ch) - 1
  <2>1. Len(a \o b) = Len(a) + Len(b) /\ a \o b \in Seq(T)
    BY ONLY <1>1, <1>2, ConcatIs, Zenon
  <2> QED BY <1>1, <1>2, <2>1
<1>5. ASSUME NEW i \in 1..(Len(ch) - 1)
      PROVE  (a \o b)[i] = ch[IF i < j THEN i ELSE i + 1]
  <2>1. CASE i < j
    <3>1. i \in 1..Len(a)
      BY <1>1, <2>1
    <3>2. (a \o b)[i] = a[i]
      BY ONLY <1>1, <1>2, <3>1, ConcatIs
    <3> QED BY <1>1, <2>1, <3>1, <3>2, Zenon
  <2>2. CASE ~(i < j)
    <3> DEFINE k == i - Len(a)
    <3>1. k \in 1..Len(b) /\ i = Len(a) + k /\ j + k = i + 1
      BY <1>1, <1>2, <2>2
    <3> HIDE DEF k
    <3>2. (a \o b)[Len(a) + k] = b[k]
      BY ONLY <1>1, <1>2, <3>1, ConcatIs
    <3>3. (a \o b)[i] = b[k]
      BY <3>1, <3>2, Zenon
    <3>4. b[k] = ch[i + 1]
      BY <1>2, <3>1, Zenon
    <3> QED BY <2>2, <3>3, <3>4, Zenon
  <2> QED BY <2>1, <2>2, Zenon
<1> QED BY <1>3, <1>4, <1>5, Zenon

\* new is old without its j-th packet.
Shrunk(new, old, j) ==
    /\ Len(new) \in Nat /\ Len(old) \in Nat
    /\ Len(new) = Len(old) - 1
    /\ \A i \in 1..Len(new) : new[i] = old[IF i < j THEN i ELSE i + 1]

\* new has packets of old only, in the order they had.
Thins(new, old) ==
    /\ \A i \in 1..Len(new) : \E k \in 1..Len(old) : new[i] = old[k]
    /\ \A i, j \in 1..Len(new) :
          i < j => \E k, l \in 1..Len(old) : k < l /\ new[i] = old[k] /\ new[j] = old[l]

\* new is old, or old with one more packet at its end.
Grows(new, old, m) ==
    /\ Len(new) \in Nat /\ Len(old) \in Nat
    /\ \/ new = old
       \/ /\ Len(new) = Len(old) + 1
          /\ \A i \in 1..Len(old) : new[i] = old[i]
          /\ new[Len(new)] = m

\* A packet that arrives leaves the channel; it was the first one when the
\* network keeps the order.
LEMMA Arrival ==
    ASSUME NEW T, NEW ch \in Seq(T), NEW i \in Arriving(ch)
    PROVE  /\ i \in 1..Len(ch) /\ ch[i] \in T
           /\ ~reorders => i = 1
           /\ Without(ch, i) \in Seq(T)
           /\ Shrunk(Without(ch, i), ch, i)
<1>1. i \in 1..Len(ch) /\ (~reorders => i = 1)
  BY DEF Arriving
<1>2. ch[i] \in T
  BY <1>1
<1>3. /\ Without(ch, i) \in Seq(T)
      /\ Len(Without(ch, i)) = Len(ch) - 1
      /\ \A k \in 1..(Len(ch) - 1) : Without(ch, i)[k] = ch[IF k < i THEN k ELSE k + 1]
  BY ONLY <1>1, WithoutIs, ch \in Seq(T), Zenon
<1>4. Len(Without(ch, i)) \in Nat /\ Len(ch) \in Nat
  BY <1>3
<1> QED BY <1>1, <1>2, <1>3, <1>4, Zenon DEF Shrunk

\* What is left is a part of the channel.
LEMMA ShrunkThins ==
    ASSUME NEW new, NEW old, NEW j \in 1..Len(old), Shrunk(new, old, j)
    PROVE  /\ Thins(new, old)
           /\ j = 1 => \A i \in 1..Len(new) : i + 1 \in 2..Len(old) /\ new[i] = old[i + 1]
<1> DEFINE f(i) == IF i < j THEN i ELSE i + 1
<1>1. /\ Len(new) \in Nat /\ Len(old) \in Nat /\ Len(new) = Len(old) - 1
      /\ \A i \in 1..Len(new) : new[i] = old[f(i)]
  BY Zenon DEF Shrunk
<1>2. \A i \in 1..Len(new) : f(i) \in 1..Len(old)
  BY <1>1
<1>3. \A i, l \in 1..Len(new) : i < l => f(i) < f(l)
  BY <1>1
<1>4. j = 1 => \A i \in 1..Len(new) : f(i) = i + 1
  BY <1>1
<1> HIDE DEF f
<1>5. Thins(new, old)
  BY <1>1, <1>2, <1>3, Zenon DEF Thins
<1>6. j = 1 => \A i \in 1..Len(new) : i + 1 \in 2..Len(old) /\ new[i] = old[i + 1]
  BY <1>1, <1>4
<1> QED BY <1>5, <1>6, Zenon

\* A channel thins itself.
LEMMA ThinsItself ==
    ASSUME NEW ch PROVE Thins(ch, ch)
BY Zenon DEF Thins

\* A packet that is sent comes last, unless it is lost.
LEMMA Sending ==
    ASSUME NEW T, NEW ch \in Seq(T), NEW m \in T
    PROVE  Sent(ch, m) \in Seq(T) /\ Grows(Sent(ch, m), ch, m)
<1>1. Append(ch, m) \in Seq(T)
  OBVIOUS
<1>2. Len(Append(ch, m)) = Len(ch) + 1 /\ Len(ch) \in Nat
  OBVIOUS
<1>3. Append(ch, m)[Len(ch) + 1] = m
  OBVIOUS
<1>4. \A i \in 1..Len(ch) : Append(ch, m)[i] = ch[i]
  OBVIOUS
<1> QED BY <1>1, <1>2, <1>3, <1>4 DEF Sent, Grows

\* The packets of a channel that one packet was sent to.
LEMMA Grown ==
    ASSUME NEW new, NEW old, NEW m, Grows(new, old, m)
    PROVE  /\ \A i \in 1..Len(new) :
                 \/ i \in 1..Len(old) /\ new[i] = old[i]
                 \/ i = Len(old) + 1 /\ new[i] = m
           /\ Len(old) \in Nat /\ Len(new) \in Nat
BY DEF Grows

-----------------------------------------------------------------------------
(* The inductive invariant *)

BlockSizes == {TFTP_BLOCK_SIZE, BlkSizeOption}
Numbers == 0..(TFTP_SEQUENCE_SIZE - 1)

SessionType ==
    [state : {"unused", "oack", "data", "closed"}, blksize : BlockSizes \cup {0},
     blk : Nat, peer : Nat]

ToServer ==
    [op : {"RRQ"}, port : {WELL_KNOWN_PORT}, src : Nat]
    \cup [op : {"ACK"}, port : Sessions, blk : Numbers]

ToClient ==
    [op : {"OACK"}, src : Sessions, dest : Nat, blksize : BlockSizes]
    \cup [op : {"DATA"}, src : Sessions, dest : Nat, blk : Numbers, pos : Nat, len : Nat]
    \cup [op : {"ERROR"}, src : Sessions, dest : Nat]

TypeOK ==
    /\ tftp_state \in {"SEND_RRQ", "OACK", "DATA"}
    /\ tftp_cur_block \in Numbers /\ tftp_prev_block \in Numbers
    /\ tftp_block_wrap \in Nat /\ tftp_block_size \in BlockSizes
    /\ tftp_remote_port \in Sessions \cup {WELL_KNOWN_PORT} /\ tftp_our_port \in Nat
    /\ net_state \in {"CONTINUE", "RESTART", "SUCCESS", "FAIL"}
    /\ net_boot_file_size \in Nat
    /\ file_size \in Nat /\ reorders \in BOOLEAN
    /\ server \in [Sessions -> SessionType]
    /\ toServer \in Seq(ToServer) /\ toClient \in Seq(ToClient)

\* The number of the last block of a file.
LastOf(size, blksize) == (size \div blksize) + 1

\* While the order may change, a block number stands for one block only.
Fits == reorders => \A b \in BlockSizes : LastOf(file_size, b) < TFTP_SEQUENCE_SIZE

Used(s) == s.state # "unused"

\* A session sends the blocks of the file, to a port the client has or had.
SessionOK(s, port, size) ==
    Used(s) => /\ s.blksize \in BlockSizes /\ s.blk <= LastOf(size, s.blksize)
               /\ s.peer <= port
               /\ s.state = "oack" <=> s.blk = 0

\* What session s on port p sends as its number n; the OACK is number 0.
Numbered(p, s, n, size) ==
    IF n = 0 THEN [op |-> "OACK", src |-> p, dest |-> s.peer, blksize |-> s.blksize]
    ELSE [op |-> "DATA", src |-> p, dest |-> s.peer, blk |-> n % TFTP_SEQUENCE_SIZE,
          pos |-> (n - 1) * s.blksize,
          len |-> IF n < LastOf(size, s.blksize) THEN s.blksize ELSE size % s.blksize]

\* Every packet to the client but an ERROR was sent by the session it names.
FromSessions(ch, sv, size) ==
    \A i \in 1..Len(ch) : ch[i].op # "ERROR" =>
        /\ Used(sv[ch[i].src])
        /\ \E n \in 0..sv[ch[i].src].blk : ch[i] = Numbered(ch[i].src, sv[ch[i].src], n, size)

\* Requests come from the client's ports, and ACKs go to sessions.
Asked(ch, sv, port) ==
    \A i \in 1..Len(ch) : /\ ch[i].op = "RRQ" => ch[i].src <= port
                          /\ ch[i].op = "ACK" => Used(sv[ch[i].port])

IsAck(m, p) == m.op = "ACK" /\ m.port = p
NoAck(ch, p) == \A i \in 1..Len(ch) : ~IsAck(ch[i], p)
NoOack(ch, p) == \A i \in 1..Len(ch) : ~(ch[i].op = "OACK" /\ ch[i].src = p)

Joined == tftp_state # "SEND_RRQ"

\* A session of this try that the client has not taken up has sent its first
\* packet only, and got no ACK.
Untouched(p, s, ts, tc) ==
    /\ NoAck(ts, p)
    /\ \/ s.blk = 0
       \/ s.state = "data" /\ s.blk = 1 /\ s.blksize = TFTP_BLOCK_SIZE /\ NoOack(tc, p)

Fresh(p) == /\ Used(server[p]) /\ server[p].peer = tftp_our_port
            /\ ~(Joined /\ p = tftp_remote_port)

\* The session the client has taken up.
Holding ==
    Joined => /\ tftp_remote_port \in Sessions /\ Used(server[tftp_remote_port])
              /\ server[tftp_remote_port].peer = tftp_our_port
              /\ server[tftp_remote_port].blksize = tftp_block_size

AtStart ==
    net_state = "CONTINUE" =>
        /\ ~Joined => tftp_cur_block = 0 /\ tftp_block_size = TFTP_BLOCK_SIZE
        /\ tftp_state = "DATA" => tftp_cur_block = tftp_prev_block

\* Memory.
MemOK ==
    /\ mem = [a \in DOMAIN mem |-> a]
    /\ DOMAIN mem \subseteq 0..(file_size - 1) /\ net_boot_file_size <= file_size

\* The first n blocks of a file of that size are in memory.
Stored(n, blksize, size, stored) ==
    \A a \in 0..(size - 1) : a < n * blksize => a \in stored

AckOf(m, c) == m.blk = c % TFTP_SEQUENCE_SIZE

\* With c the last block the client got of a session, and b the last one it
\* sent: the ACKs under way are those of block c, after those of the block
\* before if the server still waits for the ACK of c.
AcksOK(ch, p, c, b) ==
    /\ \A i \in 1..Len(ch) : IsAck(ch[i], p) =>
          AckOf(ch[i], c) \/ (b = c /\ c > 0 /\ AckOf(ch[i], c - 1))
    /\ \A i, j \in 1..Len(ch) :
          i < j /\ IsAck(ch[i], p) /\ IsAck(ch[j], p) /\ AckOf(ch[i], c) => AckOf(ch[j], c)

Acked(p, s, ch, c, size, stored) ==
    /\ Stored(c, s.blksize, size, stored)
    /\ s.blk \in {c, c + 1}
    /\ AcksOK(ch, p, c, s.blk)

FromPort(m, p) == m.op # "ERROR" /\ m.src = p

\* The packets under way from a session: those of block c, then those of the
\* next one.
DataOK(ch, p, s, c, size) ==
    /\ \A i \in 1..Len(ch) : FromPort(ch[i], p) =>
          \E n \in {c, c + 1} : n <= s.blk /\ ch[i] = Numbered(p, s, n, size)
    /\ \A i, j \in 1..Len(ch) :
          i < j /\ FromPort(ch[i], p) /\ FromPort(ch[j], p) /\ ch[j] = Numbered(p, s, c, size)
              => ch[i] = Numbered(p, s, c, size)

\* The last block the client got in this transfer.
ClientLast == IF tftp_state = "DATA" THEN ClientBlock ELSE 0

Stepping ==
    Joined /\ net_state = "CONTINUE" =>
        /\ tftp_state = "DATA" => ClientBlock > 0
        /\ tftp_cur_block = ClientLast % TFTP_SEQUENCE_SIZE
        /\ Acked(tftp_remote_port, server[tftp_remote_port], toServer, ClientLast,
                 file_size, DOMAIN mem)
        /\ DataOK(toClient, tftp_remote_port, server[tftp_remote_port], ClientLast, file_size)

\* While the order is kept: what every session and the client agree on.
InOrder ==
    ~reorders =>
        /\ \A p \in Sessions : Used(server[p]) =>
              \E c \in Nat : Acked(p, server[p], toServer, c, file_size, DOMAIN mem)
        /\ Stepping

AcksStored(ch, sv, size, stored) ==
    \A i \in 1..Len(ch) :
        ch[i].op = "ACK" => Stored(ch[i].blk, sv[ch[i].port].blksize, size, stored)

\* While it is not: an ACK is an ACK of something that is in memory.
OutOfOrder ==
    reorders =>
        /\ \A p \in Sessions : Used(server[p]) /\ server[p].blk > 0 =>
              Stored(server[p].blk - 1, server[p].blksize, file_size, DOMAIN mem)
        /\ AcksStored(toServer, server, file_size, DOMAIN mem)
        /\ Joined /\ net_state = "CONTINUE" =>
              /\ Stored(tftp_cur_block, server[tftp_remote_port].blksize, file_size, DOMAIN mem)
              /\ tftp_state = "DATA" => tftp_block_wrap = 0

IInv ==
    /\ TypeOK /\ Fits
    /\ \A p \in Sessions : SessionOK(server[p], tftp_our_port, file_size)
    /\ \A p \in Sessions : Fresh(p) => Untouched(p, server[p], toServer, toClient)
    /\ FromSessions(toClient, server, file_size) /\ Asked(toServer, server, tftp_our_port)
    /\ Holding /\ AtStart /\ MemOK
    /\ InOrder /\ OutOfOrder
    /\ SuccessIsWhole

-----------------------------------------------------------------------------
(* What the packets under way have in common *)

\* Losing packets to the server, or receiving them.
LEMMA ThinServer ==
    ASSUME NEW new, NEW old, Thins(new, old)
    PROVE  /\ \A sv, port : Asked(old, sv, port) => Asked(new, sv, port)
           /\ \A p : NoAck(old, p) => NoAck(new, p)
           /\ \A p, c, b : AcksOK(old, p, c, b) => AcksOK(new, p, c, b)
           /\ \A sv, size, st : AcksStored(old, sv, size, st) => AcksStored(new, sv, size, st)
<1>1. \A i \in 1..Len(new) : \E k \in 1..Len(old) : new[i] = old[k]
  BY Zenon DEF Thins
<1>2. \A i, j \in 1..Len(new) :
        i < j => \E k, l \in 1..Len(old) : k < l /\ new[i] = old[k] /\ new[j] = old[l]
  BY Zenon DEF Thins
<1>3. \A sv, port : Asked(old, sv, port) => Asked(new, sv, port)
  BY <1>1, Zenon DEF Asked
<1>4. \A p : NoAck(old, p) => NoAck(new, p)
  BY <1>1, Zenon DEF NoAck
<1>5. ASSUME NEW p, NEW c, NEW b, AcksOK(old, p, c, b)
      PROVE  AcksOK(new, p, c, b)
  <2>1. ASSUME NEW i \in 1..Len(new), IsAck(new[i], p)
        PROVE  AckOf(new[i], c) \/ (b = c /\ c > 0 /\ AckOf(new[i], c - 1))
    BY <1>1, <1>5, <2>1, Zenon DEF AcksOK
  <2>2. ASSUME NEW i \in 1..Len(new), NEW j \in 1..Len(new), i < j,
               IsAck(new[i], p), IsAck(new[j], p), AckOf(new[i], c)
        PROVE  AckOf(new[j], c)
    BY <1>2, <1>5, <2>2, Zenon DEF AcksOK
  <2> QED BY <2>1, <2>2, Zenon DEF AcksOK
<1>6. \A sv, size, st : AcksStored(old, sv, size, st) => AcksStored(new, sv, size, st)
  BY <1>1, Zenon DEF AcksStored
<1> QED BY <1>3, <1>4, <1>5, <1>6, Zenon

\* Losing packets to the client, or receiving them.
LEMMA ThinClient ==
    ASSUME NEW new, NEW old, Thins(new, old)
    PROVE  /\ \A sv, size : FromSessions(old, sv, size) => FromSessions(new, sv, size)
           /\ \A p : NoOack(old, p) => NoOack(new, p)
           /\ \A p, s, c, size : DataOK(old, p, s, c, size) => DataOK(new, p, s, c, size)
<1>1. \A i \in 1..Len(new) : \E k \in 1..Len(old) : new[i] = old[k]
  BY Zenon DEF Thins
<1>2. \A i, j \in 1..Len(new) :
        i < j => \E k, l \in 1..Len(old) : k < l /\ new[i] = old[k] /\ new[j] = old[l]
  BY Zenon DEF Thins
<1>3. ASSUME NEW sv, NEW size, FromSessions(old, sv, size) PROVE FromSessions(new, sv, size)
  BY <1>1, <1>3 DEF FromSessions
<1>4. \A p : NoOack(old, p) => NoOack(new, p)
  BY <1>1, Zenon DEF NoOack
<1>5. ASSUME NEW p, NEW s, NEW c, NEW size, DataOK(old, p, s, c, size)
      PROVE  DataOK(new, p, s, c, size)
  <2>1. ASSUME NEW i \in 1..Len(new), FromPort(new[i], p)
        PROVE  \E n \in {c, c + 1} : n <= s.blk /\ new[i] = Numbered(p, s, n, size)
    BY <1>1, <1>5, <2>1, Zenon DEF DataOK
  <2>2. ASSUME NEW i \in 1..Len(new), NEW j \in 1..Len(new), i < j,
               FromPort(new[i], p), FromPort(new[j], p), new[j] = Numbered(p, s, c, size)
        PROVE  new[i] = Numbered(p, s, c, size)
    BY <1>2, <1>5, <2>2 DEF DataOK
  <2> QED BY <2>1, <2>2, Zenon DEF DataOK
<1> QED BY <1>3, <1>4, <1>5, Zenon

\* Sending a packet to the server.
LEMMA MoreToServer ==
    ASSUME NEW new, NEW old, NEW m, Grows(new, old, m)
    PROVE  /\ \A sv, port : /\ Asked(old, sv, port)
                            /\ m.op = "RRQ" => m.src <= port
                            /\ m.op = "ACK" => Used(sv[m.port])
                            => Asked(new, sv, port)
           /\ \A p : NoAck(old, p) /\ ~IsAck(m, p) => NoAck(new, p)
           /\ \A p, c, b : AcksOK(old, p, c, b) /\ (IsAck(m, p) => AckOf(m, c))
                            => AcksOK(new, p, c, b)
           /\ \A sv, size, st :
                 /\ AcksStored(old, sv, size, st)
                 /\ m.op = "ACK" => Stored(m.blk, sv[m.port].blksize, size, st)
                 => AcksStored(new, sv, size, st)
<1>1. /\ \A i \in 1..Len(new) : \/ i \in 1..Len(old) /\ new[i] = old[i]
                                \/ i = Len(old) + 1 /\ new[i] = m
      /\ Len(old) \in Nat /\ Len(new) \in Nat
  BY Grown, Zenon
<1>2. ASSUME NEW sv, NEW port, Asked(old, sv, port), m.op = "RRQ" => m.src <= port,
             m.op = "ACK" => Used(sv[m.port])
      PROVE  Asked(new, sv, port)
  BY <1>1, <1>2, Zenon DEF Asked
<1>3. ASSUME NEW p, NoAck(old, p), ~IsAck(m, p) PROVE NoAck(new, p)
  BY <1>1, <1>3, Zenon DEF NoAck
<1>4. ASSUME NEW p, NEW c, NEW b, AcksOK(old, p, c, b), IsAck(m, p) => AckOf(m, c)
      PROVE  AcksOK(new, p, c, b)
  <2>1. ASSUME NEW i \in 1..Len(new), IsAck(new[i], p)
        PROVE  AckOf(new[i], c) \/ (b = c /\ c > 0 /\ AckOf(new[i], c - 1))
    BY <1>1, <1>4, <2>1, Zenon DEF AcksOK
  <2>2. ASSUME NEW i \in 1..Len(new), NEW j \in 1..Len(new), i < j,
               IsAck(new[i], p), IsAck(new[j], p), AckOf(new[i], c)
        PROVE  AckOf(new[j], c)
    <3>1. i \in 1..Len(old) /\ new[i] = old[i]
      BY <1>1, <2>2
    <3>2. CASE new[j] = m
      BY <1>4, <2>2, <3>2, Zenon
    <3>3. CASE j \in 1..Len(old) /\ new[j] = old[j]
      BY <1>4, <2>2, <3>1, <3>3, Zenon DEF AcksOK
    <3> QED BY <1>1, <3>2, <3>3, Zenon
  <2> QED BY <2>1, <2>2, Zenon DEF AcksOK
<1>5. ASSUME NEW sv, NEW size, NEW st, AcksStored(old, sv, size, st),
             m.op = "ACK" => Stored(m.blk, sv[m.port].blksize, size, st)
      PROVE  AcksStored(new, sv, size, st)
  BY <1>1, <1>5, Zenon DEF AcksStored
<1> QED BY <1>2, <1>3, <1>4, <1>5, Zenon

\* Sending a packet to the client.
LEMMA MoreToClient ==
    ASSUME NEW new, NEW old, NEW m, Grows(new, old, m)
    PROVE  /\ \A sv, size :
                 /\ FromSessions(old, sv, size)
                 /\ m.op # "ERROR" =>
                      /\ Used(sv[m.src])
                      /\ \E n \in 0..sv[m.src].blk : m = Numbered(m.src, sv[m.src], n, size)
                 => FromSessions(new, sv, size)
           /\ \A p : NoOack(old, p) /\ ~(m.op = "OACK" /\ m.src = p) => NoOack(new, p)
           /\ \A p, s, c, size :
                 /\ DataOK(old, p, s, c, size)
                 /\ FromPort(m, p) =>
                      /\ \E n \in {c, c + 1} : n <= s.blk /\ m = Numbered(p, s, n, size)
                      /\ m = Numbered(p, s, c, size) =>
                           \A i \in 1..Len(old) : FromPort(old[i], p) => old[i] = m
                 => DataOK(new, p, s, c, size)
<1>1. /\ \A i \in 1..Len(new) : \/ i \in 1..Len(old) /\ new[i] = old[i]
                                \/ i = Len(old) + 1 /\ new[i] = m
      /\ Len(old) \in Nat /\ Len(new) \in Nat
  BY Grown, Zenon
<1>2. ASSUME NEW sv, NEW size, FromSessions(old, sv, size),
             m.op # "ERROR" =>
                /\ Used(sv[m.src])
                /\ \E n \in 0..sv[m.src].blk : m = Numbered(m.src, sv[m.src], n, size)
      PROVE  FromSessions(new, sv, size)
  BY <1>1, <1>2, Zenon DEF FromSessions
<1>3. ASSUME NEW p, NoOack(old, p), ~(m.op = "OACK" /\ m.src = p) PROVE NoOack(new, p)
  BY <1>1, <1>3, Zenon DEF NoOack
<1>4. ASSUME NEW p, NEW s, NEW c, NEW size, DataOK(old, p, s, c, size),
             FromPort(m, p) =>
                /\ \E n \in {c, c + 1} : n <= s.blk /\ m = Numbered(p, s, n, size)
                /\ m = Numbered(p, s, c, size) =>
                     \A i \in 1..Len(old) : FromPort(old[i], p) => old[i] = m
      PROVE  DataOK(new, p, s, c, size)
  <2>1. ASSUME NEW i \in 1..Len(new), FromPort(new[i], p)
        PROVE  \E n \in {c, c + 1} : n <= s.blk /\ new[i] = Numbered(p, s, n, size)
    BY <1>1, <1>4, <2>1, Zenon DEF DataOK
  <2>2. ASSUME NEW i \in 1..Len(new), NEW j \in 1..Len(new), i < j,
               FromPort(new[i], p), FromPort(new[j], p), new[j] = Numbered(p, s, c, size)
        PROVE  new[i] = Numbered(p, s, c, size)
    <3>1. i \in 1..Len(old) /\ new[i] = old[i]
      BY <1>1, <2>2
    <3>2. CASE new[j] = m
      BY <1>4, <2>2, <3>1, <3>2, Zenon
    <3>3. CASE j \in 1..Len(old) /\ new[j] = old[j]
      BY <1>4, <2>2, <3>1, <3>3, Zenon DEF DataOK
    <3> QED BY <1>1, <3>2, <3>3, Zenon
  <2> QED BY <2>1, <2>2, Zenon DEF DataOK
<1> QED BY <1>2, <1>3, <1>4, Zenon

-----------------------------------------------------------------------------
(* What a session sends *)

\* What the constants are good for: block sizes and block numbers.
LEMMA Constants ==
    /\ BlockSizes \subseteq Nat \ {0} /\ TFTP_BLOCK_SIZE \in BlockSizes
    /\ TFTP_SEQUENCE_SIZE \in Nat \ {0, 1} /\ 0 \in Numbers /\ 1 \in Numbers
    /\ 0 \notin Sessions /\ Numbers \subseteq Nat
    /\ \A n \in Nat : n % TFTP_SEQUENCE_SIZE \in Numbers
    /\ 0 % TFTP_SEQUENCE_SIZE = 0
    /\ \A n \in Numbers : n % TFTP_SEQUENCE_SIZE = n
BY TftpGetAssumption DEF BlockSizes, Numbers

\* The blocks cut the file up: all but the last are full, and the last one ends
\* it with less than a block.
LEMMA BlockIs ==
    ASSUME NEW size \in Nat, NEW bs \in Nat \ {0}, NEW n \in Nat \ {0},
           n <= LastOf(size, bs),
           NEW len, len = IF n < LastOf(size, bs) THEN bs ELSE size % bs
    PROVE  /\ (n - 1) * bs \in Nat /\ len \in Nat
           /\ (n - 1) * bs + len <= size
           /\ len < bs => (n - 1) * bs + len = size
           /\ len >= bs => (n - 1) * bs + len = n * bs
           /\ ~(len < bs) => n * bs <= size
<1> DEFINE q == size \div bs  r == size % bs
<1>1. size = q * bs + r /\ r \in 0..(bs - 1) /\ q \in Nat
  BY DivMod, Zenon
<1>2. LastOf(size, bs) = q + 1 /\ len = IF n < q + 1 THEN bs ELSE r
  BY Zenon DEF LastOf
<1> HIDE DEF q, r
<1>3. CASE n < q + 1
  <2>1. n * bs <= q * bs /\ n * bs \in Nat /\ (n - 1) * bs \in Nat
        /\ (n - 1) * bs + bs = n * bs /\ q * bs \in Nat
    <3>1. n <= q
      BY <1>1, <1>3
    <3>2. n * bs <= q * bs /\ n * bs \in Nat
      BY <1>1, <3>1, Products, Zenon
    <3>3. q * bs \in Nat
      BY <1>1, Products
    <3>4. (n - 1) * bs \in Nat /\ ((n - 1) + 1) * bs = (n - 1) * bs + bs
      <4>1. n - 1 \in Nat
        OBVIOUS
      <4> QED BY <4>1, Products
    <3> QED BY <3>2, <3>3, <3>4
  <2> QED BY <1>1, <1>2, <1>3, <2>1
<1>4. CASE ~(n < q + 1)
  <2>1. n = q + 1
    BY <1>1, <1>2, <1>4
  <2>2. (n - 1) * bs = q * bs /\ q * bs \in Nat
    BY <1>1, <2>1, Products
  <2> QED BY <1>1, <1>2, <1>4, <2>1, <2>2
<1> QED BY <1>3, <1>4, Zenon

\* The fields of a packet of a session.
LEMMA NumberedIs ==
    ASSUME NEW p \in Sessions, NEW s \in SessionType, s.blksize \in BlockSizes,
           NEW n \in Nat, NEW size \in Nat
    PROVE  /\ Numbered(p, s, n, size) \in ToClient
           /\ Numbered(p, s, n, size).src = p /\ Numbered(p, s, n, size).dest = s.peer
           /\ Numbered(p, s, n, size).op = IF n = 0 THEN "OACK" ELSE "DATA"
           /\ n = 0 => Numbered(p, s, n, size).blksize = s.blksize
           /\ n # 0 => /\ Numbered(p, s, n, size).blk = n % TFTP_SEQUENCE_SIZE
                       /\ Numbered(p, s, n, size).pos = (n - 1) * s.blksize
                       /\ Numbered(p, s, n, size).len =
                            IF n < LastOf(size, s.blksize) THEN s.blksize ELSE size % s.blksize
           /\ FromPort(Numbered(p, s, n, size), p)
<1> DEFINE m == Numbered(p, s, n, size)
<1>1. s.peer \in Nat /\ s.blksize \in Nat \ {0}
  BY Constants, Zenon DEF SessionType
<1>2. CASE n = 0
  <2>1. m = [op |-> "OACK", src |-> p, dest |-> s.peer, blksize |-> s.blksize]
    BY <1>2, Zenon DEF Numbered
  <2>2. m \in ToClient
    BY <1>1, <2>1 DEF ToClient
  <2> QED BY <1>2, <2>1, <2>2 DEF FromPort
<1>3. CASE n # 0
  <2> DEFINE len == IF n < LastOf(size, s.blksize) THEN s.blksize ELSE size % s.blksize
             blk == n % TFTP_SEQUENCE_SIZE  pos == (n - 1) * s.blksize
  <2>1. m = [op |-> "DATA", src |-> p, dest |-> s.peer, blk |-> blk, pos |-> pos, len |-> len]
    BY <1>3, Zenon DEF Numbered
  <2>2. blk \in Numbers
    BY Constants, Zenon
  <2>3. len \in Nat
    <3>1. size % s.blksize \in 0..(s.blksize - 1)
      BY <1>1, DivMod, Zenon
    <3> QED BY <1>1, <3>1
  <2>4. pos \in Nat
    <3>1. n - 1 \in Nat
      BY <1>3
    <3> QED BY <1>1, <3>1, Products
  <2> HIDE DEF len, blk, pos
  <2>5. m \in ToClient
    BY <1>1, <2>1, <2>2, <2>3, <2>4 DEF ToClient
  <2>6. m.src = p /\ m.dest = s.peer /\ m.op = "DATA" /\ m.blk = blk /\ m.pos = pos /\ m.len = len
    BY <2>1
  <2> QED BY <1>3, <2>5, <2>6, Zenon DEF FromPort, blk, pos, len
<1> QED BY <1>2, <1>3, Zenon

\* Its kind and addresses.
LEMMA NumberedHead ==
    ASSUME NEW p \in Sessions, NEW s \in SessionType, s.blksize \in BlockSizes,
           NEW n \in Nat, NEW size \in Nat
    PROVE  /\ Numbered(p, s, n, size) \in ToClient
           /\ Numbered(p, s, n, size).src = p /\ Numbered(p, s, n, size).dest = s.peer
           /\ Numbered(p, s, n, size).op = IF n = 0 THEN "OACK" ELSE "DATA"
           /\ FromPort(Numbered(p, s, n, size), p)
BY NumberedIs

\* It depends on the session's peer and block size only.
LEMMA NumberedSame ==
    ASSUME NEW s, NEW t, s.peer = t.peer, s.blksize = t.blksize
    PROVE  \A p, n, size : Numbered(p, s, n, size) = Numbered(p, t, n, size)
BY Zenon DEF Numbered

\* A packet is not the next one.
LEMMA NumberedApart ==
    ASSUME NEW p \in Sessions, NEW s \in SessionType, s.blksize \in BlockSizes,
           NEW n \in Nat, NEW size \in Nat
    PROVE  Numbered(p, s, n, size) # Numbered(p, s, n + 1, size)
<1>1. n + 1 \in Nat /\ n + 1 # 0
  OBVIOUS
<1>2. Numbered(p, s, n + 1, size).op = "DATA"
      /\ Numbered(p, s, n + 1, size).blk = (n + 1) % TFTP_SEQUENCE_SIZE
  BY <1>1, NumberedIs
<1>3. CASE n = 0
  <2>1. Numbered(p, s, n, size).op = "OACK"
    BY <1>3, NumberedIs
  <2> QED BY <1>2, <2>1, Zenon
<1>4. CASE n # 0
  <2>1. Numbered(p, s, n, size).blk = n % TFTP_SEQUENCE_SIZE
    BY <1>4, NumberedIs
  <2>2. (n + 1) % TFTP_SEQUENCE_SIZE # n % TFTP_SEQUENCE_SIZE
    BY ModNext, Constants, Zenon
  <2> QED BY <1>2, <2>1, <2>2, Zenon
<1> QED BY <1>3, <1>4, Zenon

\* What a session sends is its last packet.
LEMMA ReplyIs ==
    ASSUME NEW p, NEW s, s.state = "oack" <=> s.blk = 0
    PROVE  Reply(p, s) = Numbered(p, s, s.blk, file_size)
BY Zenon DEF Reply, Numbered, BlockLen, LastBlock, LastOf

\* The first 0 blocks are in memory.
LEMMA StoredNone ==
    ASSUME NEW bs \in Nat, NEW size, NEW st
    PROVE  Stored(0, bs, size, st)
BY DEF Stored

\* What is in memory stays there: store_block takes nothing away.
LEMMA StoredMore ==
    ASSUME NEW n, NEW bs, NEW size, NEW st, NEW st2, st \subseteq st2, Stored(n, bs, size, st)
    PROVE  Stored(n, bs, size, st2)
BY Zenon DEF Stored

\* When the first n blocks are in memory, so are the first n - 1.
LEMMA StoredFewer ==
    ASSUME NEW m \in Nat, NEW n \in Nat, NEW bs \in Nat, NEW size \in Nat, NEW st, m <= n,
           Stored(n, bs, size, st)
    PROVE  Stored(m, bs, size, st)
<1>1. m * bs <= n * bs /\ m * bs \in Nat
  BY Products, Zenon
<1>2. n * bs \in Nat
  BY Products
<1> QED BY <1>1, <1>2 DEF Stored

-----------------------------------------------------------------------------
(* Steps *)

\* The client counts blocks in natural numbers.
LEMMA LastNat ==
    ASSUME TypeOK PROVE ClientBlock \in Nat /\ ClientLast \in Nat
<1>1. tftp_block_wrap * TFTP_SEQUENCE_SIZE \in Nat
  BY Constants, Products DEF TypeOK
<1>2. tftp_prev_block \in Nat
  BY Constants, Zenon DEF TypeOK
<1> QED BY <1>1, <1>2 DEF ClientBlock, ClientLast

\* A packet to the client that is no ERROR, and the session it is from.
LEMMA Sender ==
    ASSUME IInv, NEW i \in 1..Len(toClient), toClient[i].op # "ERROR",
           NEW p, p = toClient[i].src
    PROVE  /\ p \in Sessions /\ Used(server[p]) /\ server[p] \in SessionType
           /\ server[p].blksize \in BlockSizes /\ server[p].blk \in Nat
           /\ SessionOK(server[p], tftp_our_port, file_size)
           /\ toClient[i].dest = server[p].peer
           /\ \E n \in 0..server[p].blk :
                 /\ toClient[i] = Numbered(p, server[p], n, file_size)
                 /\ toClient[i].op = "OACK" <=> n = 0
<1>1. toClient[i] \in ToClient
  BY DEF IInv, TypeOK
<1>2. p \in Sessions
  BY <1>1, Zenon DEF ToClient
<1>3. Used(server[p]) /\ \E n \in 0..server[p].blk : toClient[i] = Numbered(p, server[p], n, file_size)
  BY Zenon DEF IInv, FromSessions
<1>4. server[p] \in SessionType /\ SessionOK(server[p], tftp_our_port, file_size) /\ file_size \in Nat
  BY <1>2, Zenon DEF IInv, TypeOK
<1>5. server[p].blksize \in BlockSizes /\ server[p].blk \in Nat
  BY <1>3, <1>4, Zenon DEF SessionOK, SessionType
<1>6. PICK n \in 0..server[p].blk : toClient[i] = Numbered(p, server[p], n, file_size)
  BY <1>3, Zenon
<1>7. n \in Nat
  BY <1>5
<1>8. toClient[i].dest = server[p].peer /\ toClient[i].op = IF n = 0 THEN "OACK" ELSE "DATA"
  BY ONLY <1>2, <1>4, <1>5, <1>6, <1>7, NumberedHead
<1> QED BY <1>2, <1>3, <1>4, <1>5, <1>6, <1>8, Zenon

\* An ACK to the server, and the session it is for.
LEMMA AckedSession ==
    ASSUME IInv, NEW i \in 1..Len(toServer), toServer[i].op = "ACK",
           NEW p, p = toServer[i].port
    PROVE  /\ p \in Sessions /\ Used(server[p]) /\ server[p] \in SessionType
           /\ server[p].blksize \in BlockSizes /\ server[p].blk \in Nat
           /\ SessionOK(server[p], tftp_our_port, file_size)
           /\ toServer[i].blk \in Numbers /\ ~Fresh(p)
<1>1. toServer[i] \in ToServer
  BY DEF IInv, TypeOK
<1>2. p \in Sessions /\ toServer[i].blk \in Numbers
  BY <1>1, Zenon DEF ToServer
<1>3. Used(server[p])
  BY Zenon DEF IInv, Asked
<1>4. server[p] \in SessionType /\ SessionOK(server[p], tftp_our_port, file_size)
  BY <1>2, Zenon DEF IInv, TypeOK
<1>5. server[p].blksize \in BlockSizes /\ server[p].blk \in Nat
  BY <1>3, <1>4, Zenon DEF SessionOK, SessionType
<1>6. ~Fresh(p)
  BY <1>2, Zenon DEF IInv, Untouched, NoAck, IsAck
<1> QED BY <1>2, <1>3, <1>4, <1>5, <1>6, Zenon

\* A step that leaves memory, the sessions and the client's view of its session
\* alone, and of the channels takes packets only: packets are lost or ignored,
\* or the transfer is given up.
LEMMA QuietStep ==
    ASSUME IInv,
           UNCHANGED <<tftp_state, tftp_cur_block, tftp_prev_block, tftp_block_wrap,
                       tftp_block_size, tftp_remote_port, tftp_our_port,
                       net_boot_file_size, mem, file, server>>,
           net_state' \in {net_state, "RESTART", "FAIL"},
           toServer' \in Seq(ToServer), Thins(toServer', toServer),
           toClient' \in Seq(ToClient), Thins(toClient', toClient)
    PROVE  IInv'
<1>i1. TypeOK /\ Fits
  BY Zenon DEF IInv
<1>i2. \A q \in Sessions : SessionOK(server[q], tftp_our_port, file_size)
  BY Zenon DEF IInv
<1>i3. \A q \in Sessions : Fresh(q) => Untouched(q, server[q], toServer, toClient)
  BY Zenon DEF IInv
<1>i4. FromSessions(toClient, server, file_size) /\ Asked(toServer, server, tftp_our_port)
  BY Zenon DEF IInv
<1>i5. Holding /\ AtStart /\ MemOK
  BY Zenon DEF IInv
<1>i6. InOrder
  BY Zenon DEF IInv
<1>i7. OutOfOrder
  BY Zenon DEF IInv
<1>i8. SuccessIsWhole
  BY Zenon DEF IInv
<1>1. TypeOK' /\ Fits'
  BY <1>i1, Zenon DEF TypeOK, Fits, file
<1>2. (\A p \in Sessions : SessionOK(server[p], tftp_our_port, file_size))'
  BY <1>i2, Zenon DEF file
<1>3. (\A p \in Sessions : Fresh(p) => Untouched(p, server[p], toServer, toClient))'
  <2> SUFFICES ASSUME NEW p \in Sessions, Fresh(p)'
               PROVE  Untouched(p, server[p], toServer, toClient)'
    BY <1>i3, Zenon
  <2>1. Untouched(p, server[p], toServer, toClient)
    BY <1>i3, Zenon DEF Fresh, Joined
  <2>2. NoAck(toServer, p) => NoAck(toServer', p)
    BY ThinServer, Zenon
  <2>3. NoOack(toClient, p) => NoOack(toClient', p)
    BY ThinClient, Zenon
  <2> QED BY <2>1, <2>2, <2>3, <1>i3, Zenon DEF Untouched
<1>4. FromSessions(toClient, server, file_size)' /\ Asked(toServer, server, tftp_our_port)'
  <2>1. FromSessions(toClient', server, file_size)
    BY ThinClient, <1>i4, Zenon
  <2>2. Asked(toServer', server, tftp_our_port)
    BY ThinServer, <1>i4, Zenon
  <2> QED BY <2>1, <2>2, Zenon DEF file
<1>5. Holding' /\ AtStart' /\ MemOK'
  BY <1>i5, Zenon DEF Holding, AtStart, MemOK, Joined, file
<1>6. InOrder'
  <2> SUFFICES ASSUME ~reorders
               PROVE  /\ \A p \in Sessions : Used(server[p]) =>
                           \E c \in Nat : Acked(p, server[p], toServer', c, file_size, DOMAIN mem)
                      /\ Stepping'
    BY <1>i6, Zenon DEF InOrder, file
  <2>1. ASSUME NEW p, NEW c, Acked(p, server[p], toServer, c, file_size, DOMAIN mem)
        PROVE  Acked(p, server[p], toServer', c, file_size, DOMAIN mem)
    <3>1. AcksOK(toServer', p, c, server[p].blk)
      BY <2>1, ThinServer, Zenon DEF Acked
    <3> QED BY <2>1, <3>1, Zenon DEF Acked
  <2>2. \A p, s, c, size : DataOK(toClient, p, s, c, size) => DataOK(toClient', p, s, c, size)
    BY ThinClient, Zenon
  <2>3. ClientLast' = ClientLast /\ ClientBlock' = ClientBlock /\ Joined' = Joined
    BY Zenon DEF ClientLast, ClientBlock, Joined
  <2>4. Stepping
    BY <1>i6, Zenon DEF InOrder
  <2>5. SUFFICES Stepping'
    BY <2>1, <1>i6, Zenon DEF InOrder
  <2>6. CASE net_state' = net_state
    BY <2>1, <2>2, <2>3, <2>4, <2>6, Zenon DEF Stepping, file
  <2>7. CASE net_state' # net_state
    BY <2>7, Zenon DEF Stepping
  <2> QED BY <2>6, <2>7, Zenon
<1>7. OutOfOrder'
  <2>1. \A sv, size, st : AcksStored(toServer, sv, size, st) => AcksStored(toServer', sv, size, st)
    BY ThinServer, Zenon
  <2> QED BY <2>1, <1>i7, Zenon DEF OutOfOrder, Joined, file
<1>8. SuccessIsWhole'
  BY <1>i8, Zenon DEF SuccessIsWhole, file
<1> QED BY <1>1, <1>2, <1>3, <1>4, <1>5, <1>6, <1>7, <1>8, Zenon DEF IInv

\* A packet that arrives is taken from its channel.
LEMMA Taken ==
    /\ \A i \in Arriving(toServer) : toServer \in Seq(ToServer) =>
          /\ i \in 1..Len(toServer) /\ toServer[i] \in ToServer /\ (~reorders => i = 1)
          /\ Without(toServer, i) \in Seq(ToServer)
          /\ Shrunk(Without(toServer, i), toServer, i)
          /\ Thins(Without(toServer, i), toServer)
    /\ \A i \in Arriving(toClient) : toClient \in Seq(ToClient) =>
          /\ i \in 1..Len(toClient) /\ toClient[i] \in ToClient /\ (~reorders => i = 1)
          /\ Without(toClient, i) \in Seq(ToClient)
          /\ Shrunk(Without(toClient, i), toClient, i)
          /\ Thins(Without(toClient, i), toClient)
<1>1. ASSUME NEW i \in Arriving(toServer), toServer \in Seq(ToServer)
      PROVE  /\ i \in 1..Len(toServer) /\ toServer[i] \in ToServer /\ (~reorders => i = 1)
             /\ Without(toServer, i) \in Seq(ToServer)
             /\ Shrunk(Without(toServer, i), toServer, i)
             /\ Thins(Without(toServer, i), toServer)
  BY ONLY <1>1, Arrival, ShrunkThins
<1>2. ASSUME NEW i \in Arriving(toClient), toClient \in Seq(ToClient)
      PROVE  /\ i \in 1..Len(toClient) /\ toClient[i] \in ToClient /\ (~reorders => i = 1)
             /\ Without(toClient, i) \in Seq(ToClient)
             /\ Shrunk(Without(toClient, i), toClient, i)
             /\ Thins(Without(toClient, i), toClient)
  BY ONLY <1>2, Arrival, ShrunkThins
<1> QED BY <1>1, <1>2, Zenon

\* net_start_again leaves the loop.
LEMMA StartAgain ==
    ASSUME net_start_again PROVE net_state' \in {"RESTART", "FAIL"}
BY Zenon DEF net_start_again

\* The network loses a packet.
LEMMA LoseKeeps ==
    ASSUME IInv, lose PROVE IInv'
<1>1. toServer \in Seq(ToServer) /\ toClient \in Seq(ToClient)
  BY Zenon DEF IInv, TypeOK
<1>2. /\ UNCHANGED <<client, file, server>>
      /\ toServer' \in Seq(ToServer) /\ Thins(toServer', toServer)
      /\ toClient' \in Seq(ToClient) /\ Thins(toClient', toClient)
  BY <1>1, Taken, ThinsItself, Zenon DEF lose
<1> QED BY <1>2, QuietStep, Zenon DEF client

\* tftp_handler returns early: another port, or a packet of no use.
LEMMA IgnoresKeeps ==
    ASSUME IInv, handler_ignores PROVE IInv'
<1>1. toServer \in Seq(ToServer) /\ toClient \in Seq(ToClient)
  BY Zenon DEF IInv, TypeOK
<1>2. /\ UNCHANGED <<client, file, server, toServer>>
      /\ toClient' \in Seq(ToClient) /\ Thins(toClient', toClient)
  BY <1>1, Taken, Zenon DEF handler_ignores
<1>3. Thins(toServer', toServer)
  BY <1>2, ThinsItself, Zenon
<1> QED BY <1>1, <1>2, <1>3, QuietStep, Zenon DEF client

\* A block received again changes nothing: tftp_cur_block is tftp_prev_block.
LEMMA AgainKeeps ==
    ASSUME IInv, handler_data_again PROVE IInv'
<1>1. toServer \in Seq(ToServer) /\ toClient \in Seq(ToClient)
  BY Zenon DEF IInv, TypeOK
<1>2. PICK i \in Arriving(toClient) :
        /\ Looping /\ tftp_state = "DATA" /\ toClient[i].blk = tftp_prev_block
        /\ toClient' = Without(toClient, i) /\ tftp_cur_block' = toClient[i].blk
        /\ UNCHANGED <<tftp_state, tftp_prev_block, tftp_block_wrap, tftp_block_size,
                       tftp_remote_port, tftp_our_port, timeout_count, net_state,
                       net_try_count, net_boot_file_size, mem, file, server, toServer>>
  BY Zenon DEF handler_data_again
<1>3. tftp_cur_block' = tftp_cur_block
  BY <1>2, Zenon DEF IInv, AtStart, Looping
<1>4. toClient' \in Seq(ToClient) /\ Thins(toClient', toClient) /\ Thins(toServer', toServer)
  BY <1>1, <1>2, Taken, ThinsItself, Zenon
<1> QED BY <1>1, <1>2, <1>3, <1>4, QuietStep, Zenon

\* An ERROR packet: tftp_handler calls net_start_again.
LEMMA ErrorKeeps ==
    ASSUME IInv, handler_error PROVE IInv'
<1>1. toServer \in Seq(ToServer) /\ toClient \in Seq(ToClient)
  BY Zenon DEF IInv, TypeOK
<1>2. PICK i \in Arriving(toClient) :
        /\ toClient' = Without(toClient, i) /\ net_start_again
        /\ UNCHANGED <<tftp_state, tftp_cur_block, tftp_prev_block, tftp_block_wrap,
                       tftp_block_size, tftp_remote_port, tftp_our_port, timeout_count,
                       net_boot_file_size, mem, file, server, toServer>>
  BY Zenon DEF handler_error
<1>3. net_state' \in {"RESTART", "FAIL"}
  BY <1>2, StartAgain, Zenon
<1>4. toClient' \in Seq(ToClient) /\ Thins(toClient', toClient) /\ Thins(toServer', toServer)
  BY <1>1, <1>2, Taken, ThinsItself, Zenon
<1> QED BY <1>1, <1>2, <1>3, <1>4, QuietStep, Zenon

\* Nothing happens.
LEMMA StutterKeeps ==
    ASSUME IInv, UNCHANGED vars PROVE IInv'
<1>1. toServer \in Seq(ToServer) /\ toClient \in Seq(ToClient)
  BY Zenon DEF IInv, TypeOK
<1>2. Thins(toClient', toClient) /\ Thins(toServer', toServer)
  BY ThinsItself, Zenon DEF vars
<1> QED BY <1>1, <1>2, QuietStep, Zenon DEF vars, client

\* The server sends a packet, and takes one off the channel to it: a step that
\* leaves the client and the sessions alone.
LEMMA ServerSends ==
    ASSUME IInv, UNCHANGED <<client, file, server>>,
           toServer' \in Seq(ToServer), Thins(toServer', toServer),
           NEW m \in ToClient, toClient' \in Seq(ToClient), Grows(toClient', toClient, m),
           m.op # "ERROR" =>
              /\ server[m.src].state \in {"oack", "data"}
              /\ m = Numbered(m.src, server[m.src], server[m.src].blk, file_size)
    PROVE  IInv'
<1>i1. TypeOK /\ Fits
  BY Zenon DEF IInv
<1>i2. \A q \in Sessions : SessionOK(server[q], tftp_our_port, file_size)
  BY Zenon DEF IInv
<1>i3. \A q \in Sessions : Fresh(q) => Untouched(q, server[q], toServer, toClient)
  BY Zenon DEF IInv
<1>i4. FromSessions(toClient, server, file_size) /\ Asked(toServer, server, tftp_our_port)
  BY Zenon DEF IInv
<1>i5. Holding /\ AtStart /\ MemOK
  BY Zenon DEF IInv
<1>i6. InOrder
  BY Zenon DEF IInv
<1>i7. OutOfOrder
  BY Zenon DEF IInv
<1>i8. SuccessIsWhole
  BY Zenon DEF IInv
<1>0. UNCHANGED <<tftp_state, tftp_cur_block, tftp_prev_block, tftp_block_wrap,
            tftp_block_size, tftp_remote_port, tftp_our_port, timeout_count,
            net_state, net_try_count, net_boot_file_size, mem, file_size, reorders, server>>
  BY Zenon DEF client, file
<1>a. m.src \in Sessions
  BY Zenon DEF ToClient
<1>b. file_size \in Nat
  BY <1>i1, Zenon DEF TypeOK
<1>c. ASSUME m.op # "ERROR"
      PROVE  /\ Used(server[m.src]) /\ server[m.src] \in SessionType
             /\ server[m.src].blksize \in BlockSizes /\ server[m.src].blk \in Nat
             /\ m.op = IF server[m.src].blk = 0 THEN "OACK" ELSE "DATA"
             /\ m = Numbered(m.src, server[m.src], server[m.src].blk, file_size)
  <2>1. Used(server[m.src]) /\ server[m.src] \in SessionType
    BY <1>a, <1>c, <1>i1, Zenon DEF Used, TypeOK
  <2>2. server[m.src].blksize \in BlockSizes /\ server[m.src].blk \in Nat
    BY <1>a, <2>1, <1>i2, Zenon DEF SessionOK, SessionType
  <2>3. m.op = IF server[m.src].blk = 0 THEN "OACK" ELSE "DATA"
    BY <1>a, <1>b, <1>c, <2>1, <2>2, NumberedHead
  <2> QED BY <1>c, <2>1, <2>2, <2>3, Zenon
<1>1. TypeOK' /\ Fits'
  BY <1>0, <1>i1, Zenon DEF TypeOK, Fits
<1>2. (\A p \in Sessions : SessionOK(server[p], tftp_our_port, file_size))'
  BY <1>0, <1>i2, Zenon
<1>3. (\A p \in Sessions : Fresh(p) => Untouched(p, server[p], toServer, toClient))'
  <2> SUFFICES ASSUME NEW p \in Sessions, Fresh(p)'
               PROVE  Untouched(p, server[p], toServer, toClient)'
    BY <1>i3, Zenon
  <2>1. Untouched(p, server[p], toServer, toClient)
    BY <1>0, <1>i3, Zenon DEF Fresh, Joined
  <2>2. NoAck(toServer', p)
    BY <2>1, ThinServer, <1>i3, Zenon DEF Untouched
  <2>3. NoOack(toClient, p) /\ server[p].blk = 1 => NoOack(toClient', p)
    BY <1>c, MoreToClient
  <2> QED BY <1>0, <2>1, <2>2, <2>3, <1>i3, Zenon DEF Untouched
<1>4. FromSessions(toClient, server, file_size)' /\ Asked(toServer, server, tftp_our_port)'
  <2>1. m.op # "ERROR" => /\ Used(server[m.src])
                          /\ \E n \in 0..server[m.src].blk :
                               m = Numbered(m.src, server[m.src], n, file_size)
    BY <1>c
  <2>2. FromSessions(toClient', server, file_size)
    BY <2>1, MoreToClient, <1>i4, Zenon
  <2>3. Asked(toServer', server, tftp_our_port)
    BY ThinServer, <1>i4, Zenon
  <2> QED BY <1>0, <2>2, <2>3, Zenon
<1>5. Holding' /\ AtStart' /\ MemOK'
  BY <1>0, <1>i5, Zenon DEF Holding, AtStart, MemOK, Joined
<1>6. InOrder'
  <2> SUFFICES ASSUME ~reorders
               PROVE  /\ \A p \in Sessions : Used(server[p]) =>
                           \E c \in Nat : Acked(p, server[p], toServer', c, file_size, DOMAIN mem)
                      /\ Stepping'
    BY <1>0, <1>i6, Zenon DEF InOrder
  <2>1. ASSUME NEW p, NEW c, Acked(p, server[p], toServer, c, file_size, DOMAIN mem)
        PROVE  Acked(p, server[p], toServer', c, file_size, DOMAIN mem)
    <3>1. AcksOK(toServer', p, c, server[p].blk)
      BY <2>1, ThinServer, Zenon DEF Acked
    <3> QED BY <2>1, <3>1, Zenon DEF Acked
  <2>2. SUFFICES ASSUME Joined, net_state = "CONTINUE"
                 PROVE  DataOK(toClient', tftp_remote_port, server[tftp_remote_port],
                               ClientLast, file_size)
    <3>1. ClientLast' = ClientLast /\ ClientBlock' = ClientBlock /\ Joined' = Joined
      BY <1>0, Zenon DEF ClientLast, ClientBlock, Joined
    <3> QED BY <1>0, <2>1, <3>1, <1>i6, Zenon DEF InOrder, Stepping
  <2> DEFINE r == tftp_remote_port  s == server[tftp_remote_port]  c == ClientLast
  <2>3. Acked(r, s, toServer, c, file_size, DOMAIN mem) /\ DataOK(toClient, r, s, c, file_size)
    BY <2>2, <1>i6, Zenon DEF InOrder, Stepping
  <2>4. ASSUME FromPort(m, r)
        PROVE  /\ \E n \in {c, c + 1} : n <= s.blk /\ m = Numbered(r, s, n, file_size)
               /\ m = Numbered(r, s, c, file_size) =>
                     \A i \in 1..Len(toClient) : FromPort(toClient[i], r) => toClient[i] = m
    <3>1. /\ r = m.src /\ m = Numbered(r, s, s.blk, file_size)
          /\ s.blk \in Nat /\ s.blk \in {c, c + 1}
      BY <1>c, <2>3, <2>4, Zenon DEF FromPort, Acked
    <3>2. ASSUME m = Numbered(r, s, c, file_size), NEW i \in 1..Len(toClient),
                 FromPort(toClient[i], r)
          PROVE  toClient[i] = m
      <4>1. PICK n \in {c, c + 1} : n <= s.blk /\ toClient[i] = Numbered(r, s, n, file_size)
        BY <2>3, <3>2, Zenon DEF DataOK
      <4>2. c \in Nat
        BY LastNat, <1>i1, Zenon
      <4>3. s.blk = c
        <5>1. r \in Sessions /\ s \in SessionType /\ s.blksize \in BlockSizes
          BY <1>a, <1>c, <2>4, <3>1, Zenon DEF FromPort
        <5>2. Numbered(r, s, c, file_size) # Numbered(r, s, c + 1, file_size)
          BY ONLY <1>b, <4>2, <5>1, NumberedApart, Zenon
        <5> QED BY <3>1, <3>2, <5>2, Zenon
      <4>4. n = c
        BY <4>1, <4>2, <4>3
      <4> QED BY <3>2, <4>1, <4>4, Zenon
    <3>3. s.blk <= s.blk
      BY <3>1, Reflexive, Zenon
    <3> HIDE DEF r, s, c
    <3> QED BY <3>1, <3>2, <3>3, Zenon
  <2> HIDE DEF r, s, c
  <2>5. DataOK(toClient', r, s, c, file_size)
    BY <2>3, <2>4, MoreToClient, Zenon
  <2> QED BY <2>5, Zenon DEF r, s, c
<1>7. OutOfOrder'
  <2>1. \A sv, size, st : AcksStored(toServer, sv, size, st) => AcksStored(toServer', sv, size, st)
    BY ThinServer, Zenon
  <2> QED BY <1>0, <2>1, <1>i7, Zenon DEF OutOfOrder, Joined
<1>8. SuccessIsWhole'
  BY <1>0, <1>i8, Zenon DEF SuccessIsWhole
<1> QED BY <1>1, <1>2, <1>3, <1>4, <1>5, <1>6, <1>7, <1>8, Zenon DEF IInv

\* The server refuses a request.
LEMMA ServerErrorKeeps ==
    ASSUME IInv, server_error PROVE IInv'
<1>1. toServer \in Seq(ToServer) /\ toClient \in Seq(ToClient)
  BY Zenon DEF IInv, TypeOK
<1>2. PICK i \in Arriving(toServer), p \in Sessions :
        /\ toServer[i].op = "RRQ"
        /\ toServer' = Without(toServer, i)
        /\ toClient' = Sent(toClient, [op |-> "ERROR", src |-> p, dest |-> toServer[i].src])
        /\ UNCHANGED <<client, file, server>>
  BY Zenon DEF server_error
<1> DEFINE m == [op |-> "ERROR", src |-> p, dest |-> toServer[i].src]
<1>3. toServer' \in Seq(ToServer) /\ Thins(toServer', toServer) /\ toServer[i] \in ToServer
  BY <1>1, <1>2, Taken, Zenon
<1>4. m \in ToClient /\ m.op = "ERROR"
  BY <1>2, <1>3, Zenon DEF ToServer, ToClient
<1> HIDE DEF m
<1>5. toClient' = Sent(toClient, m)
  BY <1>2, Zenon DEF m
<1>6. toClient' \in Seq(ToClient) /\ Grows(toClient', toClient, m)
  BY ONLY <1>1, <1>4, <1>5, Sending, Zenon
<1> QED BY <1>2, <1>3, <1>4, <1>6, ServerSends, Zenon

\* The server sends its last packet again.
LEMMA ServerResendKeeps ==
    ASSUME IInv, server_resend PROVE IInv'
<1>1. toServer \in Seq(ToServer) /\ toClient \in Seq(ToClient) /\ file_size \in Nat
  BY Zenon DEF IInv, TypeOK
<1>2. PICK p \in Sessions :
        /\ server[p].state \in {"oack", "data"} /\ Len(toClient) < Capacity
        /\ toClient' = Append(toClient, Reply(p, server[p]))
        /\ UNCHANGED <<client, file, server, toServer>>
  BY Zenon DEF server_resend
<1> DEFINE m == Reply(p, server[p])
<1>3. /\ server[p] \in SessionType /\ server[p].blksize \in BlockSizes /\ server[p].blk \in Nat
      /\ server[p].state = "oack" <=> server[p].blk = 0
  BY <1>2, Zenon DEF IInv, TypeOK, SessionOK, Used, SessionType
<1>4. m = Numbered(p, server[p], server[p].blk, file_size)
  BY <1>3, ReplyIs, Zenon
<1>5. m \in ToClient /\ m.src = p
  BY <1>1, <1>3, <1>4, NumberedHead
<1>6. toClient' = Sent(toClient, m)
  BY <1>2, Zenon DEF Sent
<1> HIDE DEF m
<1>7. toClient' \in Seq(ToClient) /\ Grows(toClient', toClient, m)
  BY ONLY <1>1, <1>5, <1>6, Sending, Zenon
<1>8. toServer' \in Seq(ToServer) /\ Thins(toServer', toServer)
  BY <1>1, <1>2, ThinsItself, Zenon
<1> QED BY <1>2, <1>4, <1>5, <1>7, <1>8, ServerSends, Zenon

\* A new session is Untouched: nothing under way is of its port.
LEMMA ServerRrqKeeps ==
    ASSUME IInv, server_rrq PROVE IInv'
<1>1. toServer \in Seq(ToServer) /\ toClient \in Seq(ToClient) /\ file_size \in Nat
  BY Zenon DEF IInv, TypeOK
<1>a. PICK i \in Arriving(toServer), p \in Sessions, options \in BOOLEAN, b \in BlockSizes :
        \E s :
          /\ s = Opened(options, b, toServer[i].src)
          /\ toServer[i].op = "RRQ"
          /\ server[p].state = "unused"
          /\ server' = [server EXCEPT ![p] = s]
          /\ toServer' = Without(toServer, i)
          /\ toClient' = Sent(toClient, Reply(p, s))
          /\ UNCHANGED <<client, file>>
  BY ZenonT(30) DEF server_rrq, BlockSizes
<1>2. PICK s :
          /\ s = Opened(options, b, toServer[i].src)
          /\ toServer[i].op = "RRQ"
          /\ server[p].state = "unused"
          /\ server' = [server EXCEPT ![p] = s]
          /\ toServer' = Without(toServer, i)
          /\ toClient' = Sent(toClient, Reply(p, s))
          /\ UNCHANGED <<client, file>>
  BY <1>a, Zenon
<1>0. UNCHANGED <<tftp_state, tftp_cur_block, tftp_prev_block, tftp_block_wrap,
            tftp_block_size, tftp_remote_port, tftp_our_port, timeout_count,
            net_state, net_try_count, net_boot_file_size, mem, file_size, reorders>>
  BY <1>2, Zenon DEF client, file
<1>3. /\ toServer' \in Seq(ToServer) /\ Thins(toServer', toServer)
      /\ toServer[i] \in ToServer /\ i \in 1..Len(toServer)
  BY <1>1, <1>2, Taken, Zenon
<1>4. toServer[i].src \in Nat /\ toServer[i].src <= tftp_our_port
  BY <1>2, <1>3, Zenon DEF ToServer, IInv, Asked
<1>5. /\ s.state = (IF options THEN "oack" ELSE "data") /\ s.peer = toServer[i].src
      /\ s.blksize = (IF options THEN b ELSE TFTP_BLOCK_SIZE)
      /\ s.blk = (IF options THEN 0 ELSE 1)
      /\ s \in SessionType
  BY <1>2, <1>4, Constants DEF SessionType, Opened
<1>6. /\ s.blksize \in BlockSizes /\ s.blk \in {0, 1} /\ (s.state = "oack" <=> s.blk = 0) /\ Used(s)
      /\ s.blk = 1 => s.state = "data" /\ s.blksize = TFTP_BLOCK_SIZE
  BY <1>5, Constants DEF Used
<1>7. SessionOK(s, tftp_our_port, file_size)
  <2>1. LastOf(file_size, s.blksize) \in Nat /\ LastOf(file_size, s.blksize) >= 1
    <3>1. s.blksize \in Nat \ {0}
      BY <1>6, Constants, Zenon
    <3>2. file_size \div s.blksize \in Nat
      BY ONLY <1>1, <3>1, DivMod, Zenon
    <3> QED BY ONLY <3>2 DEF LastOf
  <2> QED BY <1>4, <1>5, <1>6, <2>1 DEF SessionOK
<1> DEFINE m == Reply(p, s)
<1>8. m = Numbered(p, s, s.blk, file_size)
  BY <1>6, ReplyIs, Zenon
<1>9. m \in ToClient /\ m.src = p /\ m.op = IF s.blk = 0 THEN "OACK" ELSE "DATA"
  BY <1>1, <1>5, <1>6, <1>8, NumberedHead
<1> HIDE DEF m
<1>10. toClient' \in Seq(ToClient) /\ Grows(toClient', toClient, m)
  <2>1. toClient' = Sent(toClient, m)
    BY <1>2, Zenon DEF m
  <2> QED BY ONLY <1>1, <1>9, <2>1, Sending, Zenon
<1>11. \A k \in 1..Len(toClient) : toClient[k].op # "ERROR" => toClient[k].src # p
  BY <1>2, Sender, Zenon DEF Used
<1>12. NoAck(toServer, p)
  BY <1>2, Zenon DEF IInv, Asked, NoAck, IsAck, Used
<1>13. /\ \A q \in Sessions : q # p => server'[q] = server[q]
       /\ server'[p] = s /\ server' \in [Sessions -> SessionType]
  BY <1>2, <1>5, Zenon DEF IInv, TypeOK
<1>14. Joined => tftp_remote_port # p /\ server'[tftp_remote_port] = server[tftp_remote_port]
  BY <1>2, <1>13, Zenon DEF IInv, Holding, Used
<1> HIDE DEF m
<1>i1. TypeOK /\ Fits
  BY Zenon DEF IInv
<1>i2. \A q \in Sessions : SessionOK(server[q], tftp_our_port, file_size)
  BY Zenon DEF IInv
<1>i3. \A q \in Sessions : Fresh(q) => Untouched(q, server[q], toServer, toClient)
  BY Zenon DEF IInv
<1>i4. FromSessions(toClient, server, file_size) /\ Asked(toServer, server, tftp_our_port)
  BY Zenon DEF IInv
<1>i5. Holding /\ AtStart /\ MemOK
  BY Zenon DEF IInv
<1>i6. InOrder
  BY Zenon DEF IInv
<1>i7. OutOfOrder
  BY Zenon DEF IInv
<1>i8. SuccessIsWhole
  BY Zenon DEF IInv
<1>21. TypeOK' /\ Fits'
  BY <1>0, <1>3, <1>10, <1>13, <1>i1, Zenon DEF TypeOK, Fits
<1>22. (\A q \in Sessions : SessionOK(server[q], tftp_our_port, file_size))'
  BY <1>0, <1>7, <1>13, <1>i2, Zenon
<1>23. (\A q \in Sessions : Fresh(q) => Untouched(q, server[q], toServer, toClient))'
  <2> SUFFICES ASSUME NEW q \in Sessions, Fresh(q)'
               PROVE  Untouched(q, server[q], toServer, toClient)'
    BY <1>i3, Zenon
  <2>1. CASE q = p
    <3>1. NoAck(toServer', p)
      BY <1>3, <1>12, ThinServer, Zenon
    <3>2. s.blk = 1 => NoOack(toClient', p)
      <4>1. NoOack(toClient, p)
        BY <1>11, Zenon DEF NoOack
      <4> QED BY <1>9, <1>10, <4>1, MoreToClient
    <3> QED BY <1>6, <1>13, <2>1, <3>1, <3>2, <1>i3, Zenon DEF Untouched
  <2>2. CASE q # p
    <3>1. Untouched(q, server[q], toServer, toClient)
      BY <1>0, <1>13, <2>2, <1>i3, Zenon DEF Fresh, Joined
    <3>2. NoAck(toServer', q)
      BY <1>3, <3>1, ThinServer, <1>i3, Zenon DEF Untouched
    <3>3. NoOack(toClient, q) => NoOack(toClient', q)
      BY <1>9, <1>10, <2>2, MoreToClient, Zenon
    <3> QED BY <1>13, <2>2, <3>1, <3>2, <3>3, <1>i3, Zenon DEF Untouched
  <2> QED BY <2>1, <2>2, Zenon
<1>24. FromSessions(toClient, server, file_size)'
  <2>1. FromSessions(toClient, server', file_size)
    <3> SUFFICES ASSUME NEW k \in 1..Len(toClient), toClient[k].op # "ERROR"
                 PROVE  server'[toClient[k].src] = server[toClient[k].src]
      BY <1>i4, Zenon DEF FromSessions
    <3> QED BY <1>11, <1>13, Sender, Zenon
  <2>2. \E n \in 0..server'[p].blk : m = Numbered(p, server'[p], n, file_size)
    BY <1>6, <1>8, <1>13
  <2>3. FromSessions(toClient', server', file_size)
    BY <1>6, <1>9, <1>10, <1>13, <2>1, <2>2, MoreToClient, <1>i4, Zenon
  <2> QED BY <1>0, <2>3, Zenon
<1>25. Asked(toServer, server, tftp_our_port)'
  <2>1. Asked(toServer, server', tftp_our_port)
    <3> SUFFICES ASSUME NEW k \in 1..Len(toServer), toServer[k].op = "ACK"
                 PROVE  Used(server'[toServer[k].port])
      BY <1>i4, Zenon DEF Asked
    <3> QED BY <1>6, <1>13, AckedSession, Zenon
  <2> QED BY <1>0, <1>3, <2>1, ThinServer, Zenon
<1>26. Holding' /\ AtStart' /\ MemOK'
  BY <1>0, <1>14, <1>i5, Zenon DEF Holding, AtStart, MemOK, Joined
<1>27. InOrder'
  <2> SUFFICES ASSUME ~reorders
               PROVE  /\ \A q \in Sessions : Used(server'[q]) =>
                           \E c \in Nat : Acked(q, server'[q], toServer', c, file_size, DOMAIN mem)
                      /\ Stepping'
    BY <1>0, <1>i6, Zenon DEF InOrder
  <2>1. ASSUME NEW q, NEW c, Acked(q, server[q], toServer, c, file_size, DOMAIN mem)
        PROVE  Acked(q, server[q], toServer', c, file_size, DOMAIN mem)
    <3>1. AcksOK(toServer', q, c, server[q].blk)
      BY <1>3, <2>1, ThinServer, Zenon DEF Acked
    <3> QED BY <2>1, <3>1, Zenon DEF Acked
  <2>2. Acked(p, s, toServer', 0, file_size, DOMAIN mem)
    <3>1. NoAck(toServer', p)
      BY <1>3, <1>12, ThinServer, Zenon
    <3>2. Stored(0, s.blksize, file_size, DOMAIN mem)
      BY <1>6, Constants, StoredNone, Zenon
    <3> QED BY <1>6, <3>1, <3>2 DEF Acked, AcksOK, NoAck
  <2>3. ASSUME NEW q \in Sessions, Used(server'[q])
        PROVE  \E c \in Nat : Acked(q, server'[q], toServer', c, file_size, DOMAIN mem)
    BY <1>13, <2>1, <2>2, <2>3, <1>i6, Zenon DEF InOrder
  <2>4. Stepping'
    <3>1. ClientLast' = ClientLast /\ ClientBlock' = ClientBlock /\ Joined' = Joined
      BY <1>0, Zenon DEF ClientLast, ClientBlock, Joined
    <3>2. Joined => \A t, c : DataOK(toClient, tftp_remote_port, t, c, file_size) =>
                                DataOK(toClient', tftp_remote_port, t, c, file_size)
      BY <1>9, <1>10, <1>14, MoreToClient, Zenon DEF FromPort
    <3> QED BY <1>0, <1>14, <2>1, <3>1, <3>2, <1>i6, Zenon DEF InOrder, Stepping
  <2> QED BY <2>3, <2>4, Zenon
<1>28. OutOfOrder'
  <2> SUFFICES ASSUME reorders
               PROVE  /\ \A q \in Sessions : Used(server'[q]) /\ server'[q].blk > 0 =>
                            Stored(server'[q].blk - 1, server'[q].blksize, file_size, DOMAIN mem)
                      /\ AcksStored(toServer', server', file_size, DOMAIN mem)
                      /\ Joined /\ net_state = "CONTINUE" =>
                          /\ Stored(tftp_cur_block, server'[tftp_remote_port].blksize, file_size, DOMAIN mem)
                          /\ tftp_state = "DATA" => tftp_block_wrap = 0
    BY <1>0, <1>i7, Zenon DEF OutOfOrder, Joined
  <2>1. Stored(0, s.blksize, file_size, DOMAIN mem)
    BY <1>6, Constants, StoredNone, Zenon
  <2>2. ASSUME NEW q \in Sessions, Used(server'[q]), server'[q].blk > 0
        PROVE  Stored(server'[q].blk - 1, server'[q].blksize, file_size, DOMAIN mem)
    <3>1. CASE q = p
      <4>1. s.blk - 1 = 0
        BY <1>6, <1>13, <2>2, <3>1
      <4> QED BY <1>13, <2>1, <3>1, <4>1, Zenon
    <3> QED BY <1>13, <2>2, <3>1, <1>i7, Zenon DEF OutOfOrder
  <2>3. AcksStored(toServer, server', file_size, DOMAIN mem)
    <3> SUFFICES ASSUME NEW k \in 1..Len(toServer), toServer[k].op = "ACK"
                 PROVE  server'[toServer[k].port] = server[toServer[k].port]
      BY <1>i7, Zenon DEF AcksStored, OutOfOrder
    <3> QED BY <1>12, <1>13, AckedSession, Zenon DEF NoAck, IsAck
  <2>4. AcksStored(toServer', server', file_size, DOMAIN mem)
    BY <1>3, <2>3, ThinServer, Zenon
  <2> QED BY <1>14, <2>2, <2>4, <1>i7, Zenon DEF OutOfOrder
<1>29. SuccessIsWhole'
  BY <1>0, <1>i8, Zenon DEF SuccessIsWhole
<1> QED BY <1>21, <1>22, <1>23, <1>24, <1>25, <1>26, <1>27, <1>28, <1>29, Zenon DEF IInv

\* The ACKs of a session whose server waits for the ACK it has now got: it is an
\* ACK of the last block sent, and so are those behind it.
LEMMA AckMatches ==
    ASSUME NEW ch, NEW p, NEW c \in Nat, NEW b \in {c, c + 1}, AcksOK(ch, p, c, b),
           1 \in 1..Len(ch), IsAck(ch[1], p), AckOf(ch[1], b)
    PROVE  b = c /\ \A j \in 1..Len(ch) : IsAck(ch[j], p) => AckOf(ch[j], c)
<1>1. (c + 1) % TFTP_SEQUENCE_SIZE # c % TFTP_SEQUENCE_SIZE
  BY Constants, ModNext, Zenon
<1>2. c > 0 => c % TFTP_SEQUENCE_SIZE # (c - 1) % TFTP_SEQUENCE_SIZE
  <2>1. SUFFICES ASSUME c > 0 PROVE c % TFTP_SEQUENCE_SIZE # (c - 1) % TFTP_SEQUENCE_SIZE
    BY Zenon
  <2>2. c - 1 \in Nat /\ c = (c - 1) + 1
    BY <2>1
  <2>3. ((c - 1) + 1) % TFTP_SEQUENCE_SIZE # (c - 1) % TFTP_SEQUENCE_SIZE
    BY <2>2, Constants, ModNext, Zenon
  <2> QED BY <2>2, <2>3, Zenon
<1>3. AckOf(ch[1], c) \/ (b = c /\ c > 0 /\ AckOf(ch[1], c - 1))
  BY Zenon DEF AcksOK
<1>4. b = c
  BY <1>1, <1>3, Zenon DEF AckOf
<1>5. AckOf(ch[1], c)
  BY <1>4, Zenon
<1>6. ASSUME NEW j \in 1..Len(ch), IsAck(ch[j], p) PROVE AckOf(ch[j], c)
  <2>1. j = 1 \/ 1 < j
    OBVIOUS
  <2> QED BY <1>5, <1>6, <2>1, Zenon DEF AcksOK
<1> QED BY <1>4, <1>6, Zenon

\* The ACK moves the session on: to the next block, or to its end.
LEMMA ServerMoves ==
    ASSUME IInv, UNCHANGED <<client, file>>,
           NEW i \in Arriving(toServer), toServer[i].op = "ACK",
           toServer' = Without(toServer, i),
           NEW p, p = toServer[i].port, NEW s, s = server[p],
           s.state \in {"oack", "data"}, AckOf(toServer[i], s.blk),
           NEW t \in SessionType, server' = [server EXCEPT ![p] = t],
           t.blksize = s.blksize, t.peer = s.peer, t.state \in {"data", "closed"},
           \/ /\ s.state = "data" /\ t.blk = s.blk /\ toClient' = toClient
           \/ /\ t.blk = s.blk + 1
              /\ t.blk <= LastOf(file_size, t.blksize)
              /\ toClient' = Sent(toClient, Numbered(p, t, t.blk, file_size))
    PROVE  IInv'
<1>0. UNCHANGED <<tftp_state, tftp_cur_block, tftp_prev_block, tftp_block_wrap,
            tftp_block_size, tftp_remote_port, tftp_our_port, timeout_count,
            net_state, net_try_count, net_boot_file_size, mem, file_size, reorders>>
  BY Zenon DEF client, file
<1>1. /\ toServer \in Seq(ToServer) /\ toClient \in Seq(ToClient) /\ file_size \in Nat
      /\ server \in [Sessions -> SessionType]
  BY Zenon DEF IInv, TypeOK
<1>2. /\ i \in 1..Len(toServer) /\ (~reorders => i = 1)
      /\ toServer' \in Seq(ToServer) /\ Thins(toServer', toServer)
      /\ Shrunk(toServer', toServer, i)
  BY <1>1, Taken, Zenon
<1>3. /\ p \in Sessions /\ Used(s) /\ s \in SessionType /\ s.blksize \in BlockSizes
      /\ s.blk \in Nat /\ SessionOK(s, tftp_our_port, file_size)
      /\ toServer[i].blk \in Numbers /\ ~Fresh(p)
  BY <1>2, AckedSession, Zenon
<1>4. /\ Used(t) /\ t.blksize \in BlockSizes /\ t.blk \in Nat /\ t.blk # 0 /\ t.blk >= s.blk
      /\ SessionOK(t, tftp_our_port, file_size)
  BY <1>3, SMTT(30) DEF Used, SessionOK
<1>5. \A n : Numbered(p, t, n, file_size) = Numbered(p, s, n, file_size)
  BY NumberedSame
<1>6. /\ \A q \in Sessions : q # p => server'[q] = server[q]
      /\ server'[p] = t /\ server' \in [Sessions -> SessionType]
  BY <1>1, <1>3, ZenonT(30)
<1> DEFINE m == Numbered(p, t, t.blk, file_size)
<1>7. m \in ToClient /\ m.src = p /\ m.op = "DATA" /\ FromPort(m, p)
  BY <1>1, <1>3, <1>4, NumberedHead
<1> HIDE DEF m
<1>8. \/ t.blk = s.blk /\ toClient' = toClient
      \/ t.blk = s.blk + 1 /\ toClient' \in Seq(ToClient) /\ Grows(toClient', toClient, m)
  <2>1. Sent(toClient, m) \in Seq(ToClient) /\ Grows(Sent(toClient, m), toClient, m)
    BY ONLY <1>1, <1>7, Sending, Zenon
  <2> QED BY <2>1, Zenon DEF m
<1>9. /\ toClient' \in Seq(ToClient) 
      /\ \A q : NoOack(toClient, q) => NoOack(toClient', q)
  BY <1>1, <1>7, <1>8, MoreToClient, Zenon
<1>10. \A q \in Sessions : Used(server'[q]) <=> Used(server[q])
  BY <1>3, <1>4, <1>6, Zenon
<1>11. Joined => server'[tftp_remote_port].peer = server[tftp_remote_port].peer
              /\ server'[tftp_remote_port].blksize = server[tftp_remote_port].blksize
              /\ tftp_remote_port \in Sessions
  BY <1>6, Zenon DEF IInv, Holding
<1>i1. TypeOK /\ Fits
  BY Zenon DEF IInv
<1>i2. \A q \in Sessions : SessionOK(server[q], tftp_our_port, file_size)
  BY Zenon DEF IInv
<1>i3. \A q \in Sessions : Fresh(q) => Untouched(q, server[q], toServer, toClient)
  BY Zenon DEF IInv
<1>i4. FromSessions(toClient, server, file_size) /\ Asked(toServer, server, tftp_our_port)
  BY Zenon DEF IInv
<1>i5. Holding /\ AtStart /\ MemOK
  BY Zenon DEF IInv
<1>i6. InOrder
  BY Zenon DEF IInv
<1>i7. OutOfOrder
  BY Zenon DEF IInv
<1>i8. SuccessIsWhole
  BY Zenon DEF IInv
<1>21. TypeOK' /\ Fits'
  BY <1>0, <1>2, <1>6, <1>9, <1>i1, Zenon DEF TypeOK, Fits
<1>22. (\A q \in Sessions : SessionOK(server[q], tftp_our_port, file_size))'
  BY <1>0, <1>4, <1>6, <1>i2, Zenon
<1>23. (\A q \in Sessions : Fresh(q) => Untouched(q, server[q], toServer, toClient))'
  <2> SUFFICES ASSUME NEW q \in Sessions, Fresh(q)'
               PROVE  Untouched(q, server[q], toServer, toClient)'
    BY <1>i3, Zenon
  <2>1. q # p /\ server'[q] = server[q] /\ Fresh(q)
    BY <1>0, <1>3, <1>6, <1>i3, Zenon DEF Fresh, Joined
  <2>2. Untouched(q, server[q], toServer, toClient)
    BY <2>1, <1>i3, Zenon
  <2>3. NoAck(toServer', q)
    BY <1>2, <2>2, ThinServer, <1>i3, Zenon DEF Untouched
  <2> QED BY <1>9, <2>1, <2>2, <2>3, <1>i3, Zenon DEF Untouched
<1>24. FromSessions(toClient, server, file_size)'
  <2>1. FromSessions(toClient, server', file_size)
    <3> SUFFICES ASSUME NEW k \in 1..Len(toClient), toClient[k].op # "ERROR"
                 PROVE  /\ Used(server'[toClient[k].src])
                        /\ \E n \in 0..server'[toClient[k].src].blk :
                             toClient[k] = Numbered(toClient[k].src, server'[toClient[k].src], n, file_size)
      BY <1>i4, Zenon DEF FromSessions
    <3>1. /\ toClient[k].src \in Sessions /\ Used(server[toClient[k].src])
          /\ \E n \in 0..server[toClient[k].src].blk :
                 toClient[k] = Numbered(toClient[k].src, server[toClient[k].src], n, file_size)
      BY Sender, ZenonT(30)
    <3> QED BY <1>3, <1>4, <1>5, <1>6, <3>1
  <2>2. \E n \in 0..server'[p].blk : m = Numbered(p, server'[p], n, file_size)
    BY <1>4, <1>6 DEF m
  <2>3. FromSessions(toClient', server', file_size)
    <3>1. CASE toClient' = toClient
      BY <2>1, <3>1, Zenon
    <3>2. CASE Grows(toClient', toClient, m)
      <4>1. m.src = p /\ Used(server'[p])
        BY <1>4, <1>6, <1>7, Zenon
      <4> QED BY ONLY <2>1, <2>2, <3>2, <4>1, MoreToClient, Zenon
    <3> QED BY <1>8, <3>1, <3>2, Zenon
  <2> QED BY <1>0, <2>3, ZenonT(30)
<1>25. Asked(toServer, server, tftp_our_port)'
  <2>1. Asked(toServer, server', tftp_our_port)
    <3> SUFFICES ASSUME NEW k \in 1..Len(toServer), toServer[k].op = "ACK"
                 PROVE  Used(server'[toServer[k].port])
      BY <1>i4, Zenon DEF Asked
    <3>1. toServer[k].port \in Sessions /\ Used(server[toServer[k].port])
      BY AckedSession, Zenon
    <3> QED BY <1>10, <3>1, Zenon
  <2>2. Asked(toServer', server', tftp_our_port)
    BY <1>2, <2>1, ThinServer, Zenon
  <2> QED BY <1>0, <2>2, Zenon
<1>26. Holding' /\ AtStart' /\ MemOK'
  BY <1>0, <1>10, <1>11, <1>i5, Zenon DEF Holding, AtStart, MemOK, Joined
<1>27. InOrder'
  <2> SUFFICES ASSUME ~reorders
               PROVE  /\ \A q \in Sessions : Used(server'[q]) =>
                           \E c \in Nat : Acked(q, server'[q], toServer', c, file_size, DOMAIN mem)
                      /\ Stepping'
    BY <1>0, <1>i6, Zenon DEF InOrder
  <2>0. i = 1 /\ 1 \in 1..Len(toServer) /\ IsAck(toServer[1], p)
    BY <1>2, Zenon DEF IsAck
  <2>1. ASSUME NEW c \in Nat, Acked(p, s, toServer, c, file_size, DOMAIN mem)
        PROVE  s.blk = c /\ Acked(p, t, toServer', c, file_size, DOMAIN mem)
    <3>1. /\ s.blk = c
          /\ \A j \in 1..Len(toServer) : IsAck(toServer[j], p) => AckOf(toServer[j], c)
      <4>1. s.blk \in {c, c + 1} /\ AcksOK(toServer, p, c, s.blk) /\ AckOf(toServer[1], s.blk)
        BY <2>0, <2>1, Zenon DEF Acked
      <4> QED BY ONLY <2>0, <4>1, c \in Nat, AckMatches, Zenon
    <3>2. \A j \in 1..Len(toServer') : IsAck(toServer'[j], p) => AckOf(toServer'[j], c)
      BY <1>2, <3>1, Zenon DEF Thins
    <3> QED BY <1>8, <2>1, <3>1, <3>2, Zenon DEF Acked, AcksOK
  <2>2. ASSUME NEW q, NEW c, Acked(q, server[q], toServer, c, file_size, DOMAIN mem)
        PROVE  Acked(q, server[q], toServer', c, file_size, DOMAIN mem)
    <3>1. AcksOK(toServer', q, c, server[q].blk)
      BY <1>2, <2>2, ThinServer, Zenon DEF Acked
    <3> QED BY <2>2, <3>1, Zenon DEF Acked
  <2>3. ASSUME NEW q \in Sessions, Used(server'[q])
        PROVE  \E c \in Nat : Acked(q, server'[q], toServer', c, file_size, DOMAIN mem)
    <3>1. PICK c \in Nat : Acked(q, server[q], toServer, c, file_size, DOMAIN mem)
      BY <1>10, <2>3, <1>i6, Zenon DEF InOrder
    <3>2. CASE q = p
      BY <1>6, <2>1, <3>1, <3>2, Zenon
    <3>3. CASE q # p
      BY <1>6, <2>2, <3>1, <3>3, Zenon
    <3> QED BY <3>2, <3>3, Zenon
  <2>4. Stepping'
    <3> DEFINE r == tftp_remote_port
    <3>1. ClientLast' = ClientLast /\ ClientBlock' = ClientBlock /\ Joined' = Joined
          /\ ClientLast \in Nat
      BY <1>0, LastNat, <1>i1, Zenon DEF ClientLast, ClientBlock, Joined
    <3>2. SUFFICES ASSUME Joined, net_state = "CONTINUE"
                   PROVE  /\ Acked(r, server'[r], toServer', ClientLast, file_size, DOMAIN mem)
                          /\ DataOK(toClient', r, server'[r], ClientLast, file_size)
      BY <1>0, <3>1, <1>i6, Zenon DEF InOrder, Stepping
    <3>3. /\ Acked(r, server[r], toServer, ClientLast, file_size, DOMAIN mem)
          /\ DataOK(toClient, r, server[r], ClientLast, file_size)
      BY <3>2, <1>i6, Zenon DEF InOrder, Stepping
    <3>4. CASE r # p
      <4>1. server'[r] = server[r]
        BY <1>6, <1>11, <3>2, <3>4, Zenon
      <4>2. DataOK(toClient', r, server[r], ClientLast, file_size)
        BY <1>7, <1>8, <3>3, <3>4, MoreToClient, Zenon DEF FromPort
      <4> QED BY <2>2, <3>3, <4>1, <4>2, Zenon
    <3>5. CASE r = p
      <4> DEFINE c == ClientLast
      <4>1. s.blk = c /\ Acked(p, t, toServer', c, file_size, DOMAIN mem)
        BY <2>1, <3>1, <3>3, <3>5, Zenon
      <4>2. DataOK(toClient, p, t, c, file_size)
        <5>1. DataOK(toClient, p, s, c, file_size) /\ c \in Nat
          BY <3>1, <3>3, <3>5, Zenon
        <5> HIDE DEF c
        <5>2. \A n \in {c, c + 1} : n <= s.blk => n <= t.blk
          BY <1>3, <1>4, <5>1
        <5> QED BY <1>5, <5>1, <5>2, ZenonT(30) DEF DataOK
      <4>3. CASE toClient' = toClient
        BY <1>6, <3>5, <4>1, <4>2, <4>3, Zenon
      <4>4. CASE t.blk = s.blk + 1 /\ Grows(toClient', toClient, m)
        <5>1. c \in Nat /\ c + 1 = t.blk /\ m = Numbered(p, t, c + 1, file_size)
          BY <3>1, <4>1, <4>4, Zenon DEF m
        <5> HIDE DEF c
        <5>2. m # Numbered(p, t, c, file_size)
          BY <1>1, <1>3, <1>4, <5>1, NumberedApart, ZenonT(30)
        <5>3. \E n \in {c, c + 1} : n <= t.blk /\ m = Numbered(p, t, n, file_size)
          BY <1>4, <5>1, SMTT(30)
        <5>4. DataOK(toClient', p, t, c, file_size)
          BY <4>2, <4>4, <5>2, <5>3, MoreToClient
        <5> QED BY <1>6, <3>5, <4>1, <5>4, Zenon DEF c
      <4> QED BY <1>8, <4>3, <4>4, Zenon
    <3> QED BY <3>4, <3>5, Zenon
  <2> QED BY <2>3, <2>4, Zenon
<1>28. OutOfOrder'
  <2> SUFFICES ASSUME reorders
               PROVE  /\ \A q \in Sessions : Used(server'[q]) /\ server'[q].blk > 0 =>
                            Stored(server'[q].blk - 1, server'[q].blksize, file_size, DOMAIN mem)
                      /\ AcksStored(toServer', server', file_size, DOMAIN mem)
                      /\ Joined /\ net_state = "CONTINUE" =>
                          /\ Stored(tftp_cur_block, server'[tftp_remote_port].blksize, file_size, DOMAIN mem)
                          /\ tftp_state = "DATA" => tftp_block_wrap = 0
    BY <1>0, <1>i7, Zenon DEF OutOfOrder, Joined
  <2>1. s.blk < TFTP_SEQUENCE_SIZE
    <3>1. s.blk <= LastOf(file_size, s.blksize) /\ LastOf(file_size, s.blksize) < TFTP_SEQUENCE_SIZE
      BY <1>3, <1>i1, <1>i2, Zenon DEF SessionOK, Fits
    <3>2. s.blksize \in Nat \ {0}
      BY <1>3, Constants, Zenon
    <3>3. file_size \div s.blksize \in Nat
      BY ONLY <1>1, <3>2, DivMod, Zenon
    <3>4. LastOf(file_size, s.blksize) \in Nat
      BY ONLY <3>3 DEF LastOf
    <3> QED BY <1>3, <3>1, <3>4, Constants
  <2>2. toServer[i].blk = s.blk
    <3>1. s.blk \in Numbers
      BY <1>3, <2>1, Constants DEF Numbers
    <3> QED BY <3>1, Constants, Zenon DEF AckOf
  <2>3. Stored(s.blk, s.blksize, file_size, DOMAIN mem)
    BY <1>2, <2>2, <1>i7, Zenon DEF OutOfOrder, AcksStored
  <2>4. ASSUME NEW q \in Sessions, Used(server'[q]), server'[q].blk > 0
        PROVE  Stored(server'[q].blk - 1, server'[q].blksize, file_size, DOMAIN mem)
    <3>1. CASE q = p /\ t.blk = s.blk + 1
      <4>1. t.blk - 1 = s.blk
        BY <1>3, <3>1
      <4> QED BY <1>6, <2>3, <3>1, <4>1, Zenon
    <3>2. CASE q = p /\ t.blk = s.blk
      <4>1. Stored(s.blk - 1, s.blksize, file_size, DOMAIN mem)
        BY <1>3, <1>6, <2>4, <3>2, <1>i7, Zenon DEF OutOfOrder
      <4> QED BY <1>6, <3>2, <4>1, Zenon
    <3>3. CASE q # p
      BY <1>6, <2>4, <3>3, <1>i7, Zenon DEF OutOfOrder
    <3> QED BY <1>8, <3>1, <3>2, <3>3, Zenon
  <2>5. AcksStored(toServer, server', file_size, DOMAIN mem)
    <3> SUFFICES ASSUME NEW k \in 1..Len(toServer), toServer[k].op = "ACK"
                 PROVE  server'[toServer[k].port].blksize = server[toServer[k].port].blksize
      BY <1>i7, Zenon DEF AcksStored, OutOfOrder
    <3> QED BY <1>6, AckedSession, Zenon
  <2>6. AcksStored(toServer', server', file_size, DOMAIN mem)
    BY <1>2, <2>5, ThinServer, Zenon
  <2> QED BY <1>11, <2>4, <2>6, <1>i7, Zenon DEF OutOfOrder
<1>29. SuccessIsWhole'
  BY <1>0, <1>i8, Zenon DEF SuccessIsWhole
<1> QED BY <1>21, <1>22, <1>23, <1>24, <1>25, <1>26, <1>27, <1>28, <1>29, Zenon DEF IInv

\* The records a session is replaced by.
LEMMA SessionMoved ==
    ASSUME NEW s \in SessionType
    PROVE  /\ [s EXCEPT !.state = "closed"] \in SessionType
           /\ [s EXCEPT !.state = "closed"].blksize = s.blksize
           /\ [s EXCEPT !.state = "closed"].peer = s.peer
           /\ [s EXCEPT !.state = "closed"].state = "closed"
           /\ [s EXCEPT !.state = "closed"].blk = s.blk
           /\ [s EXCEPT !.state = "data", !.blk = @ + 1] \in SessionType
           /\ [s EXCEPT !.state = "data", !.blk = @ + 1].blksize = s.blksize
           /\ [s EXCEPT !.state = "data", !.blk = @ + 1].peer = s.peer
           /\ [s EXCEPT !.state = "data", !.blk = @ + 1].state = "data"
           /\ [s EXCEPT !.state = "data", !.blk = @ + 1].blk = s.blk + 1
<1>1. s.blk + 1 \in Nat
  BY DEF SessionType
<1> QED BY <1>1, Zenon DEF SessionType

\* An ACK arrives at the server: it matches and the session moves on, or it is
\* dropped.
LEMMA ServerAckKeeps ==
    ASSUME IInv, server_ack PROVE IInv'
<1>1. /\ toServer \in Seq(ToServer) /\ toClient \in Seq(ToClient) /\ file_size \in Nat
      /\ server \in [Sessions -> SessionType]
  BY Zenon DEF IInv, TypeOK
<1>2. PICK i \in Arriving(toServer) :
        LET m == toServer[i]
            p == m.port
            s == server[p]
            acked == \/ s.state = "oack" /\ m.blk = 0
                     \/ s.state = "data" /\ m.blk = s.blk % TFTP_SEQUENCE_SIZE
            next == [s EXCEPT !.state = "data", !.blk = @ + 1]
        IN  /\ m.op = "ACK"
            /\ toServer' = Without(toServer, i)
            /\ \/ ~acked /\ UNCHANGED <<server, toClient>>
               \/ /\ acked /\ s.state = "data" /\ s.blk = LastBlock(s)
                  /\ server' = [server EXCEPT ![p].state = "closed"]
                  /\ UNCHANGED toClient
               \/ /\ acked /\ ~(s.state = "data" /\ s.blk = LastBlock(s))
                  /\ server' = [server EXCEPT ![p] = next]
                  /\ toClient' = Sent(toClient, Reply(p, next))
            /\ UNCHANGED <<client, file>>
  BY Zenon DEF server_ack
<1> DEFINE m == toServer[i]
           p == m.port
           s == server[p]
           acked == \/ s.state = "oack" /\ m.blk = 0
                    \/ s.state = "data" /\ m.blk = s.blk % TFTP_SEQUENCE_SIZE
           next == [s EXCEPT !.state = "data", !.blk = @ + 1]
           closed == [s EXCEPT !.state = "closed"]
<1>3. /\ i \in 1..Len(toServer) /\ toServer' \in Seq(ToServer) /\ Thins(toServer', toServer)
      /\ m.op = "ACK" /\ UNCHANGED <<client, file>>
  BY <1>1, <1>2, Taken, Zenon
<1>4. /\ p \in Sessions /\ Used(s) /\ s \in SessionType /\ s.blksize \in BlockSizes
      /\ s.blk \in Nat /\ SessionOK(s, tftp_our_port, file_size)
  BY <1>3, AckedSession, Zenon
<1>5. acked => s.state \in {"oack", "data"} /\ AckOf(m, s.blk)
  BY <1>4, Constants, Zenon DEF AckOf, SessionOK, Used
<1>6. /\ next \in SessionType /\ next.blksize = s.blksize /\ next.peer = s.peer
      /\ next.state = "data" /\ next.blk = s.blk + 1
  BY ONLY <1>4, SessionMoved, Zenon
<1>7. /\ closed \in SessionType /\ closed.blksize = s.blksize /\ closed.peer = s.peer
      /\ closed.state = "closed" /\ closed.blk = s.blk
  BY ONLY <1>4, SessionMoved, Zenon
<1>8. CASE ~acked /\ UNCHANGED <<server, toClient>>
  <2>1. Thins(toClient', toClient)
    BY <1>8, ThinsItself, Zenon
  <2> QED BY <1>1, <1>3, <1>8, <2>1, QuietStep, Zenon DEF client
<1>9. CASE /\ acked /\ s.state = "data"
           /\ server' = [server EXCEPT ![p].state = "closed"] /\ UNCHANGED toClient
  <2>1. server' = [server EXCEPT ![p] = closed]
    BY <1>1, <1>4, <1>9, Zenon
  <2>2. toServer' = Without(toServer, i)
    BY <1>2, Zenon
  <2>3. i \in Arriving(toServer) /\ s.state = "data" /\ AckOf(m, s.blk) /\ toClient' = toClient
    BY <1>5, <1>9, Zenon
  <2> HIDE DEF closed, acked, next
  <2> QED BY ONLY IInv, <1>3, <1>7, <2>1, <2>2, <2>3, ServerMoves, Zenon
<1>10. CASE /\ acked /\ ~(s.state = "data" /\ s.blk = LastBlock(s))
            /\ server' = [server EXCEPT ![p] = next] /\ toClient' = Sent(toClient, Reply(p, next))
  <2>1. next.blk <= LastOf(file_size, next.blksize)
    <3>1. s.blksize \in Nat \ {0}
      BY <1>4, Constants, Zenon
    <3>2. file_size \div s.blksize \in Nat
      BY ONLY <1>1, <3>1, DivMod, Zenon
    <3>3. LastOf(file_size, s.blksize) \in Nat /\ LastOf(file_size, s.blksize) >= 1
          /\ LastBlock(s) = LastOf(file_size, s.blksize)
      BY ONLY <3>2 DEF LastOf, LastBlock
    <3>4. s.blk <= LastOf(file_size, s.blksize) /\ (s.state = "oack" <=> s.blk = 0)
      BY <1>4, Zenon DEF SessionOK
    <3> QED BY <1>4, <1>5, <1>6, <1>10, <3>3, <3>4
  <2>2. Reply(p, next) = Numbered(p, next, next.blk, file_size)
    <3>1. next.state = "oack" <=> next.blk = 0
      <4> HIDE DEF next
      <4> QED BY <1>4, <1>6
    <3> HIDE DEF next
    <3> QED BY <3>1, ReplyIs, Zenon
  <2>3. /\ toServer' = Without(toServer, i) /\ i \in Arriving(toServer)
        /\ s.state \in {"oack", "data"} /\ AckOf(m, s.blk)
        /\ server' = [server EXCEPT ![p] = next]
    BY <1>2, <1>5, <1>10, Zenon
  <2>4. toClient' = Sent(toClient, Numbered(p, next, next.blk, file_size))
    BY <1>10, <2>2, Zenon
  <2> HIDE DEF closed, acked, next
  <2> QED BY ONLY IInv, <1>3, <1>6, <2>1, <2>3, <2>4, ServerMoves, ZenonT(30)
<1> HIDE DEF next, closed
<1> QED BY <1>2, <1>8, <1>9, <1>10, Zenon DEF next

\* tftp_start takes a port no session knows, so that no session is Fresh.
LEMMA StartKeeps ==
    ASSUME IInv, tftp_start PROVE IInv'
<1> DEFINE m == [op |-> "RRQ", port |-> WELL_KNOWN_PORT, src |-> tftp_our_port + 1]
<1>0. /\ net_state' = "CONTINUE" /\ net_boot_file_size' = 0 /\ tftp_state' = "SEND_RRQ"
      /\ tftp_remote_port' = WELL_KNOWN_PORT /\ tftp_our_port' = tftp_our_port + 1
      /\ tftp_cur_block' = 0 /\ tftp_block_size' = TFTP_BLOCK_SIZE
      /\ toServer' = Sent(toServer, m)
      /\ UNCHANGED <<tftp_prev_block, tftp_block_wrap, mem, file_size, reorders, server, toClient>>
  BY Zenon DEF tftp_start, file
<1>1. toServer \in Seq(ToServer) /\ toClient \in Seq(ToClient) /\ tftp_our_port \in Nat
  BY Zenon DEF IInv, TypeOK
<1>2. m \in ToServer /\ m.op = "RRQ" /\ m.src = tftp_our_port + 1
  BY <1>1 DEF ToServer
<1> HIDE DEF m
<1>3. toServer' \in Seq(ToServer) /\ Grows(toServer', toServer, m)
  BY ONLY <1>0, <1>1, <1>2, Sending, Zenon
<1>4. ~Joined'
  BY <1>0, Zenon DEF Joined
<1>i1. TypeOK /\ Fits
  BY Zenon DEF IInv
<1>i2. \A q \in Sessions : SessionOK(server[q], tftp_our_port, file_size)
  BY Zenon DEF IInv
<1>i3. \A q \in Sessions : Fresh(q) => Untouched(q, server[q], toServer, toClient)
  BY Zenon DEF IInv
<1>i4. FromSessions(toClient, server, file_size) /\ Asked(toServer, server, tftp_our_port)
  BY Zenon DEF IInv
<1>i5. Holding /\ AtStart /\ MemOK
  BY Zenon DEF IInv
<1>i6. InOrder
  BY Zenon DEF IInv
<1>i7. OutOfOrder
  BY Zenon DEF IInv
<1>i8. SuccessIsWhole
  BY Zenon DEF IInv
<1>11. TypeOK' /\ Fits'
  BY <1>0, <1>1, <1>3, Constants, <1>i1 DEF TypeOK, Fits
<1>12. (\A p \in Sessions : SessionOK(server[p], tftp_our_port, file_size))'
  <2> SUFFICES ASSUME NEW p \in Sessions PROVE SessionOK(server[p], tftp_our_port + 1, file_size)
    BY <1>0, <1>i2, Zenon
  <2>1. SessionOK(server[p], tftp_our_port, file_size) /\ server[p].peer \in Nat
    BY <1>i1, <1>i2, Zenon DEF TypeOK, SessionType
  <2> QED BY <1>1, <2>1, <1>i2 DEF SessionOK
<1>13. (\A p \in Sessions : Fresh(p) => Untouched(p, server[p], toServer, toClient))'
  <2> SUFFICES ASSUME NEW p \in Sessions, Fresh(p)' PROVE FALSE
    BY <1>i3, Zenon
  <2>1. Used(server[p]) /\ server[p].peer = tftp_our_port + 1
    BY <1>0, <1>i3, Zenon DEF Fresh
  <2>2. server[p].peer <= tftp_our_port
    BY <2>1, <1>i2, Zenon DEF SessionOK
  <2> QED BY <1>1, <2>1, <2>2
<1>14. FromSessions(toClient, server, file_size)'
  BY <1>0, <1>i4, Zenon
<1>15. Asked(toServer, server, tftp_our_port)'
  <2>1. Asked(toServer, server, tftp_our_port + 1)
    <3> SUFFICES ASSUME NEW k \in 1..Len(toServer), toServer[k].op = "RRQ"
                 PROVE  toServer[k].src <= tftp_our_port + 1
      BY <1>i4, Zenon DEF Asked
    <3>1. toServer[k].src <= tftp_our_port
      BY <1>i4, Zenon DEF Asked
    <3>2. toServer[k].src \in Nat
      <4>1. toServer[k] \in ToServer
        BY <1>1
      <4> QED BY <4>1, Zenon DEF ToServer
    <3> QED BY <1>1, <3>1, <3>2
  <2>2. Asked(toServer', server, tftp_our_port + 1)
    <3>1. tftp_our_port + 1 <= tftp_our_port + 1
      BY <1>1
    <3> QED BY ONLY <1>2, <1>3, <2>1, <3>1, MoreToServer, Zenon
  <2> QED BY <1>0, <2>2, Zenon
<1>16. Holding' /\ AtStart' /\ MemOK'
  <2>1. file_size \in Nat
    BY <1>i1, Zenon DEF TypeOK
  <2> QED BY <1>0, <1>4, <2>1, <1>i5 DEF Holding, AtStart, MemOK
<1>17. InOrder'
  <2> SUFFICES ASSUME ~reorders, NEW p \in Sessions, Used(server[p])
               PROVE  \E c \in Nat : Acked(p, server[p], toServer', c, file_size, DOMAIN mem)
    BY <1>0, <1>4, <1>i6, Zenon DEF InOrder, Stepping
  <2>1. PICK c \in Nat : Acked(p, server[p], toServer, c, file_size, DOMAIN mem)
    BY <1>i6, Zenon DEF InOrder
  <2>2. AcksOK(toServer', p, c, server[p].blk)
    BY <1>2, <1>3, <2>1, MoreToServer, Zenon DEF Acked, IsAck
  <2> QED BY <2>1, <2>2, Zenon DEF Acked
<1>18. OutOfOrder'
  <2>1. AcksStored(toServer, server, file_size, DOMAIN mem) =>
           AcksStored(toServer', server, file_size, DOMAIN mem)
    BY ONLY <1>2, <1>3, MoreToServer, Zenon
  <2> QED BY <1>0, <1>4, <2>1, <1>i7, Zenon DEF OutOfOrder
<1>19. SuccessIsWhole'
  BY <1>0, <1>i8, Zenon DEF SuccessIsWhole
<1> QED BY <1>11, <1>12, <1>13, <1>14, <1>15, <1>16, <1>17, <1>18, <1>19, Zenon DEF IInv

\* tftp_send sends the request, or an ACK of what is in memory.
LEMMA SendKeeps ==
    ASSUME IInv, net_state = "CONTINUE",
           toServer' = tftp_send(tftp_state, tftp_remote_port, tftp_cur_block),
           UNCHANGED <<tftp_state, tftp_cur_block, tftp_prev_block, tftp_block_wrap,
                       tftp_block_size, tftp_remote_port, tftp_our_port, net_state,
                       net_boot_file_size, mem, file_size, reorders, server, toClient>>
    PROVE  IInv'
<1> DEFINE m == IF tftp_state = "SEND_RRQ"
                THEN [op |-> "RRQ", port |-> WELL_KNOWN_PORT, src |-> tftp_our_port]
                ELSE [op |-> "ACK", port |-> tftp_remote_port, blk |-> tftp_cur_block]
           r == tftp_remote_port
<1>1. /\ toServer \in Seq(ToServer) /\ toClient \in Seq(ToClient) /\ tftp_our_port \in Nat
      /\ tftp_cur_block \in Numbers
  BY Zenon DEF IInv, TypeOK
<1>3. /\ m \in ToServer
      /\ \/ m.op = "RRQ" /\ m.src = tftp_our_port /\ ~Joined
         \/ m.op = "ACK" /\ m.port = r /\ m.blk = tftp_cur_block /\ Joined
  <2>1. CASE ~Joined
    BY <1>1, <2>1, Zenon DEF ToServer, Joined
  <2>2. CASE Joined
    <3>1. tftp_remote_port \in Sessions
      BY <2>2, Zenon DEF IInv, Holding
    <3> QED BY <1>1, <2>2, <3>1, Zenon DEF ToServer, Joined
  <2> QED BY <2>1, <2>2, Zenon
<1>4. toServer' = Sent(toServer, m)
  BY Zenon DEF tftp_send
<1> HIDE DEF m
<1>5. toServer' \in Seq(ToServer) /\ Grows(toServer', toServer, m)
  BY ONLY <1>1, <1>3, <1>4, Sending, Zenon
<1>6. Joined => r \in Sessions /\ Used(server[r])
  BY Zenon DEF IInv, Holding
<1>i1. TypeOK /\ Fits
  BY Zenon DEF IInv
<1>i2. \A q \in Sessions : SessionOK(server[q], tftp_our_port, file_size)
  BY Zenon DEF IInv
<1>i3. \A q \in Sessions : Fresh(q) => Untouched(q, server[q], toServer, toClient)
  BY Zenon DEF IInv
<1>i4. FromSessions(toClient, server, file_size) /\ Asked(toServer, server, tftp_our_port)
  BY Zenon DEF IInv
<1>i5. Holding /\ AtStart /\ MemOK
  BY Zenon DEF IInv
<1>i6. InOrder
  BY Zenon DEF IInv
<1>i7. OutOfOrder
  BY Zenon DEF IInv
<1>i8. SuccessIsWhole
  BY Zenon DEF IInv
<1>11. TypeOK' /\ Fits'
  BY <1>5, <1>i1, Zenon DEF TypeOK, Fits
<1>12. (\A p \in Sessions : SessionOK(server[p], tftp_our_port, file_size))'
  BY <1>i2, Zenon
<1>13. (\A p \in Sessions : Fresh(p) => Untouched(p, server[p], toServer, toClient))'
  <2> SUFFICES ASSUME NEW p \in Sessions, Fresh(p)'
               PROVE  Untouched(p, server[p], toServer, toClient)'
    BY <1>i3, Zenon
  <2>1. Untouched(p, server[p], toServer, toClient) /\ ~IsAck(m, p)
    BY <1>3, <1>i3, Zenon DEF Fresh, Joined, IsAck
  <2>2. NoAck(toServer', p)
    BY <1>5, <2>1, MoreToServer, <1>i3, Zenon DEF Untouched
  <2> QED BY <2>1, <2>2, <1>i3, Zenon DEF Untouched
<1>14. FromSessions(toClient, server, file_size)'
  BY <1>i4, Zenon
<1>15. Asked(toServer, server, tftp_our_port)'
  <2>1. (m.op = "RRQ" => m.src <= tftp_our_port) /\ (m.op = "ACK" => Used(server[m.port]))
    BY <1>1, <1>3, <1>6
  <2>2. Asked(toServer', server, tftp_our_port)
    BY <1>5, <2>1, MoreToServer, <1>i4, Zenon
  <2> QED BY <2>2, Zenon
<1>16. Holding' /\ AtStart' /\ MemOK'
  BY <1>i5, Zenon DEF Holding, AtStart, MemOK, Joined
<1>17. InOrder'
  <2> SUFFICES ASSUME ~reorders
               PROVE  /\ \A p \in Sessions : Used(server[p]) =>
                           \E c \in Nat : Acked(p, server[p], toServer', c, file_size, DOMAIN mem)
                      /\ Stepping'
    BY <1>i6, Zenon DEF InOrder
  <2>1. ASSUME NEW p, NEW c, Acked(p, server[p], toServer, c, file_size, DOMAIN mem),
               IsAck(m, p) => AckOf(m, c)
        PROVE  Acked(p, server[p], toServer', c, file_size, DOMAIN mem)
    <3>1. AcksOK(toServer', p, c, server[p].blk)
      BY <1>5, <2>1, MoreToServer, Zenon DEF Acked
    <3> QED BY <2>1, <3>1, Zenon DEF Acked
  <2>2. Joined => Acked(r, server[r], toServer', ClientLast, file_size, DOMAIN mem)
    BY <1>3, <2>1, <1>i6, Zenon DEF InOrder, Stepping, AckOf
  <2>3. ClientLast' = ClientLast /\ ClientBlock' = ClientBlock /\ Joined' = Joined
        /\ ClientLast \in Nat
    BY LastNat, <1>i1, Zenon DEF ClientLast, ClientBlock, Joined
  <2>4. Stepping'
    BY <2>2, <2>3, <1>i6, Zenon DEF InOrder, Stepping
  <2>5. ASSUME NEW p \in Sessions, Used(server[p])
        PROVE  \E c \in Nat : Acked(p, server[p], toServer', c, file_size, DOMAIN mem)
    <3>1. CASE Joined /\ p = r
      BY <2>2, <2>3, <3>1, Zenon
    <3>2. CASE ~(Joined /\ p = r)
      BY <1>3, <2>1, <2>5, <3>2, <1>i6, Zenon DEF InOrder, IsAck
    <3> QED BY <3>1, <3>2, Zenon
  <2> QED BY <2>4, <2>5, Zenon
<1>18. OutOfOrder'
  <2>1. ASSUME reorders PROVE AcksStored(toServer', server, file_size, DOMAIN mem)
    <3>1. m.op = "ACK" => Stored(m.blk, server[m.port].blksize, file_size, DOMAIN mem)
      BY <1>3, <2>1, <1>i7, Zenon DEF OutOfOrder
    <3> QED BY <1>5, <2>1, <3>1, MoreToServer, <1>i7, Zenon DEF OutOfOrder
  <2> QED BY <2>1, <1>i7, Zenon DEF OutOfOrder, Joined
<1>19. SuccessIsWhole'
  BY <1>i8, Zenon DEF SuccessIsWhole
<1> QED BY <1>11, <1>12, <1>13, <1>14, <1>15, <1>16, <1>17, <1>18, <1>19, Zenon DEF IInv

\* tftp_timeout_handler: the client sends again, or starts again.
LEMMA TimeoutKeeps ==
    ASSUME IInv, tftp_timeout_handler PROVE IInv'
<1>1. toServer \in Seq(ToServer) /\ toClient \in Seq(ToClient)
  BY Zenon DEF IInv, TypeOK
<1>2. /\ Looping
      /\ UNCHANGED <<tftp_state, tftp_cur_block, tftp_prev_block, tftp_block_wrap,
                     tftp_block_size, tftp_remote_port, tftp_our_port,
                     net_boot_file_size, mem, file, server, toClient>>
      /\ \/ net_start_again /\ UNCHANGED toServer
         \/ /\ toServer' = tftp_send(tftp_state, tftp_remote_port, tftp_cur_block)
            /\ UNCHANGED <<net_state, net_try_count>>
  BY Zenon DEF tftp_timeout_handler
<1>3. CASE net_start_again /\ UNCHANGED toServer
  <2>1. net_state' \in {"RESTART", "FAIL"}
    BY <1>3, StartAgain, Zenon
  <2>2. Thins(toServer', toServer) /\ Thins(toClient', toClient)
    BY <1>2, <1>3, ThinsItself, Zenon
  <2> QED BY <1>1, <1>2, <1>3, <2>1, <2>2, QuietStep, Zenon
<1>4. CASE /\ toServer' = tftp_send(tftp_state, tftp_remote_port, tftp_cur_block)
           /\ UNCHANGED <<net_state, net_try_count>>
  BY <1>2, <1>4, SendKeeps, Zenon DEF Looping, file
<1> QED BY <1>2, <1>3, <1>4, Zenon

\* The session of a packet that tftp_handler accepts: the one the client has
\* taken up, or, before it has taken up one, one that is Untouched.
LEMMA AcceptedFrom ==
    ASSUME IInv, NEW i \in 1..Len(toClient), Accepted(toClient[i]),
           toClient[i].op # "ERROR", NEW p, p = toClient[i].src, net_state = "CONTINUE"
    PROVE  /\ p \in Sessions /\ Used(server[p]) /\ server[p] \in SessionType
           /\ server[p].blksize \in BlockSizes /\ server[p].blk \in Nat
           /\ SessionOK(server[p], tftp_our_port, file_size)
           /\ server[p].peer = tftp_our_port
           /\ \E n \in 0..server[p].blk :
                 /\ toClient[i] = Numbered(p, server[p], n, file_size)
                 /\ toClient[i].op = "OACK" <=> n = 0
           /\ \/ Joined /\ p = tftp_remote_port /\ server[p].blksize = tftp_block_size
              \/ /\ ~Joined /\ Fresh(p) /\ NoAck(toServer, p) /\ tftp_cur_block = 0
                 /\ \/ server[p].blk = 0
                    \/ /\ server[p].state = "data" /\ server[p].blk = 1
                       /\ server[p].blksize = tftp_block_size /\ NoOack(toClient, p)
<1>1. /\ p \in Sessions /\ Used(server[p]) /\ server[p] \in SessionType
      /\ server[p].blksize \in BlockSizes /\ server[p].blk \in Nat
      /\ SessionOK(server[p], tftp_our_port, file_size)
      /\ toClient[i].dest = server[p].peer
      /\ \E n \in 0..server[p].blk :
            /\ toClient[i] = Numbered(p, server[p], n, file_size)
            /\ toClient[i].op = "OACK" <=> n = 0
  BY Sender, Zenon
<1>2. server[p].peer = tftp_our_port
  BY <1>1, Zenon DEF Accepted
<1>3. CASE Joined
  <2>1. p = tftp_remote_port
    BY <1>3, Zenon DEF Accepted, Joined
  <2> QED BY <1>1, <1>2, <1>3, <2>1, Zenon DEF IInv, Holding
<1>4. CASE ~Joined
  <2>1. Fresh(p)
    BY <1>1, <1>2, <1>4, Zenon DEF Fresh
  <2>2. Untouched(p, server[p], toServer, toClient)
    BY <1>1, <2>1, Zenon DEF IInv
  <2>3. tftp_cur_block = 0 /\ tftp_block_size = TFTP_BLOCK_SIZE
    BY <1>4, Zenon DEF IInv, AtStart
  <2> QED BY <1>1, <1>2, <1>4, <2>1, <2>2, <2>3, Zenon DEF Untouched
<1> QED BY <1>3, <1>4, Zenon

\* "First block is not block 1": tftp_handler gives the transfer up.
LEMMA NotFirstKeeps ==
    ASSUME IInv, handler_data_not_first PROVE IInv'
<1>1. PICK i \in Arriving(toClient) :
        /\ Looping /\ toClient[i].op = "DATA" /\ Accepted(toClient[i])
        /\ toClient' = Without(toClient, i)
        /\ tftp_state' = "DATA" /\ tftp_cur_block' = toClient[i].blk
        /\ tftp_remote_port' = toClient[i].src
        /\ tftp_prev_block' = 0 /\ tftp_block_wrap' = 0
        /\ net_start_again
        /\ UNCHANGED <<tftp_block_size, tftp_our_port, net_boot_file_size, mem,
                       file, server, toServer>>
  BY Zenon DEF handler_data_not_first
<1> DEFINE p == toClient[i].src
<1>0. /\ UNCHANGED <<tftp_block_size, tftp_our_port, net_boot_file_size, mem,
                     file_size, reorders, server, toServer>>
      /\ net_state' \in {"RESTART", "FAIL"} /\ tftp_remote_port' = p
  BY <1>1, StartAgain, Zenon DEF file
<1>2. /\ toServer \in Seq(ToServer) /\ toClient \in Seq(ToClient)
      /\ i \in 1..Len(toClient) /\ toClient' \in Seq(ToClient) /\ Thins(toClient', toClient)
      /\ toClient[i].blk \in Numbers
  <2>1. toServer \in Seq(ToServer) /\ toClient \in Seq(ToClient)
    BY Zenon DEF IInv, TypeOK
  <2>2. /\ i \in 1..Len(toClient) /\ toClient' \in Seq(ToClient) /\ Thins(toClient', toClient)
        /\ toClient[i] \in ToClient
    BY <1>1, <2>1, Taken, ZenonT(30)
  <2> QED BY <1>1, <2>1, <2>2, Zenon DEF ToClient
<1>3. /\ p \in Sessions /\ Used(server[p]) /\ server[p].peer = tftp_our_port
      /\ server[p].blksize = tftp_block_size
      /\ (Joined => p = tftp_remote_port)
  BY <1>1, <1>2, AcceptedFrom DEF Looping
<1> HIDE DEF p
<1>i1. TypeOK /\ Fits
  BY Zenon DEF IInv
<1>i2. \A q \in Sessions : SessionOK(server[q], tftp_our_port, file_size)
  BY Zenon DEF IInv
<1>i3. \A q \in Sessions : Fresh(q) => Untouched(q, server[q], toServer, toClient)
  BY Zenon DEF IInv
<1>i4. FromSessions(toClient, server, file_size) /\ Asked(toServer, server, tftp_our_port)
  BY Zenon DEF IInv
<1>i5. Holding /\ AtStart /\ MemOK
  BY Zenon DEF IInv
<1>i6. InOrder
  BY Zenon DEF IInv
<1>i7. OutOfOrder
  BY Zenon DEF IInv
<1>i8. SuccessIsWhole
  BY Zenon DEF IInv
<1>11. TypeOK' /\ Fits'
  BY <1>0, <1>1, <1>2, <1>3, Constants, <1>i1, Zenon DEF TypeOK, Fits
<1>12. (\A q \in Sessions : SessionOK(server[q], tftp_our_port, file_size))'
  BY <1>0, <1>i2, Zenon
<1>13. (\A q \in Sessions : Fresh(q) => Untouched(q, server[q], toServer, toClient))'
  <2> SUFFICES ASSUME NEW q \in Sessions, Fresh(q)'
               PROVE  Untouched(q, server[q], toServer, toClient)'
    BY <1>i3, Zenon
  <2>1. Fresh(q)
    BY <1>0, <1>1, <1>3, <1>i3, Zenon DEF Fresh, Joined
  <2>2. Untouched(q, server[q], toServer, toClient)
    BY <2>1, <1>i3, Zenon
  <2>3. NoOack(toClient, q) => NoOack(toClient', q)
    BY <1>2, ThinClient, Zenon
  <2> QED BY <1>0, <2>2, <2>3, <1>i3, Zenon DEF Untouched
<1>14. FromSessions(toClient, server, file_size)' /\ Asked(toServer, server, tftp_our_port)'
  <2>1. FromSessions(toClient', server, file_size)
    BY <1>2, ThinClient, <1>i4, Zenon
  <2> QED BY <1>0, <1>1, <2>1, <1>i4, Zenon
<1>15. Holding' /\ AtStart' /\ MemOK'
  BY <1>0, <1>3, <1>i5, Zenon DEF Holding, AtStart, MemOK
<1>16. InOrder' /\ OutOfOrder' /\ SuccessIsWhole'
  BY <1>0, <1>i6, <1>i7, <1>i8, Zenon DEF InOrder, OutOfOrder, Stepping, SuccessIsWhole
<1> QED BY <1>11, <1>12, <1>13, <1>14, <1>15, <1>16, Zenon DEF IInv

\* In order, an OACK is the first packet of its session: nothing is stored yet.
LEMMA OackKeeps ==
    ASSUME IInv, handler_oack PROVE IInv'
<1>1. PICK i \in Arriving(toClient) :
        /\ Looping /\ toClient[i].op = "OACK" /\ Accepted(toClient[i])
        /\ toClient' = Without(toClient, i)
        /\ tftp_state' = "OACK" /\ tftp_remote_port' = toClient[i].src
        /\ tftp_block_size' = toClient[i].blksize
        /\ toServer' = tftp_send("OACK", toClient[i].src, tftp_cur_block)
        /\ UNCHANGED <<tftp_cur_block, tftp_prev_block, tftp_block_wrap,
                       tftp_our_port, timeout_count, net_state, net_try_count,
                       net_boot_file_size, mem, file, server>>
  BY Zenon DEF handler_oack
<1> DEFINE p == toClient[i].src  s == server[p]
           m == [op |-> "ACK", port |-> p, blk |-> tftp_cur_block]
<1>0. /\ UNCHANGED <<tftp_cur_block, tftp_prev_block, tftp_block_wrap, tftp_our_port, net_state,
                     net_boot_file_size, mem, file_size, reorders, server>>
      /\ tftp_remote_port' = p /\ tftp_state' = "OACK" /\ net_state = "CONTINUE"
      /\ toServer' = Sent(toServer, m)
  BY <1>1, Zenon DEF file, Looping, tftp_send
<1>2. /\ toServer \in Seq(ToServer) /\ toClient \in Seq(ToClient) /\ file_size \in Nat
      /\ i \in 1..Len(toClient) /\ toClient' \in Seq(ToClient) /\ Thins(toClient', toClient)
  <2>1. toServer \in Seq(ToServer) /\ toClient \in Seq(ToClient) /\ file_size \in Nat
    BY Zenon DEF IInv, TypeOK
  <2> QED BY <1>1, <2>1, Taken, Zenon
<1>3. /\ p \in Sessions /\ Used(s) /\ s \in SessionType /\ s.blksize \in BlockSizes /\ s.blk \in Nat
      /\ s.peer = tftp_our_port
      /\ toClient[i] = Numbered(p, s, 0, file_size)
      /\ \/ Joined /\ p = tftp_remote_port /\ s.blksize = tftp_block_size
         \/ ~Joined /\ Fresh(p) /\ NoAck(toServer, p) /\ tftp_cur_block = 0 /\ s.blk = 0
  <2>1. \/ Joined /\ p = tftp_remote_port /\ s.blksize = tftp_block_size
        \/ /\ ~Joined /\ Fresh(p) /\ NoAck(toServer, p) /\ tftp_cur_block = 0
           /\ s.blk = 0 \/ NoOack(toClient, p)
    BY <1>0, <1>1, <1>2, AcceptedFrom, Zenon
  <2>2. ~NoOack(toClient, p)
    BY <1>1, <1>2, Zenon DEF NoOack
  <2>3. /\ p \in Sessions /\ Used(s) /\ s \in SessionType /\ s.blksize \in BlockSizes /\ s.blk \in Nat
        /\ s.peer = tftp_our_port
        /\ \E n \in 0..s.blk : toClient[i] = Numbered(p, s, n, file_size) /\ n = 0
    BY <1>0, <1>1, <1>2, AcceptedFrom, ZenonT(30)
  <2> QED BY <2>1, <2>2, <2>3, Zenon
<1>4. tftp_block_size' = s.blksize
  <2>1. toClient[i].blksize = s.blksize
    BY <1>2, <1>3, NumberedIs, SMTT(30)
  <2> QED BY <1>1, <2>1, Zenon
<1>5. tftp_cur_block \in Numbers
  BY Zenon DEF IInv, TypeOK
<1>6. m \in ToServer /\ m.op = "ACK" /\ m.port = p /\ m.blk = tftp_cur_block
  BY <1>3, <1>5, Zenon DEF ToServer
<1> HIDE DEF m, p, s
<1>7. toServer' \in Seq(ToServer) /\ Grows(toServer', toServer, m)
  BY ONLY <1>0, <1>2, <1>6, Sending, Zenon
<1>s. s = server[p]
  BY Zenon DEF s
<1>i1. TypeOK /\ Fits
  BY Zenon DEF IInv
<1>i2. \A q \in Sessions : SessionOK(server[q], tftp_our_port, file_size)
  BY Zenon DEF IInv
<1>i3. \A q \in Sessions : Fresh(q) => Untouched(q, server[q], toServer, toClient)
  BY Zenon DEF IInv
<1>i4. FromSessions(toClient, server, file_size) /\ Asked(toServer, server, tftp_our_port)
  BY Zenon DEF IInv
<1>i5. Holding /\ AtStart /\ MemOK
  BY Zenon DEF IInv
<1>i6. InOrder
  BY Zenon DEF IInv
<1>i7. OutOfOrder
  BY Zenon DEF IInv
<1>i8. SuccessIsWhole
  BY Zenon DEF IInv
<1>11. TypeOK' /\ Fits'
  BY <1>0, <1>2, <1>3, <1>4, <1>7, <1>i1, Zenon DEF TypeOK, Fits
<1>12. (\A q \in Sessions : SessionOK(server[q], tftp_our_port, file_size))'
  BY <1>0, <1>i2, Zenon
<1>13. (\A q \in Sessions : Fresh(q) => Untouched(q, server[q], toServer, toClient))'
  <2> SUFFICES ASSUME NEW q \in Sessions, Fresh(q)'
               PROVE  Untouched(q, server[q], toServer, toClient)'
    BY <1>i3, Zenon
  <2>1. Fresh(q) /\ ~IsAck(m, q)
    BY <1>0, <1>3, <1>6, <1>i3, Zenon DEF Fresh, Joined, IsAck
  <2>2. Untouched(q, server[q], toServer, toClient)
    BY <2>1, <1>i3, Zenon
  <2>3. NoOack(toClient, q) => NoOack(toClient', q)
    BY <1>2, ThinClient, Zenon
  <2>4. NoAck(toServer', q)
    BY <1>7, <2>1, <2>2, MoreToServer, <1>i3, Zenon DEF Untouched
  <2> QED BY <1>0, <2>2, <2>3, <2>4, <1>i3, Zenon DEF Untouched
<1>14. FromSessions(toClient, server, file_size)'
  <2>1. FromSessions(toClient', server, file_size)
    BY <1>2, ThinClient, <1>i4, Zenon
  <2> QED BY <1>0, <2>1, Zenon
<1>15. Asked(toServer, server, tftp_our_port)'
  <2>1. Asked(toServer', server, tftp_our_port)
    BY <1>3, <1>6, <1>7, <1>s, MoreToServer, <1>i4, Zenon
  <2> QED BY <1>0, <2>1, Zenon
<1>16. Holding' /\ AtStart' /\ MemOK'
  BY <1>0, <1>3, <1>4, <1>s, <1>i5, Zenon DEF Holding, AtStart, MemOK, Joined
<1>17. InOrder'
  <2> SUFFICES ASSUME ~reorders
               PROVE  /\ \A q \in Sessions : Used(server[q]) =>
                           \E c \in Nat : Acked(q, server[q], toServer', c, file_size, DOMAIN mem)
                      /\ Stepping'
    BY <1>0, <1>i6, Zenon DEF InOrder
  <2>1. ASSUME NEW q, NEW c, Acked(q, server[q], toServer, c, file_size, DOMAIN mem),
               IsAck(m, q) => AckOf(m, c)
        PROVE  Acked(q, server[q], toServer', c, file_size, DOMAIN mem)
    <3>1. AcksOK(toServer', q, c, server[q].blk)
      BY <1>7, <2>1, MoreToServer, Zenon DEF Acked
    <3> QED BY <2>1, <3>1, Zenon DEF Acked
  <2>2. /\ tftp_cur_block = 0 /\ Acked(p, s, toServer, 0, file_size, DOMAIN mem)
        /\ DataOK(toClient, p, s, 0, file_size)
    <3>1. CASE ~Joined
      <4>1. NoAck(toServer, p) /\ tftp_cur_block = 0 /\ s.blk = 0
        BY <1>3, <3>1, Zenon
      <4>2. Stored(0, s.blksize, file_size, DOMAIN mem)
        BY <1>3, Constants, StoredNone, Zenon
      <4>3. Acked(p, s, toServer, 0, file_size, DOMAIN mem)
        BY <4>1, <4>2, Zenon DEF Acked, AcksOK, NoAck
      <4>4. \A k \in 1..Len(toClient) : FromPort(toClient[k], p) =>
              toClient[k] = Numbered(p, s, 0, file_size)
        BY <1>s, <4>1, <1>i4 DEF FromSessions, FromPort
      <4> QED BY <4>1, <4>3, <4>4 DEF DataOK
    <3>2. CASE Joined
      <4> DEFINE c == ClientLast
      <4>1. /\ tftp_state = "DATA" => ClientBlock > 0
            /\ tftp_cur_block = c % TFTP_SEQUENCE_SIZE
            /\ Acked(p, s, toServer, c, file_size, DOMAIN mem)
            /\ DataOK(toClient, p, s, c, file_size)
        BY <1>0, <1>3, <1>s, <3>2, <1>i6, Zenon DEF InOrder, Stepping
      <4>2. c \in Nat
        BY LastNat, <1>i1, Zenon
      <4>3. c = 0
        <5> HIDE DEF c
        <5>1. FromPort(toClient[i], p)
          BY <1>1, Zenon DEF FromPort, p
        <5>2. PICK n \in {c, c + 1} : toClient[i] = Numbered(p, s, n, file_size)
          BY <1>2, <4>1, <5>1, Zenon DEF DataOK
        <5>3. toClient[i].op = IF n = 0 THEN "OACK" ELSE "DATA"
          <6>1. n \in Nat
            BY ONLY <4>2, n \in {c, c + 1}
          <6>2. p \in Sessions /\ s \in SessionType /\ s.blksize \in BlockSizes /\ file_size \in Nat
            BY <1>2, <1>3, Zenon
          <6>3. Numbered(p, s, n, file_size).op = IF n = 0 THEN "OACK" ELSE "DATA"
            BY ONLY <6>1, <6>2, NumberedHead
          <6> QED BY ONLY <5>2, <6>3, Zenon
        <5>4. n = 0
          BY <1>1, <5>3, Zenon
        <5> QED BY ONLY <4>2, <5>4, n \in {c, c + 1}
      <4> QED BY <4>1, <4>3, Constants, Zenon
    <3> QED BY <3>1, <3>2, Zenon
  <2>3. Acked(p, s, toServer', 0, file_size, DOMAIN mem)
    BY <1>6, <1>s, <2>1, <2>2, Constants, Zenon DEF AckOf
  <2>4. DataOK(toClient', p, s, 0, file_size)
    BY <1>2, <2>2, ThinClient, Zenon
  <2>5. Stepping'
    <3>1. ClientLast' = 0
      BY <1>0, Zenon DEF ClientLast
    <3> QED BY <1>0, <1>s, <2>2, <2>3, <2>4, <3>1, Constants, Zenon DEF Stepping
  <2>6. ASSUME NEW q \in Sessions, Used(server[q])
        PROVE  \E c \in Nat : Acked(q, server[q], toServer', c, file_size, DOMAIN mem)
    <3>1. CASE q = p
      BY <1>s, <2>3, <3>1, Zenon
    <3>2. CASE q # p
      BY <1>6, <2>1, <2>6, <3>2, <1>i6, Zenon DEF InOrder, IsAck
    <3> QED BY <3>1, <3>2, Zenon
  <2> QED BY <2>5, <2>6, Zenon
<1>18. OutOfOrder'
  <2>1. SUFFICES ASSUME reorders
                 PROVE  /\ AcksStored(toServer', server, file_size, DOMAIN mem)
                        /\ Stored(tftp_cur_block, s.blksize, file_size, DOMAIN mem)
    BY <1>0, <1>s, <1>i7, Zenon DEF OutOfOrder, Joined
  <2>2. Stored(tftp_cur_block, s.blksize, file_size, DOMAIN mem)
    <3>1. CASE Joined
      BY <1>0, <1>3, <1>s, <2>1, <3>1, <1>i7, Zenon DEF OutOfOrder
    <3>2. CASE ~Joined
      <4>1. tftp_cur_block = 0 /\ s.blksize \in Nat
        BY <1>3, <3>2, Constants, Zenon
      <4> QED BY ONLY <4>1, StoredNone, Zenon
    <3> QED BY <3>1, <3>2, Zenon
  <2>3. AcksStored(toServer', server, file_size, DOMAIN mem)
    BY <1>6, <1>7, <1>s, <2>1, <2>2, MoreToServer, <1>i7, Zenon DEF OutOfOrder
  <2> QED BY <2>2, <2>3, Zenon
<1>19. SuccessIsWhole'
  BY <1>0, <1>i8, Zenon DEF SuccessIsWhole
<1> QED BY <1>11, <1>12, <1>13, <1>14, <1>15, <1>16, <1>17, <1>18, <1>19, Zenon DEF IInv

\* handler_data is to store packet i of the channel, block number blk of session
\* s on port p, with wrap wraps.
Storing(i, p, s, blk, wrap) ==
    /\ net_state = "CONTINUE"
    /\ i \in 1..Len(toClient) /\ (~reorders => i = 1)
    /\ toClient[i].op = "DATA" /\ Accepted(toClient[i])
    /\ p = toClient[i].src /\ s = server[p] /\ blk = toClient[i].blk
    /\ IF tftp_state \in {"SEND_RRQ", "OACK"} THEN blk = 1 ELSE blk # tftp_prev_block
    /\ wrap = IF tftp_state \in {"SEND_RRQ", "OACK"} THEN 0
              ELSE IF Wrapped(blk) THEN tftp_block_wrap + 1
              ELSE tftp_block_wrap

\* The number of that block, with the wraps counted, is n, and n is the next one.
NextIs(i, p, s, blk, wrap, n) ==
    /\ n <= s.blk
    /\ toClient[i] = Numbered(p, s, n, file_size)
    /\ blk = n % TFTP_SEQUENCE_SIZE
    /\ n = wrap * TFTP_SEQUENCE_SIZE + blk
    /\ Stored(n - 1, s.blksize, file_size, DOMAIN mem)
    /\ ~reorders => /\ s.blk = n /\ AcksOK(toServer, p, n - 1, n)
                    /\ \A k \in 1..Len(toClient) : FromPort(toClient[k], p) =>
                          toClient[k] = Numbered(p, s, n, file_size)
    /\ reorders => wrap = 0 /\ n = blk

\* The block that handler_data stores is the next one of its session.
LEMMA NextBlock ==
    ASSUME IInv, NEW i, NEW p, NEW s, NEW blk, NEW wrap, Storing(i, p, s, blk, wrap)
    PROVE  /\ p \in Sessions /\ Used(s) /\ s \in SessionType
           /\ s.blksize \in BlockSizes /\ s.blk \in Nat /\ s.blksize = tftp_block_size
           /\ SessionOK(s, tftp_our_port, file_size) /\ s.peer = tftp_our_port
           /\ Joined => p = tftp_remote_port
           /\ blk \in Numbers /\ wrap \in Nat
           /\ \E n \in Nat \ {0} : NextIs(i, p, s, blk, wrap, n)
<1>0. /\ net_state = "CONTINUE"
      /\ i \in 1..Len(toClient) /\ (~reorders => i = 1)
      /\ toClient[i].op = "DATA" /\ Accepted(toClient[i])
      /\ p = toClient[i].src /\ s = server[p] /\ blk = toClient[i].blk
      /\ IF tftp_state \in {"SEND_RRQ", "OACK"} THEN blk = 1 ELSE blk # tftp_prev_block
      /\ wrap = IF tftp_state \in {"SEND_RRQ", "OACK"} THEN 0
                ELSE IF Wrapped(blk) THEN tftp_block_wrap + 1
                ELSE tftp_block_wrap
  BY Zenon DEF Storing
<1>1. /\ toClient[i] \in ToClient /\ file_size \in Nat /\ tftp_block_wrap \in Nat
      /\ tftp_prev_block \in Numbers
  BY <1>0 DEF IInv, TypeOK
<1>2. blk \in Numbers /\ wrap \in Nat
  BY <1>0, <1>1 DEF ToClient
<1>3. /\ p \in Sessions /\ Used(s) /\ s \in SessionType
      /\ s.blksize \in BlockSizes /\ s.blk \in Nat
      /\ SessionOK(s, tftp_our_port, file_size) /\ s.peer = tftp_our_port
      /\ \E n \in 0..s.blk : toClient[i] = Numbered(p, s, n, file_size) /\ n # 0
      /\ \/ Joined /\ p = tftp_remote_port /\ s.blksize = tftp_block_size
         \/ /\ ~Joined /\ Fresh(p) /\ NoAck(toServer, p) /\ tftp_cur_block = 0
            /\ \/ s.blk = 0
               \/ s.state = "data" /\ s.blk = 1 /\ s.blksize = tftp_block_size /\ NoOack(toClient, p)
  BY <1>0, AcceptedFrom, Zenon
<1>4. PICK n \in 0..s.blk : toClient[i] = Numbered(p, s, n, file_size) /\ n # 0
  BY <1>0, <1>3, Zenon
<1>b. s.blk \in Nat /\ n # 0
  BY <1>0, <1>3, <1>4, Zenon
<1>5. n \in Nat \ {0} /\ n <= s.blk /\ n - 1 \in Nat
  BY ONLY <1>b, n \in 0..s.blk
<1>6. /\ s.blksize = tftp_block_size /\ (Joined => p = tftp_remote_port)
      /\ ~Joined => NoAck(toServer, p) /\ s.blk = 1 /\ n = 1 /\ NoOack(toClient, p)
  BY ONLY <1>3, <1>5
<1>7. blk = n % TFTP_SEQUENCE_SIZE
  <2>1. toClient[i].blk = n % TFTP_SEQUENCE_SIZE
    BY ONLY <1>1, <1>3, <1>4, <1>5, NumberedIs
  <2> QED BY <1>0, <2>1, ZenonT(30)
<1>8. s.blksize \in Nat \ {0}
  BY <1>0, <1>3, Constants, Zenon
<1>9. Stored(0, s.blksize, file_size, DOMAIN mem)
  BY ONLY <1>8, StoredNone, Zenon
<1>10. CASE reorders
  <2>1. n < TFTP_SEQUENCE_SIZE
    <3>1. s.blk <= LastOf(file_size, s.blksize) /\ LastOf(file_size, s.blksize) < TFTP_SEQUENCE_SIZE
      BY <1>0, <1>3, <1>10, Zenon DEF IInv, SessionOK, Fits
    <3>2. file_size \div s.blksize \in Nat
      BY ONLY <1>1, <1>8, DivMod, Zenon
    <3>3. LastOf(file_size, s.blksize) \in Nat
      BY ONLY <3>2 DEF LastOf
    <3>4. TFTP_SEQUENCE_SIZE \in Nat
      BY <1>0, Constants, Zenon
    <3> QED BY ONLY <1>b, <1>5, <3>1, <3>3, <3>4
  <2>2. n = blk
    <3>1. n \in Numbers
      BY ONLY <1>5, <2>1, Constants DEF Numbers
    <3> QED BY <1>0, <1>7, <3>1, Constants, Zenon
  <2>3. wrap = 0
    <3>1. tftp_state = "DATA" => tftp_block_wrap = 0
      BY <1>0, <1>10, Zenon DEF IInv, OutOfOrder, Joined
    <3>2. ~Wrapped(blk) /\ tftp_state \in {"SEND_RRQ", "OACK", "DATA"}
      BY <1>0, <1>5, <2>2, Zenon DEF Wrapped, IInv, TypeOK
    <3> QED BY <1>0, <3>1, <3>2, Zenon
  <2>4. Stored(n - 1, s.blksize, file_size, DOMAIN mem)
    <3>1. s.blk - 1 \in Nat /\ n - 1 <= s.blk - 1 /\ s.blk > 0
      BY ONLY <1>b, <1>5
    <3>2. Stored(s.blk - 1, s.blksize, file_size, DOMAIN mem)
      BY <1>0, <1>3, <1>10, <3>1, Zenon DEF IInv, OutOfOrder
    <3> QED BY ONLY <1>1, <1>5, <1>8, <3>1, <3>2, StoredFewer, Zenon
  <2>5. n = wrap * TFTP_SEQUENCE_SIZE + blk
    <3>1. 0 * TFTP_SEQUENCE_SIZE = 0
      BY <1>0, Constants
    <3> QED BY <1>0, <1>5, <2>2, <2>3, <3>1
  <2> QED BY <1>2, <1>3, <1>4, <1>5, <1>6, <1>7, <1>10, <2>2, <2>3, <2>4, <2>5, Zenon DEF NextIs
<1>11. CASE ~reorders
  <2> DEFINE c == n - 1
  <2>1. i = 1 /\ FromPort(toClient[i], p)
    BY <1>0, <1>11, Zenon DEF FromPort
  <2>2. CASE ~Joined
    <3>1. n = 1 /\ s.blk = 1 /\ wrap = 0 /\ blk = 1
      BY <1>0, <1>6, <2>2, Zenon DEF Joined
    <3>2. AcksOK(toServer, p, 0, 1)
      BY <1>0, <1>6, <2>2, Zenon DEF AcksOK, NoAck
    <3>3. ASSUME NEW k \in 1..Len(toClient), FromPort(toClient[k], p)
          PROVE  toClient[k] = Numbered(p, s, 1, file_size)
      <4>1. /\ toClient[k].op # "ERROR" /\ toClient[k].src = p /\ toClient[k].op # "OACK"
        BY <1>0, <1>6, <2>2, <3>3, Zenon DEF FromPort, NoOack
      <4>2. \E l \in 0..s.blk : toClient[k] = Numbered(p, s, l, file_size) /\ l # 0
        BY <1>0, <3>3, <4>1, Sender, Zenon
      <4> QED BY <1>0, <3>1, <4>2
    <3>4. 1 - 1 = 0 /\ 0 * TFTP_SEQUENCE_SIZE + 1 = 1
      BY <1>0, Constants
    <3> HIDE DEF c
    <3> QED BY <1>2, <1>3, <1>4, <1>5, <1>6, <1>7, <1>9, <1>11, <3>1, <3>2, <3>3, <3>4, Zenon DEF NextIs
  <2>3. CASE Joined
    <3> DEFINE d == ClientLast
    <3>1. /\ tftp_state = "DATA" => ClientBlock > 0
          /\ tftp_cur_block = d % TFTP_SEQUENCE_SIZE
          /\ Acked(p, s, toServer, d, file_size, DOMAIN mem)
          /\ DataOK(toClient, p, s, d, file_size)
      BY <1>0, <1>6, <1>11, <2>3, Zenon DEF IInv, InOrder, Stepping
    <3>2. d \in Nat
      BY <1>0, LastNat, Zenon DEF IInv
    <3>3. tftp_state = "DATA" => /\ tftp_prev_block = d % TFTP_SEQUENCE_SIZE
                                 /\ d = tftp_block_wrap * TFTP_SEQUENCE_SIZE + tftp_prev_block
      BY <1>0, <3>1, Zenon DEF IInv, AtStart, ClientLast, ClientBlock
    <3>4. tftp_state \in {"OACK", "DATA"} /\ (tftp_state = "OACK" => d = 0)
      BY <1>0, <2>3, Zenon DEF IInv, TypeOK, Joined, ClientLast
    <3> HIDE DEF d, c
    <3>5. PICK e \in {d, d + 1} : e <= s.blk /\ toClient[i] = Numbered(p, s, e, file_size)
      BY <1>0, <2>1, <3>1, Zenon DEF DataOK
    <3>6. e \in Nat /\ e # 0 /\ blk = e % TFTP_SEQUENCE_SIZE
      <4>1. e \in Nat
        BY ONLY <3>2, e \in {d, d + 1}
      <4>2. e # 0
        <5>1. toClient[i].op = IF e = 0 THEN "OACK" ELSE "DATA"
          <6>1. p \in Sessions /\ s \in SessionType /\ s.blksize \in BlockSizes /\ file_size \in Nat
            BY <1>1, <1>3, Zenon
          <6>2. Numbered(p, s, e, file_size).op = IF e = 0 THEN "OACK" ELSE "DATA"
            BY ONLY <4>1, <6>1, NumberedHead, SMTT(30)
          <6> QED BY ONLY <3>5, <6>2, Zenon
        <5> QED BY <1>0, <5>1, Zenon
      <4>3. toClient[i].blk = e % TFTP_SEQUENCE_SIZE
        BY ONLY <1>1, <1>3, <3>5, <4>1, <4>2, NumberedIs
      <4> QED BY <1>0, <4>1, <4>2, <4>3, Zenon
    <3>7. e = d + 1
      BY <1>0, <3>2, <3>3, <3>4, <3>5, <3>6, Zenon
    <3>8. s.blk = e /\ AcksOK(toServer, p, e - 1, e) /\ Stored(e - 1, s.blksize, file_size, DOMAIN mem)
      <4>1. s.blk \in {d, d + 1} /\ AcksOK(toServer, p, d, s.blk)
            /\ Stored(d, s.blksize, file_size, DOMAIN mem)
        BY <1>0, <3>1, Zenon DEF Acked
      <4>2. e - 1 = d /\ s.blk = e
        BY ONLY <1>b, <3>2, <3>5, <3>7, <4>1, SMTT(30)
      <4> QED BY <1>0, <4>1, <4>2, Zenon
    <3>9. ASSUME NEW k \in 1..Len(toClient), FromPort(toClient[k], p)
          PROVE  toClient[k] = Numbered(p, s, e, file_size)
      <4>1. \E l \in {d, d + 1} : toClient[k] = Numbered(p, s, l, file_size)
        BY <1>0, <3>1, <3>9, Zenon DEF DataOK
      <4>2. Numbered(p, s, d, file_size) # Numbered(p, s, d + 1, file_size)
        BY ONLY <1>1, <1>3, <3>2, NumberedApart, Zenon
      <4>3. CASE k = 1
        BY <1>0, <2>1, <3>5, <4>3, Zenon
      <4>4. CASE 1 < k
        <5>1. toClient[k] # Numbered(p, s, d, file_size)
          BY <1>0, <2>1, <3>1, <3>5, <3>7, <3>9, <4>2, <4>4, Zenon DEF DataOK
        <5> QED BY <1>0, <3>7, <4>1, <5>1, Zenon
      <4> QED BY <1>0, <4>3, <4>4
    <3>10. e = wrap * TFTP_SEQUENCE_SIZE + blk
      <4>1. CASE tftp_state = "OACK"
        <5>1. d = 0 /\ wrap = 0 /\ blk = 1
          BY <1>0, <3>4, <4>1, Zenon
        <5>2. 0 * TFTP_SEQUENCE_SIZE = 0
          BY <1>0, Constants
        <5> QED BY <1>0, <3>7, <5>1, <5>2, Zenon
      <4>2. CASE tftp_state = "DATA"
        <5>1. (d + 1) % TFTP_SEQUENCE_SIZE =
                 IF d % TFTP_SEQUENCE_SIZE = TFTP_SEQUENCE_SIZE - 1 THEN 0
                 ELSE (d % TFTP_SEQUENCE_SIZE) + 1
          BY ONLY <3>2, Constants, ModNext, Zenon
        <5>2. blk = IF tftp_prev_block = TFTP_SEQUENCE_SIZE - 1 THEN 0 ELSE tftp_prev_block + 1
          BY <1>0, <3>3, <3>6, <3>7, <4>2, <5>1, Zenon
        <5>3. wrap = IF blk = 0 /\ tftp_prev_block # 0 THEN tftp_block_wrap + 1 ELSE tftp_block_wrap
          BY <1>0, <4>2, Zenon DEF Wrapped
        <5>4. /\ TFTP_SEQUENCE_SIZE \in Nat \ {0, 1} /\ tftp_block_wrap \in Nat
              /\ tftp_prev_block \in 0..(TFTP_SEQUENCE_SIZE - 1)
              /\ d = tftp_block_wrap * TFTP_SEQUENCE_SIZE + tftp_prev_block
          BY <1>0, <1>1, <3>3, <4>2, Constants, Zenon DEF Numbers
        <5>5. tftp_block_wrap * TFTP_SEQUENCE_SIZE \in Nat
              /\ (tftp_block_wrap + 1) * TFTP_SEQUENCE_SIZE
                    = tftp_block_wrap * TFTP_SEQUENCE_SIZE + TFTP_SEQUENCE_SIZE
          BY ONLY <5>4, Products
        <5> QED BY ONLY <3>7, <5>2, <5>3, <5>4, <5>5
      <4> QED BY <1>0, <3>4, <4>1, <4>2, Zenon
    <3> QED BY <1>2, <1>3, <1>6, <1>11, <3>5, <3>6, <3>8, <3>9, <3>10, Zenon DEF NextIs
  <2> QED BY <1>0, <2>2, <2>3, Zenon
<1> QED BY <1>0, <1>10, <1>11, Zenon

\* Block number n of a file, and its length.
BlockOf(n, bs, size, pos, len) ==
    /\ n <= LastOf(size, bs) /\ pos = (n - 1) * bs
    /\ len = IF n < LastOf(size, bs) THEN bs ELSE size % bs

\* A block a session has sent.
LEMMA BlockSent ==
    ASSUME NEW p \in Sessions, NEW s \in SessionType, s.blksize \in BlockSizes,
           NEW n \in Nat \ {0}, NEW size \in Nat, n <= s.blk, s.blk <= LastOf(size, s.blksize),
           NEW m, m = Numbered(p, s, n, size)
    PROVE  BlockOf(n, s.blksize, size, m.pos, m.len)
<1>1. /\ m.pos = (n - 1) * s.blksize
      /\ m.len = IF n < LastOf(size, s.blksize) THEN s.blksize ELSE size % s.blksize
  BY NumberedIs
<1>2. s.blk \in Nat /\ s.blksize \in Nat \ {0}
  BY Constants, Zenon DEF SessionType
<1>3. size \div s.blksize \in Nat
  BY ONLY <1>2, size \in Nat, DivMod, Zenon
<1>4. LastOf(size, s.blksize) \in Nat
  BY ONLY <1>3 DEF LastOf
<1>5. n <= LastOf(size, s.blksize)
  BY ONLY <1>2, <1>4, n \in Nat \ {0}, n <= s.blk, s.blk <= LastOf(size, s.blksize)
<1> QED BY <1>1, <1>5, Zenon DEF BlockOf

\* Block number n is the next one to store where st is what is stored; it makes
\* that new.
NextOf(n, bs, size, pos, len, st, new) ==
    /\ new = st \cup (pos .. pos + len - 1)
    /\ size \in Nat /\ bs \in Nat \ {0} /\ n \in Nat \ {0}
    /\ BlockOf(n, bs, size, pos, len)
    /\ st \subseteq 0..(size - 1) /\ Stored(n - 1, bs, size, st)

\* Storing block number n of a file whose earlier blocks are stored.
LEMMA StoreBlock ==
    ASSUME NEW size, NEW bs, NEW n, NEW pos, NEW len, NEW st, NEW new,
           NextOf(n, bs, size, pos, len, st, new)
    PROVE  /\ pos \in Nat /\ len \in Nat /\ pos + len <= size
           /\ new \subseteq 0..(size - 1) /\ Stored(n, bs, size, new)
           /\ len < bs => pos + len = size /\ new = 0..(size - 1)
<1>0. /\ n <= LastOf(size, bs) /\ pos = (n - 1) * bs
      /\ len = IF n < LastOf(size, bs) THEN bs ELSE size % bs
      /\ size \in Nat /\ bs \in Nat \ {0} /\ n \in Nat \ {0}
      /\ st \subseteq 0..(size - 1) /\ Stored(n - 1, bs, size, st)
      /\ new = st \cup (pos .. pos + len - 1)
  BY Zenon DEF BlockOf, NextOf
<1>1. /\ pos \in Nat /\ len \in Nat /\ pos + len <= size
      /\ len < bs => pos + len = size
      /\ len >= bs => pos + len = n * bs
  BY ONLY <1>0, BlockIs
<1>2. new \subseteq 0..(size - 1)
  <2>1. (pos .. pos + len - 1) \subseteq 0..(size - 1)
    BY ONLY <1>0, <1>1
  <2> QED BY <1>0, <2>1, Zenon
<1>3. \A a \in 0..(size - 1) : a < pos => a \in st
  BY <1>0, Zenon DEF Stored
<1>4. \A a \in 0..(size - 1) : a < pos + len => a \in new
  BY <1>0, <1>1, <1>3
<1>5. CASE len < bs
  <2>1. \A a \in 0..(size - 1) : a \in new
    BY <1>0, <1>1, <1>4, <1>5
  <2> QED BY <1>0, <1>1, <1>2, <1>5, <2>1, Zenon DEF Stored
<1>6. CASE ~(len < bs)
  <2>1. pos + len = n * bs
    BY <1>0, <1>1, <1>6
  <2>2. Stored(n, bs, size, new)
    BY <1>0, <1>4, <2>1, Zenon DEF Stored
  <2> QED BY <1>0, <1>1, <1>2, <1>6, <2>2, Zenon
<1> QED BY <1>5, <1>6, Zenon

\* The ACKs when the next block is stored and acknowledged.
LEMMA AcksOfNext ==
    ASSUME NEW new, NEW old, NEW m, Grows(new, old, m), NEW p, NEW n \in Nat \ {0},
           AcksOK(old, p, n - 1, n), AckOf(m, n)
    PROVE  AcksOK(new, p, n, n)
<1>1. /\ \A i \in 1..Len(new) : \/ i \in 1..Len(old) /\ new[i] = old[i]
                                \/ i = Len(old) + 1 /\ new[i] = m
      /\ Len(old) \in Nat /\ Len(new) \in Nat
  BY ONLY Grown, Grows(new, old, m), Zenon
<1>2. n - 1 \in Nat /\ n = (n - 1) + 1 /\ n > 0 /\ n # n - 1
  OBVIOUS
<1>3. n % TFTP_SEQUENCE_SIZE # (n - 1) % TFTP_SEQUENCE_SIZE
  <2>1. ((n - 1) + 1) % TFTP_SEQUENCE_SIZE # (n - 1) % TFTP_SEQUENCE_SIZE
    BY ONLY <1>2, Constants, ModNext, Zenon
  <2> QED BY <1>2, <2>1, Zenon
<1>4. \A i \in 1..Len(old) : IsAck(old[i], p) => AckOf(old[i], n - 1)
  BY <1>2, Zenon DEF AcksOK
<1>5. ASSUME NEW i \in 1..Len(new), IsAck(new[i], p)
      PROVE  AckOf(new[i], n) \/ (n = n /\ n > 0 /\ AckOf(new[i], n - 1))
  BY <1>1, <1>2, <1>4, <1>5, Zenon
<1>6. ASSUME NEW i \in 1..Len(new), NEW j \in 1..Len(new), i < j,
             IsAck(new[i], p), IsAck(new[j], p), AckOf(new[i], n)
      PROVE  AckOf(new[j], n)
  <2>1. ~AckOf(new[i], n - 1)
    BY <1>3, <1>6, Zenon DEF AckOf
  <2>2. i = Len(old) + 1
    BY <1>1, <1>4, <1>6, <2>1, Zenon
  <2> QED BY <1>1, <1>6, <2>2
<1> QED BY <1>5, <1>6, Zenon DEF AcksOK

\* A new block: tftp_handler counts it, stores it where it belongs and sends the
\* ACK.  That the block is the next one (NextBlock) needs the order of packets
\* or, without it, Unambiguous; the rest follows from StoreBlock.
LEMMA DataKeeps ==
    ASSUME IInv, handler_data PROVE IInv'
<1>a. PICK i \in Arriving(toClient) :
        \E w :
        /\ w = IF tftp_state \in {"SEND_RRQ", "OACK"} THEN 0
               ELSE IF Wrapped(toClient[i].blk) THEN tftp_block_wrap + 1
               ELSE tftp_block_wrap
        /\ Looping /\ toClient[i].op = "DATA" /\ Accepted(toClient[i])
        /\ IF tftp_state \in {"SEND_RRQ", "OACK"} THEN toClient[i].blk = 1
           ELSE toClient[i].blk # tftp_prev_block
        /\ toClient' = Without(toClient, i)
        /\ tftp_state' = "DATA" /\ tftp_cur_block' = toClient[i].blk
        /\ tftp_prev_block' = toClient[i].blk /\ tftp_block_wrap' = w
        /\ tftp_remote_port' = toClient[i].src
        /\ store_block(Offset(toClient[i].blk, w), toClient[i])
        /\ toServer' = tftp_send("DATA", toClient[i].src, toClient[i].blk)
        /\ net_state' = IF LastReceived(toClient[i]) THEN "SUCCESS" ELSE net_state
        /\ UNCHANGED <<tftp_block_size, tftp_our_port, net_try_count, file, server>>
  BY Zenon DEF handler_data
<1>1. PICK wrap :
        /\ wrap = IF tftp_state \in {"SEND_RRQ", "OACK"} THEN 0
                  ELSE IF Wrapped(toClient[i].blk) THEN tftp_block_wrap + 1
                  ELSE tftp_block_wrap
        /\ Looping /\ toClient[i].op = "DATA" /\ Accepted(toClient[i])
        /\ IF tftp_state \in {"SEND_RRQ", "OACK"} THEN toClient[i].blk = 1
           ELSE toClient[i].blk # tftp_prev_block
        /\ toClient' = Without(toClient, i)
        /\ tftp_state' = "DATA" /\ tftp_cur_block' = toClient[i].blk
        /\ tftp_prev_block' = toClient[i].blk /\ tftp_block_wrap' = wrap
        /\ tftp_remote_port' = toClient[i].src
        /\ store_block(Offset(toClient[i].blk, wrap), toClient[i])
        /\ toServer' = tftp_send("DATA", toClient[i].src, toClient[i].blk)
        /\ net_state' = IF LastReceived(toClient[i]) THEN "SUCCESS" ELSE net_state
        /\ UNCHANGED <<tftp_block_size, tftp_our_port, net_try_count, file, server>>
  BY <1>a, Zenon
<1> DEFINE p == toClient[i].src  s == server[p]  blk == toClient[i].blk
           len == toClient[i].len  pos == toClient[i].pos
           m == [op |-> "ACK", port |-> p, blk |-> blk]
<1>0. /\ UNCHANGED <<tftp_block_size, tftp_our_port, file_size, reorders, server>>
      /\ tftp_state' = "DATA" /\ tftp_remote_port' = p /\ net_state = "CONTINUE"
      /\ tftp_cur_block' = blk /\ tftp_prev_block' = blk /\ tftp_block_wrap' = wrap
      /\ net_state' = (IF len < tftp_block_size THEN "SUCCESS" ELSE "CONTINUE")
      /\ toServer' = Sent(toServer, m)
  BY <1>1, Zenon DEF file, Looping, tftp_send, LastReceived
<1>2. /\ toServer \in Seq(ToServer) /\ toClient \in Seq(ToClient) /\ file_size \in Nat
      /\ i \in 1..Len(toClient) /\ toClient' \in Seq(ToClient) /\ Thins(toClient', toClient)
      /\ ~reorders => i = 1
  <2>1. toServer \in Seq(ToServer) /\ toClient \in Seq(ToClient) /\ file_size \in Nat
    BY Zenon DEF IInv, TypeOK
  <2> QED BY <1>1, <2>1, Taken, Zenon
<1>b. /\ toClient[i].op = "DATA" /\ Accepted(toClient[i])
      /\ IF tftp_state \in {"SEND_RRQ", "OACK"} THEN blk = 1 ELSE blk # tftp_prev_block
      /\ wrap = IF tftp_state \in {"SEND_RRQ", "OACK"} THEN 0
                ELSE IF Wrapped(blk) THEN tftp_block_wrap + 1
                ELSE tftp_block_wrap
  BY <1>1, Zenon
<1>c. /\ p = toClient[i].src /\ s = server[p] /\ blk = toClient[i].blk
      /\ len = toClient[i].len /\ pos = toClient[i].pos
  BY Zenon
<1> HIDE DEF m, p, s, blk, len, pos
<1>3. /\ p \in Sessions /\ Used(s) /\ s \in SessionType
      /\ s.blksize \in BlockSizes /\ s.blk \in Nat /\ s.blksize = tftp_block_size
      /\ SessionOK(s, tftp_our_port, file_size) /\ s.peer = tftp_our_port
      /\ Joined => p = tftp_remote_port
      /\ blk \in Numbers /\ wrap \in Nat
      /\ \E n \in Nat \ {0} : NextIs(i, p, s, blk, wrap, n)
  <2>1. Storing(i, p, s, blk, wrap)
    BY <1>0, <1>2, <1>b, <1>c, Zenon DEF Storing
  <2> QED BY ONLY IInv, <2>1, NextBlock, Zenon
<1>e. PICK n \in Nat \ {0} : NextIs(i, p, s, blk, wrap, n)
  BY <1>3, Zenon
<1>4. /\ n <= s.blk
      /\ toClient[i] = Numbered(p, s, n, file_size)
      /\ blk = n % TFTP_SEQUENCE_SIZE
      /\ n = wrap * TFTP_SEQUENCE_SIZE + blk
      /\ Stored(n - 1, s.blksize, file_size, DOMAIN mem)
      /\ ~reorders => /\ s.blk = n /\ AcksOK(toServer, p, n - 1, n)
                      /\ \A k \in 1..Len(toClient) : FromPort(toClient[k], p) =>
                            toClient[k] = Numbered(p, s, n, file_size)
      /\ reorders => wrap = 0 /\ n = blk
  BY <1>e, Zenon DEF NextIs
<1>5. BlockOf(n, s.blksize, file_size, pos, len)
  <2>1. n <= s.blk /\ toClient[i] = Numbered(p, s, n, file_size)
    BY <1>4, Zenon
  <2>2. p \in Sessions /\ s \in SessionType /\ s.blksize \in BlockSizes
        /\ s.blk <= LastOf(file_size, s.blksize)
    BY <1>3, Zenon DEF SessionOK
  <2>3. BlockOf(n, s.blksize, file_size, toClient[i].pos, toClient[i].len)
    BY ONLY <1>2, <2>1, <2>2, n \in Nat \ {0}, BlockSent, Zenon
  <2> QED BY <1>c, <2>3, Zenon
<1>6. m \in ToServer /\ m.op = "ACK" /\ m.port = p /\ m.blk = blk
  BY <1>3, Zenon DEF ToServer, m
<1>s. s = server[p] /\ s.blksize \in Nat \ {0}
  BY <1>3, <1>c, Constants, Zenon
<1>7. Offset(blk, wrap) = pos
  <2>1. blk \in Nat /\ TFTP_SEQUENCE_SIZE \in Nat /\ s.blksize \in Nat
    BY <1>3, Constants, Zenon
  <2>2. (blk - 1) * s.blksize + wrap * TFTP_SEQUENCE_SIZE * s.blksize
          = (wrap * TFTP_SEQUENCE_SIZE + blk - 1) * s.blksize
    <3>1. wrap \in Nat
      BY <1>3, Zenon
    <3> QED BY ONLY <2>1, <3>1, OffsetIs, SMTT(30)
  <2>3. wrap * TFTP_SEQUENCE_SIZE + blk - 1 = n - 1
    <3>1. n = wrap * TFTP_SEQUENCE_SIZE + blk
      BY <1>4, Zenon
    <3>2. n \in Nat /\ blk \in Nat /\ wrap * TFTP_SEQUENCE_SIZE \in Nat
      BY <1>3, <2>1, Products
    <3> QED BY ONLY <3>1, <3>2
  <2> QED BY <1>3, <1>5, <2>2, <2>3, Zenon DEF Offset, BlockOf
<1>8. /\ mem' = [a \in DOMAIN mem \cup (pos .. pos + len - 1) |->
                    IF a \in pos .. pos + len - 1 THEN pos + (a - pos) ELSE mem[a]]
      /\ net_boot_file_size' = IF net_boot_file_size < pos + len
                               THEN pos + len ELSE net_boot_file_size
  BY <1>1, <1>7, <1>c, Zenon DEF store_block
<1> DEFINE new == DOMAIN mem \cup (pos .. pos + len - 1)
<1>9. /\ pos \in Nat /\ len \in Nat /\ pos + len <= file_size
      /\ new \subseteq 0..(file_size - 1)
      /\ Stored(n, s.blksize, file_size, new)
      /\ len < s.blksize => pos + len = file_size /\ new = 0..(file_size - 1)
  <2>1. DOMAIN mem \subseteq 0..(file_size - 1)
    BY Zenon DEF IInv, MemOK
  <2>2. Stored(n - 1, s.blksize, file_size, DOMAIN mem)
    BY <1>4, Zenon
  <2>3. file_size \in Nat /\ s.blksize \in Nat \ {0}
    BY <1>2, <1>s, Zenon
  <2>4. NextOf(n, s.blksize, file_size, pos, len, DOMAIN mem, new)
    BY <1>5, <2>1, <2>2, <2>3, Zenon DEF NextOf
  <2> HIDE DEF new
  <2> QED BY ONLY <2>4, StoreBlock
<1> HIDE DEF new
<1>10. DOMAIN mem' = new /\ mem' = [a \in new |-> a]
  <2>1. mem = [a \in DOMAIN mem |-> a]
    BY Zenon DEF IInv, MemOK
  <2>2. \A a \in pos .. pos + len - 1 : pos + (a - pos) = a
    BY <1>9
  <2>3. \A a \in DOMAIN mem : mem[a] = a
    BY <2>1, Zenon
  <2> QED BY <1>8, <2>2, <2>3, Zenon DEF new
<1>11. toServer' \in Seq(ToServer) /\ Grows(toServer', toServer, m)
  BY ONLY <1>0, <1>2, <1>6, Sending, Zenon
<1>12. DOMAIN mem \subseteq DOMAIN mem'
  BY <1>10, Zenon DEF new
<1>i1. TypeOK /\ Fits
  BY Zenon DEF IInv
<1>i2. \A q \in Sessions : SessionOK(server[q], tftp_our_port, file_size)
  BY Zenon DEF IInv
<1>i3. \A q \in Sessions : Fresh(q) => Untouched(q, server[q], toServer, toClient)
  BY Zenon DEF IInv
<1>i4. FromSessions(toClient, server, file_size) /\ Asked(toServer, server, tftp_our_port)
  BY Zenon DEF IInv
<1>i5. Holding /\ AtStart /\ MemOK
  BY Zenon DEF IInv
<1>i6. InOrder
  BY Zenon DEF IInv
<1>i7. OutOfOrder
  BY Zenon DEF IInv
<1>i8. SuccessIsWhole
  BY Zenon DEF IInv
<1>21. TypeOK' /\ Fits'
  <2>1. net_boot_file_size' \in Nat
    <3>1. net_boot_file_size \in Nat /\ pos + len \in Nat
      BY <1>9, <1>i1 DEF TypeOK
    <3> QED BY <1>8, <3>1, Zenon
  <2> QED BY <1>0, <1>2, <1>3, <1>11, <2>1, <1>i1, Zenon DEF TypeOK, Fits
<1>22. (\A q \in Sessions : SessionOK(server[q], tftp_our_port, file_size))'
  BY <1>0, <1>i2, Zenon
<1>23. (\A q \in Sessions : Fresh(q) => Untouched(q, server[q], toServer, toClient))'
  <2> SUFFICES ASSUME NEW q \in Sessions, Fresh(q)'
               PROVE  Untouched(q, server[q], toServer, toClient)'
    BY <1>i3, Zenon
  <2>1. Fresh(q) /\ ~IsAck(m, q)
    BY <1>0, <1>3, <1>6, <1>i3, Zenon DEF Fresh, Joined, IsAck
  <2>2. Untouched(q, server[q], toServer, toClient)
    BY <2>1, <1>i3, Zenon
  <2>3. NoOack(toClient, q) => NoOack(toClient', q)
    BY <1>2, ThinClient, Zenon
  <2>4. NoAck(toServer', q)
    BY <1>11, <2>1, <2>2, MoreToServer, <1>i3, Zenon DEF Untouched
  <2> QED BY <1>0, <2>2, <2>3, <2>4, <1>i3, Zenon DEF Untouched
<1>24. FromSessions(toClient, server, file_size)'
  <2>1. FromSessions(toClient', server, file_size)
    BY <1>2, ThinClient, <1>i4, Zenon
  <2> QED BY <1>0, <2>1, Zenon
<1>25. Asked(toServer, server, tftp_our_port)'
  <2>1. Asked(toServer', server, tftp_our_port)
    BY <1>3, <1>6, <1>11, <1>s, MoreToServer, <1>i4, Zenon
  <2> QED BY <1>0, <2>1, Zenon
<1>26. Holding' /\ AtStart'
  BY <1>0, <1>3, <1>s, <1>i5, Zenon DEF Holding, AtStart, Joined
<1>27. MemOK' /\ SuccessIsWhole'
  <2>1. net_boot_file_size \in Nat /\ net_boot_file_size <= file_size
    BY <1>i1, <1>i5, Zenon DEF TypeOK, MemOK
  <2>2. net_boot_file_size' <= file_size
    BY <1>8, <1>9, <2>1, Zenon
  <2>3. len < s.blksize => net_boot_file_size' = file_size
    BY <1>2, <1>8, <1>9, <2>1
  <2> QED BY <1>0, <1>3, <1>9, <1>10, <2>2, <2>3, <1>i5, <1>i8, Zenon DEF MemOK, SuccessIsWhole
<1>28. InOrder'
  <2> SUFFICES ASSUME ~reorders
               PROVE  /\ \A q \in Sessions : Used(server[q]) =>
                           \E c \in Nat : Acked(q, server[q], toServer', c, file_size, DOMAIN mem')
                      /\ Stepping'
    BY <1>0, <1>i6, Zenon DEF InOrder
  <2>1. ASSUME NEW q, NEW c, Acked(q, server[q], toServer, c, file_size, DOMAIN mem), q # p
        PROVE  Acked(q, server[q], toServer', c, file_size, DOMAIN mem')
    <3>1. AcksOK(toServer', q, c, server[q].blk)
      <4>1. AcksOK(toServer, q, c, server[q].blk) /\ ~IsAck(m, q)
        BY <1>6, <2>1, Zenon DEF Acked, IsAck
      <4> QED BY <1>11, <4>1, MoreToServer, Zenon
    <3>2. Stored(c, server[q].blksize, file_size, DOMAIN mem')
      BY <1>12, <2>1, StoredMore, Zenon DEF Acked
    <3> QED BY <2>1, <3>1, <3>2, Zenon DEF Acked
  <2>2. Acked(p, s, toServer', n, file_size, DOMAIN mem')
    <3>1. AcksOK(toServer, p, n - 1, n) /\ s.blk = n /\ AckOf(m, n)
      BY <1>4, <1>6, Zenon DEF AckOf
    <3>2. AcksOK(toServer', p, n, n)
      BY ONLY <1>11, <3>1, n \in Nat \ {0}, AcksOfNext, Zenon
    <3> QED BY <1>9, <1>10, <3>1, <3>2, Zenon DEF Acked
  <2>3. DataOK(toClient', p, s, n, file_size)
    <3>1. DataOK(toClient, p, s, n, file_size)
      <4>1. n <= s.blk
        BY <1>4, Zenon
      <4>2. \A k \in 1..Len(toClient) : FromPort(toClient[k], p) =>
                                  toClient[k] = Numbered(p, s, n, file_size)
        BY <1>4, Zenon
      <4> QED BY ONLY <4>1, <4>2, Zenon DEF DataOK
    <3> QED BY <1>2, <3>1, ThinClient, Zenon
  <2>4. ClientLast' = n /\ ClientBlock' = n
    BY <1>0, <1>4, Zenon DEF ClientLast, ClientBlock
  <2>5. Stepping'
    <3>1. n > 0
      OBVIOUS
    <3> QED BY <1>0, <1>4, <1>s, <2>2, <2>3, <2>4, <3>1, Zenon DEF Stepping
  <2>6. ASSUME NEW q \in Sessions, Used(server[q])
        PROVE  \E c \in Nat : Acked(q, server[q], toServer', c, file_size, DOMAIN mem')
    <3>1. CASE q = p
      BY <1>s, <2>2, <3>1, Zenon
    <3>2. CASE q # p
      BY <2>1, <2>6, <3>2, <1>i6, Zenon DEF InOrder
    <3> QED BY <3>1, <3>2, Zenon
  <2> QED BY <2>5, <2>6, Zenon
<1>29. OutOfOrder'
  <2>1. SUFFICES ASSUME reorders
                 PROVE  /\ \A q \in Sessions : Used(server[q]) /\ server[q].blk > 0 =>
                             Stored(server[q].blk - 1, server[q].blksize, file_size, DOMAIN mem')
                        /\ AcksStored(toServer', server, file_size, DOMAIN mem')
                        /\ Stored(blk, s.blksize, file_size, DOMAIN mem') /\ wrap = 0
    BY <1>0, <1>s, <1>i7, Zenon DEF OutOfOrder
  <2>2. Stored(blk, s.blksize, file_size, DOMAIN mem') /\ wrap = 0
    BY <1>4, <1>9, <1>10, <2>1, Zenon
  <2>3. ASSUME NEW q \in Sessions, Used(server[q]), server[q].blk > 0
        PROVE  Stored(server[q].blk - 1, server[q].blksize, file_size, DOMAIN mem')
    BY <1>12, <2>1, <2>3, StoredMore, <1>i7, Zenon DEF OutOfOrder
  <2>4. AcksStored(toServer, server, file_size, DOMAIN mem')
    BY <1>12, <2>1, StoredMore, <1>i7, Zenon DEF OutOfOrder, AcksStored
  <2>5. AcksStored(toServer', server, file_size, DOMAIN mem')
    BY <1>6, <1>11, <1>s, <2>2, <2>4, MoreToServer, Zenon
  <2> QED BY <2>2, <2>3, <2>5, Zenon
<1> QED BY <1>21, <1>22, <1>23, <1>24, <1>25, <1>26, <1>27, <1>28, <1>29, Zenon DEF IInv

-----------------------------------------------------------------------------
(* The theorems *)

\* The network changes the order of packets for files only that have fewer
\* blocks than there are block numbers: a block number of such a transfer
\* stands for one block.
Unambiguous ==
    \A size \in ReorderedSizes, blksize \in BlockSizes : LastOf(size, blksize) < TFTP_SEQUENCE_SIZE

\* The invariant holds before the first try.
LEMMA InitInv ==
    ASSUME Unambiguous, Init PROVE IInv
<1> USE DEF Init
<1>1. /\ \A p \in Sessions : server[p] = Unused
      /\ \A p \in Sessions : ~Used(server[p])
      /\ Len(toServer) = 0 /\ Len(toClient) = 0 /\ ~Joined
      /\ net_state = "RESTART"
  BY Zenon DEF Unused, Used, Joined
<1>2. TypeOK
  <2>1. Unused \in SessionType
    BY Zenon DEF Unused, SessionType
  <2>2. file_size \in Nat
    BY TftpGetAssumption, Zenon
  <2>3. toServer \in Seq(ToServer) /\ toClient \in Seq(ToClient)
    OBVIOUS
  <2> QED BY <2>1, <2>2, <2>3, Constants, Zenon DEF TypeOK
<1>3. Fits
  BY Zenon DEF Fits, Unambiguous
<1>4. MemOK
  <2>1. DOMAIN mem = {} /\ mem = [a \in {} |-> a]
    OBVIOUS
  <2> QED BY <1>2, <2>1 DEF MemOK, TypeOK
<1>5. FromSessions(toClient, server, file_size) /\ Asked(toServer, server, tftp_our_port)
      /\ AcksStored(toServer, server, file_size, DOMAIN mem)
  BY <1>1 DEF FromSessions, Asked, AcksStored
<1>6. Holding /\ AtStart /\ SuccessIsWhole
  BY <1>1, Zenon DEF Holding, AtStart, SuccessIsWhole
<1>7. InOrder /\ OutOfOrder
  BY <1>1, <1>5, Zenon DEF InOrder, OutOfOrder, Stepping
<1>8. \A p \in Sessions : SessionOK(server[p], tftp_our_port, file_size) /\ ~Fresh(p)
  BY <1>1, Zenon DEF SessionOK, Fresh
<1> QED BY <1>2, <1>3, <1>4, <1>5, <1>6, <1>7, <1>8, Zenon DEF IInv

\* Every step keeps the invariant.
LEMMA NextInv ==
    ASSUME IInv, [Next]_vars PROVE IInv'
BY StartKeeps, IgnoresKeeps, OackKeeps, NotFirstKeeps, AgainKeeps, DataKeeps, ErrorKeeps,
   TimeoutKeeps, ServerRrqKeeps, ServerErrorKeeps, ServerAckKeeps, ServerResendKeeps,
   LoseKeeps, StutterKeeps, Zenon
   DEF Next, Done

\* The inductive invariant holds in every behaviour of the transfer.
THEOREM TftpInvariant == Unambiguous => (Spec => []IInv)
<1>1. ASSUME Unambiguous PROVE Init => IInv
  BY <1>1, InitInv, Zenon
<1>2. IInv /\ [Next]_vars => IInv'
  BY NextInv, Zenon
<1>3. Unambiguous => (Init => IInv)
  BY <1>1, Zenon
<1> QED BY <1>2, <1>3, PTL DEF Spec

\* store_block never puts a byte of the file at another byte's place: for every
\* file, block size and number of wraps of the block number, whatever is lost
\* or sent again, in this transfer or in one that was given up.
THEOREM TftpBytesInPlace == Unambiguous => (Spec => []BytesInPlace)
<1>1. IInv => BytesInPlace
  BY Zenon DEF IInv, MemOK, BytesInPlace
<1> QED BY <1>1, TftpInvariant, PTL

\* When tftp_complete reports success, memory holds the whole file and
\* net_boot_file_size is its size.
THEOREM TftpSuccessIsWhole == Unambiguous => (Spec => []SuccessIsWhole)
<1>1. IInv => SuccessIsWhole
  BY Zenon DEF IInv
<1> QED BY <1>1, TftpInvariant, PTL

\* While packets keep their order, the server is at the block the client stored
\* last or at the next, so update_block_number never mistakes a block.
THEOREM TftpLockStep == Unambiguous => (Spec => []LockStep)
<1>1. IInv => LockStep
  BY Zenon DEF IInv, LockStep, InOrder, Stepping, AtStart, Acked, ClientLast, Joined
<1> QED BY <1>1, TftpInvariant, PTL
=============================================================================
