---------------------------- MODULE NetworkProofs ----------------------------
(***************************************************************************)
(* Proofs about the network below and beside NetLoop.                      *)
(*                                                                         *)
(* Dhcp, for any servers, any size of the cache and any number of packets: *)
(* the address in use is one a server granted, and the cache of ids is     *)
(* that of the last requests.                                              *)
(*                                                                         *)
(* Cpsw, for any number of descriptors and buffers: the channels' queues   *)
(* are what the engine works on, in order, no descriptor is lost, and no   *)
(* buffer is given to the engine twice.                                    *)
(***************************************************************************)
EXTENDS Dhcp, Cpsw, TLAPS

-----------------------------------------------------------------------------
(***************************************************************************)
(* The DHCP client.                                                        *)
(***************************************************************************)

\* The shape of the state that the proofs need.
Shape ==
    /\ pc \in {"prompt", "dhcp", "bound"}
    /\ bootp_ids \in [Slots -> Nat]
    /\ bootp_num_ids \in 0..CacheSize
    /\ sent \in Seq(Nat)

\* A DHCPACK the client would take is one whose lease is held.
AcksGood ==
    pc = "dhcp" => \A p \in net : p.type = "ACK" /\ bootp_match_id(p.id) => p.from \in leases

\* No address while the exchange is going on, a granted one afterwards.
AddressGood ==
    /\ pc = "dhcp" => net_ip = None
    /\ pc = "bound" => net_ip \in leases /\ dhcp_server_ip = net_ip

\* The cache holds the ids of the last requests, in their order.
CacheGood ==
    /\ Len(sent) = bootp_num_ids
    /\ \A i \in 1..Len(sent) : bootp_ids[i - 1] = sent[i]

\* The next id is one that neither a packet nor the cache holds.
LEMMA NewIdFresh ==
    Fresh # {} => /\ NewId \in Ids
                  /\ \A p \in net : p.id # NewId
                  /\ \A i \in Slots : bootp_ids[i] # NewId
  BY DEF Fresh, NewId

\* Adding an id to the cache leaves no id in it that was not there before.
LEMMA AddIdOldOrNew ==
    ASSUME Shape, NEW num \in 0..bootp_num_ids, NEW id \in Nat, bootp_add_id(num, id)
    PROVE  /\ bootp_ids' \in [Slots -> Nat]
           /\ bootp_num_ids' \in 0..CacheSize
           /\ \A i \in 0..(bootp_num_ids' - 1) :
                 bootp_ids'[i] = id \/ \E j \in 0..(num - 1) : bootp_ids'[i] = bootp_ids[j]
<1> USE DhcpAssumption DEF Shape, Slots
<1>1. CASE num >= CacheSize
  <2>1. num = CacheSize
    BY <1>1
  <2>2. bootp_num_ids' = num
    BY <1>1 DEF bootp_add_id
  <2>3. bootp_ids' = [i \in Slots |->
                IF i = num - 1 THEN id
                ELSE IF i < CacheSize - UlongWords THEN bootp_ids[i + 1]
                ELSE bootp_ids[i]]
    BY <1>1 DEF bootp_add_id
  <2>4. ASSUME NEW i \in Slots
        PROVE  /\ bootp_ids'[i] \in Nat
               /\ bootp_ids'[i] = id \/ \E j \in 0..(num - 1) : bootp_ids'[i] = bootp_ids[j]
    <3>1. CASE i = num - 1
      BY <2>3, <3>1
    <3>2. CASE i # num - 1 /\ i < CacheSize - UlongWords
      <4>1. bootp_ids'[i] = bootp_ids[i + 1] /\ i + 1 \in 0..(num - 1)
        BY <2>1, <2>3, <3>2
      <4> QED
        BY <4>1, <2>1, Zenon
    <3>3. CASE i # num - 1 /\ ~(i < CacheSize - UlongWords)
      BY <2>1, <2>3, <3>3
    <3> QED
      BY <3>1, <3>2, <3>3
  <2> QED
    BY <2>1, <2>2, <2>3, <2>4
<1>2. CASE ~(num >= CacheSize)
  <2>1. /\ bootp_ids' = [bootp_ids EXCEPT ![num] = id]
        /\ bootp_num_ids' = num + 1
    BY <1>2 DEF bootp_add_id
  <2>2. num \in Slots
    BY <1>2
  <2> QED
    BY <2>1, <2>2
<1> QED
  BY <1>1, <1>2, Zenon

\* The inductive invariant behind AddressGranted.
IInv == Shape /\ AcksGood /\ AddressGood

\* Asking again makes no DHCPACK acceptable that was not acceptable before.
LEMMA RequestKeepsAcks ==
    ASSUME Shape, AcksGood, pc = "dhcp",
           bootp_request(bootp_num_ids, sent), leases' = leases
    PROVE  /\ bootp_ids' \in [Slots -> Nat]
           /\ bootp_num_ids' \in 0..CacheSize
           /\ sent' \in Seq(Nat)
           /\ \A p \in net' : p.type = "ACK" /\ bootp_match_id(p.id)' => p.from \in leases'
<1>1. /\ NewId \in Nat
      /\ \A p \in net : p.id # NewId
      /\ bootp_add_id(bootp_num_ids, NewId)
      /\ net' = Send(Discover(NewId))
      /\ sent' = LastOf(Append(sent, NewId))
  BY NewIdFresh, DhcpAssumption DEF bootp_request, Ids
<1>2. /\ bootp_ids' \in [Slots -> Nat]
      /\ bootp_num_ids' \in 0..CacheSize
      /\ \A i \in 0..(bootp_num_ids' - 1) :
            bootp_ids'[i] = NewId \/ \E j \in 0..(bootp_num_ids - 1) : bootp_ids'[i] = bootp_ids[j]
  BY <1>1, AddIdOldOrNew DEF Shape
<1>3. sent' \in Seq(Nat)
  BY <1>1, DhcpAssumption DEF LastOf, Shape
<1>4. ASSUME NEW p \in net', p.type = "ACK", bootp_match_id(p.id)'
      PROVE  p.from \in leases'
  <2>1. p \in net
    <3>1. p \in net \/ p = Discover(NewId)
      BY <1>1 DEF Send
    <3> QED
      BY <3>1, <1>4 DEF Discover
  <2>2. PICK i \in 0..(bootp_num_ids' - 1) : bootp_ids'[i] = p.id
    BY <1>4 DEF bootp_match_id
  <2>3. PICK j \in 0..(bootp_num_ids - 1) : p.id = bootp_ids[j]
    BY <1>1, <1>2, <2>1, <2>2, Zenon
  <2>4. bootp_match_id(p.id)
    BY <2>3 DEF bootp_match_id, Shape
  <2> QED
    BY <1>4, <2>1, <2>4 DEF AcksGood
<1> QED
  BY <1>2, <1>3, <1>4

\* Starting, from the prompt or again, establishes the invariant anew.
LEMMA StartGood ==
    ASSUME IInv, dhcp_start
    PROVE  IInv'
<1>1. /\ NewId \in Nat
      /\ \A p \in net : p.id # NewId
      /\ bootp_add_id(0, NewId)
      /\ net' = Send(Discover(NewId))
      /\ sent' = LastOf(Append(<<>>, NewId))
      /\ net_ip' = None /\ pc' = "dhcp" /\ leases' = leases
  BY NewIdFresh, DhcpAssumption DEF dhcp_start, bootp_request, Ids
<1>2. bootp_num_ids' = 1 /\ bootp_ids' = [bootp_ids EXCEPT ![0] = NewId]
  BY <1>1, DhcpAssumption DEF bootp_add_id
<1>3. bootp_ids' \in [Slots -> Nat] /\ bootp_ids'[0] = NewId /\ bootp_num_ids' \in 0..CacheSize
  BY <1>1, <1>2, DhcpAssumption DEF IInv, Shape, Slots
<1>4. sent' \in Seq(Nat)
  BY <1>1, DhcpAssumption DEF LastOf
<1>5. ASSUME NEW p \in net', p.type = "ACK"
      PROVE  ~bootp_match_id(p.id)'
  <2>1. p \in net \/ p = Discover(NewId)
    BY <1>1 DEF Send
  <2>2. p.id # NewId
    BY <1>1, <1>5, <2>1 DEF Discover
  <2> QED
    BY <1>2, <1>3, <2>2 DEF bootp_match_id
<1> QED
  BY <1>1, <1>3, <1>4, <1>5 DEF IInv, Shape, AcksGood, AddressGood

\* Returning to the prompt keeps it.
LEMMA EndsGood ==
    ASSUME IInv, Ends
    PROVE  IInv'
  BY DEF Ends, IInv, Shape, AcksGood, AddressGood, bootp_match_id

\* Every step of client, servers and network keeps the invariant.
LEMMA StepGood ==
    IInv /\ [Next]_vars => IInv'
<1> SUFFICES ASSUME IInv, [Next]_vars PROVE IInv'
  OBVIOUS
<1>1. CASE do_dhcp
  BY <1>1, StartGood DEF do_dhcp
<1>2. CASE bootp_timeout_handler
  <2>1. CASE dhcp_start
    BY <2>1, StartGood
  <2>2. CASE Ends
    BY <2>2, EndsGood, Zenon
  <2>3. CASE /\ bootp_request(bootp_num_ids, sent)
             /\ UNCHANGED <<pc, dhcp_server_ip, net_ip, leases>>
    <3>1. pc = "dhcp" /\ leases' = leases
      BY <1>2, <2>3 DEF bootp_timeout_handler
    <3>2. /\ bootp_ids' \in [Slots -> Nat]
          /\ bootp_num_ids' \in 0..CacheSize
          /\ sent' \in Seq(Nat)
          /\ \A p \in net' : p.type = "ACK" /\ bootp_match_id(p.id)' => p.from \in leases'
      BY <2>3, <3>1, RequestKeepsAcks DEF IInv
    <3> QED
      BY <2>3, <3>1, <3>2 DEF IInv, Shape, AcksGood, AddressGood
  <2> QED
    BY <1>2, <2>1, <2>2, <2>3 DEF bootp_timeout_handler
<1>3. CASE ctrlc
  BY <1>3, EndsGood DEF ctrlc
<1>4. CASE net_auto_load
  BY <1>4, StartGood, EndsGood, Zenon DEF net_auto_load
<1>5. ASSUME NEW p \in net, handler_selecting(p)
      PROVE  IInv'
  <2>1. /\ UNCHANGED <<pc, bootp_ids, bootp_num_ids, net_ip, leases, sent>>
        /\ pc = "dhcp"
        /\ net' = Send(Request(p.id, dhcp_server_ip', p.from))
    BY <1>5 DEF handler_selecting, Accepted
  <2>2. ASSUME NEW q \in net', q.type = "ACK"
        PROVE  q \in net
    BY <2>1, <2>2 DEF Send, Request
  <2> QED
    BY <2>1, <2>2 DEF IInv, Shape, AcksGood, AddressGood, bootp_match_id
<1>6. ASSUME NEW p \in net, handler_requesting(p)
      PROVE  IInv'
  <2>1. /\ UNCHANGED <<bootp_ids, bootp_num_ids, net, leases, sent>>
        /\ pc = "dhcp" /\ pc' = "bound"
        /\ p.type = "ACK" /\ bootp_match_id(p.id)
        /\ net_ip' = p.from /\ dhcp_server_ip' = p.from
    BY <1>6 DEF handler_requesting, Accepted, ServerOf
  <2>2. p.from \in leases
    BY <2>1, Zenon DEF IInv, AcksGood
  <2> QED
    BY <2>1, <2>2 DEF IInv, Shape, AcksGood, AddressGood
<1>7. ASSUME NEW p \in net, server_ack(p)
      PROVE  IInv'
  <2>1. /\ UNCHANGED <<client, sent>>
        /\ leases' = leases \cup {p.server}
        /\ net' = Send(Reply("ACK", p.id, p.server))
    BY <1>7 DEF server_ack
  <2>2. ASSUME NEW q \in net'
        PROVE  q \in net \/ q.from \in leases'
    BY <2>1 DEF Send, Reply
  <2> QED
    BY <2>1, <2>2 DEF IInv, Shape, AcksGood, AddressGood, bootp_match_id, client
<1>8. ASSUME NEW p \in net, NEW s \in Hosts, server_offer(s, p)
      PROVE  IInv'
  <2>1. /\ UNCHANGED <<client, leases, sent>>
        /\ net' = net \cup {Reply(IF s \in Servers THEN "OFFER" ELSE "BOOTREPLY", p.id, s)}
    BY <1>8 DEF server_offer
  <2>2. ASSUME NEW q \in net', q.type = "ACK"
        PROVE  q \in net
    BY <2>1, <2>2 DEF Reply
  <2> QED
    BY <2>1, <2>2 DEF IInv, Shape, AcksGood, AddressGood, bootp_match_id, client
<1>9. ASSUME NEW p \in net, lose(p)
      PROVE  IInv'
  BY <1>9, Zenon DEF lose, IInv, Shape, AcksGood, AddressGood, bootp_match_id, client
<1>10. ASSUME NEW s \in Servers, expire(s)
       PROVE  IInv'
  BY <1>10, Zenon DEF expire, IInv, Shape, AcksGood, AddressGood, client
<1>11. CASE UNCHANGED vars
  BY <1>11 DEF vars, client, IInv, Shape, AcksGood, AddressGood, bootp_match_id
<1> QED
  BY <1>1, <1>2, <1>3, <1>4, <1>5, <1>6, <1>7, <1>8, <1>9, <1>10, <1>11 DEF Next

\* The state net_loop is first entered in satisfies the invariant.
LEMMA InitGood ==
    Init => IInv
  BY DhcpAssumption DEF Init, IInv, Shape, AcksGood, AddressGood

\* While "dhcp" runs, the client has an address only if the server it got it
\* from holds a lease for it: for any servers, any size of the cache (on
\* builds with a ulong of any size) and any loss, delay and repetition.
THEOREM AddressIsGranted ==
    Spec => []AddressGranted
<1>1. IInv => AddressGranted
  BY DEF IInv, Shape, AddressGood, AddressGranted
<1> QED
  BY <1>1, InitGood, StepGood, PTL DEF Spec

\* The list of the last n requests when one is appended and the oldest leaves.
LEMMA TailOfAppend ==
    ASSUME NEW n \in Nat \ {0}, NEW s \in Seq(Nat), Len(s) = n, NEW x \in Nat
    PROVE  /\ Tail(Append(s, x)) \in Seq(Nat) /\ Len(Tail(Append(s, x))) = n
           /\ Tail(Append(s, x))[n] = x
           /\ \A i \in 1..(n - 1) : Tail(Append(s, x))[i] = s[i + 1]
<1> DEFINE all == Append(s, x)
<1>1. /\ all \in Seq(Nat) /\ Len(all) = n + 1 /\ all[n + 1] = x
      /\ \A i \in 1..n : all[i] = s[i]
  OBVIOUS
<1> HIDE DEF all
<1>2. /\ Tail(all) \in Seq(Nat) /\ Len(Tail(all)) = n
      /\ \A i \in 1..n : Tail(all)[i] = all[i + 1]
  BY <1>1
<1>3. Tail(all)[n] = x
  BY <1>1, <1>2
<1>4. \A i \in 1..(n - 1) : Tail(all)[i] = s[i + 1]
  BY <1>1, <1>2
<1> QED
  BY <1>2, <1>3, <1>4 DEF all

\* A request appends its id to the cache, dropping the oldest of a full one,
\* when a ulong is as large as an id.
LEMMA RequestKeepsCache ==
    ASSUME Shape, NEW num \in 0..CacheSize, NEW before \in Seq(Nat),
           UlongWords = 1, Len(before) = num,
           \A i \in 1..num : bootp_ids[i - 1] = before[i],
           bootp_request(num, before)
    PROVE  /\ bootp_ids' \in [Slots -> Nat]
           /\ bootp_num_ids' \in 0..CacheSize
           /\ sent' \in Seq(Nat)
           /\ CacheGood'
<1> USE DhcpAssumption DEF Shape, Slots
<1>1. PICK id \in Nat : bootp_add_id(num, id) /\ sent' = LastOf(Append(before, id))
  BY NewIdFresh DEF bootp_request, Ids
<1>2. CASE num = CacheSize
  <2>1. /\ bootp_num_ids' = CacheSize
        /\ bootp_ids' = [i \in Slots |->
                IF i = CacheSize - 1 THEN id
                ELSE IF i < CacheSize - 1 THEN bootp_ids[i + 1]
                ELSE bootp_ids[i]]
    BY <1>1, <1>2 DEF bootp_add_id
  <2>2. sent' = Tail(Append(before, id))
    BY <1>1, <1>2 DEF LastOf
  <2>3. /\ sent' \in Seq(Nat) /\ Len(sent') = CacheSize
        /\ sent'[CacheSize] = id
        /\ \A i \in 1..(CacheSize - 1) : sent'[i] = before[i + 1]
    <3> DEFINE last == Tail(Append(before, id))
    <3>1. CacheSize \in Nat \ {0} /\ before \in Seq(Nat) /\ Len(before) = CacheSize /\ id \in Nat
      BY <1>2
    <3>2. /\ last \in Seq(Nat) /\ Len(last) = CacheSize /\ last[CacheSize] = id
          /\ \A i \in 1..(CacheSize - 1) : last[i] = before[i + 1]
      BY ONLY <3>1, TailOfAppend
    <3> HIDE DEF last
    <3> QED
      BY <2>2, <3>2, Zenon DEF last
  <2>4. ASSUME NEW i \in 1..CacheSize
        PROVE  bootp_ids'[i - 1] = sent'[i]
    <3>1. CASE i = CacheSize
      <4>1. bootp_ids'[i - 1] = id
        BY <2>1, <3>1
      <4> QED
        BY <2>3, <3>1, <4>1, Zenon
    <3>2. CASE i \in 1..(CacheSize - 1)
      <4>1. bootp_ids'[i - 1] = bootp_ids[i] /\ i + 1 \in 1..num
        BY <1>2, <2>1, <3>2
      <4>2. sent'[i] = before[i + 1]
        BY <2>3, <3>2, Zenon
      <4>3. bootp_ids[i] = before[i + 1]
        BY <4>1
      <4> QED
        BY <4>1, <4>2, <4>3, Zenon
    <3> QED
      BY <3>1, <3>2
  <2>5. bootp_ids' \in [Slots -> Nat]
    BY <2>1
  <2> QED
    BY <2>1, <2>3, <2>4, <2>5 DEF CacheGood
<1>3. CASE num < CacheSize
  <2>1. /\ bootp_num_ids' = num + 1
        /\ bootp_ids' = [bootp_ids EXCEPT ![num] = id]
    BY <1>1, <1>3 DEF bootp_add_id
  <2>2. sent' = Append(before, id)
    BY <1>1, <1>3 DEF LastOf
  <2>3. /\ sent' \in Seq(Nat) /\ Len(sent') = num + 1
        /\ sent'[num + 1] = id /\ \A i \in 1..num : sent'[i] = before[i]
    <3>1. /\ Append(before, id) \in Seq(Nat) /\ Len(Append(before, id)) = num + 1
          /\ Append(before, id)[num + 1] = id
          /\ \A i \in 1..num : Append(before, id)[i] = before[i]
      OBVIOUS
    <3> QED
      BY <2>2, <3>1, Zenon
  <2>4. /\ bootp_ids' \in [Slots -> Nat]
        /\ bootp_ids'[num] = id
        /\ \A i \in 1..num : bootp_ids'[i - 1] = bootp_ids[i - 1]
    BY <1>3, <2>1
  <2>5. ASSUME NEW i \in 1..(num + 1)
        PROVE  bootp_ids'[i - 1] = sent'[i]
    <3>1. CASE i = num + 1
      BY <2>3, <2>4, <3>1
    <3>2. CASE i \in 1..num
      BY <2>3, <2>4, <3>2
    <3> QED
      BY <3>1, <3>2
  <2> QED
    BY <1>3, <2>1, <2>3, <2>4, <2>5 DEF CacheGood
<1> QED
  BY <1>2, <1>3

\* The inductive invariant behind LateAnswersAccepted.
CacheInv == Shape /\ CacheGood

\* The first request of a command finds the cache empty.
LEMMA StartCache ==
    ASSUME CacheInv, UlongWords = 1, dhcp_start
    PROVE  CacheInv'
<1>1. PICK num : num = 0
  OBVIOUS
<1>2. PICK before : before = <<>>
  OBVIOUS
<1>3. /\ num \in 0..CacheSize /\ before \in Seq(Nat) /\ Len(before) = num
      /\ \A i \in 1..num : bootp_ids[i - 1] = before[i]
  BY <1>1, <1>2, DhcpAssumption
<1>4. bootp_request(num, before) /\ pc' = "dhcp"
  BY <1>1, <1>2, Zenon DEF dhcp_start
<1>5. /\ bootp_ids' \in [Slots -> Nat]
      /\ bootp_num_ids' \in 0..CacheSize
      /\ sent' \in Seq(Nat)
      /\ CacheGood'
  BY <1>3, <1>4, RequestKeepsCache DEF CacheInv
<1> QED
  BY <1>4, <1>5 DEF CacheInv, Shape

\* Every step keeps the ids of the last requests in the cache.
LEMMA StepCache ==
    ASSUME UlongWords = 1
    PROVE  CacheInv /\ [Next]_vars => CacheInv'
<1> SUFFICES ASSUME CacheInv, [Next]_vars PROVE CacheInv'
  OBVIOUS
<1>1. CASE dhcp_start
  BY <1>1, StartCache
<1>2. CASE bootp_request(bootp_num_ids, sent) /\ UNCHANGED pc
  <2>1. /\ bootp_num_ids \in 0..CacheSize /\ sent \in Seq(Nat) /\ Len(sent) = bootp_num_ids
        /\ \A i \in 1..bootp_num_ids : bootp_ids[i - 1] = sent[i]
    BY Zenon DEF CacheInv, Shape, CacheGood
  <2>2. /\ bootp_ids' \in [Slots -> Nat]
        /\ bootp_num_ids' \in 0..CacheSize
        /\ sent' \in Seq(Nat)
        /\ CacheGood'
    BY <1>2, <2>1, RequestKeepsCache, Zenon DEF CacheInv
  <2> QED
    BY <1>2, <2>2 DEF CacheInv, Shape
<1>3. CASE /\ UNCHANGED <<bootp_ids, bootp_num_ids, sent>>
           /\ pc' \in {pc, "prompt", "bound"}
  BY <1>3, Zenon DEF CacheInv, Shape, CacheGood
<1> QED
  BY <1>1, <1>2, <1>3, Zenon
  DEF Next, do_dhcp, bootp_timeout_handler, Ends, ctrlc, net_auto_load, handler_selecting,
      handler_requesting, server_ack, server_offer, lose, expire, client, vars

\* Where a ulong has 32 bits, as on the board, an answer to any of the last
\* CacheSize requests of the command is accepted, whatever the size of the
\* cache and however often the client asked again.
THEOREM LateAnswersAreAccepted ==
    ASSUME UlongWords = 1
    PROVE  Spec => []LateAnswersAccepted
<1>1. Init => CacheInv
  BY DhcpAssumption DEF Init, CacheInv, Shape, CacheGood
<1>2. CacheInv => LateAnswersAccepted
  BY DEF CacheInv, Shape, CacheGood, LateAnswersAccepted, bootp_match_id
<1>3. CacheInv /\ [Next]_vars => CacheInv'
  BY StepCache
<1> QED
  BY <1>1, <1>2, <1>3, PTL DEF Spec

-----------------------------------------------------------------------------
(***************************************************************************)
(* The inductive invariant of the queues.                                  *)
(***************************************************************************)

\* The fields of the descriptors, each by itself.
Nx == [d \in Descs |-> desc[d].next]
Buf == [d \in Descs |-> desc[d].buf]
Own == {d \in Descs : desc[d].own}
Eoq == {d \in Descs : desc[d].eoq}

DescOrNil == Descs \cup {Nil}
Buffers == 0 .. NumRx

Calls ==
    [op : {"init", "send", "recv", "free"},
     pc : {"submit", "link", "eoq", "process", "hdp", "again"},
     ch : Channels, b : Buffers, d : DescOrNil, prev : DescOrNil, i : 1 .. NumRx]

CpswTypeOK ==
    /\ active \in BOOLEAN
    /\ desc \in [Descs -> [next : DescOrNil, buf : Buffers, own : BOOLEAN, eoq : BOOLEAN]]
    /\ free \in DescOrNil
    /\ chan \in [Channels -> [head : DescOrNil, tail : DescOrNil]]
    /\ hdp \in [Channels -> DescOrNil]
    /\ dma \in [Channels -> [desc : DescOrNil, next : DescOrNil]]
    /\ drv = NoCall \/ drv \in Calls
    /\ held \in Buffers

\* s goes from first along next to the end.
Path(s, first, next) ==
    /\ s \in Seq(Descs)
    /\ first = IF s = <<>> THEN Nil ELSE s[1]
    /\ \A i \in 1 .. Len(s) : next[s[i]] = IF i = Len(s) THEN Nil ELSE s[i + 1]

Inj(s) == \A i, j \in 1 .. Len(s) : s[i] = s[j] => i = j

\* The engine owns an end of the queue q, and works on the first one it owns.
Ordered(q, own, h) ==
    /\ \A i, j \in 1 .. Len(q) : i < j /\ q[i] \in own => q[j] \in own
    /\ h # Nil => \E i \in 1 .. Len(q) :
           q[i] = h /\ h \in own /\ \A j \in 1 .. (i - 1) : q[j] \notin own

\* What the engine has read of its descriptor may be old: there was no
\* successor yet.
Fetched(m, h, next) == m.desc # Nil => m.desc = h /\ m.next \in {Nil, next[h]}

\* A channel c with the list q, the register h and the engine at m.  The engine
\* has stopped for good where the last descriptor has EOQ.
ChanOK(q, c, h, m, next, own, eoq) ==
    /\ Path(q, c.head, next) /\ Inj(q)
    /\ q # <<>> => c.tail = q[Len(q)]
    /\ Ordered(q, own, h)
    /\ Fetched(m, h, next)
    /\ q # <<>> /\ q[Len(q)] \in eoq => h = Nil

\* Where a call is in the queue q of its channel, with h its register: what it
\* has seen still holds.
CallOK(q, h, call, own, eoq) ==
    /\ call.pc \in {"link", "hdp", "again"} => q # <<>>
    /\ call.pc = "again" => h = Nil
    /\ call.pc = "eoq" =>
           /\ Len(q) >= 2 /\ call.d = q[Len(q)] /\ call.prev = q[Len(q) - 1]
           /\ call.prev \in eoq => h = Nil /\ call.d \in own

\* The descriptor taken by a submission, ready to be linked.
TakenOK(call, next, own, eoq) ==
    call.pc = "link" => /\ call.d \in Descs /\ next[call.d] = Nil
                        /\ call.d \in own /\ call.d \notin eoq

\* Every descriptor has one place; or the device was never started.
Places == {"none", "pool", "rx", "tx", "taken"}

Placed(pool, qs, at, taken) ==
    /\ Elements(pool) = {d \in Descs : at[d] = "pool"}
    /\ \A ch \in Channels : Elements(qs[ch]) = {d \in Descs : at[d] = ch}
    /\ taken = {d \in Descs : at[d] = "taken"}
    /\ (\A d \in Descs : at[d] = "none") \/ (\A d \in Descs : at[d] # "none")

\* No buffer is in the queue rx twice, nor the one the stack works on, ...
RxBufs(rx, buf, h) ==
    /\ \A i, j \in 1 .. Len(rx) : buf[rx[i]] = buf[rx[j]] => i = j
    /\ \A d \in Elements(rx) : buf[d] \in 1 .. NumRx /\ buf[d] # h

\* ... nor the one being submitted.
NewBuf(rx, buf, call, h) ==
    /\ call.op \in {"init", "free"} => h = Nil
    /\ call.op \in {"init", "free"} /\ call.pc \in {"submit", "link"} =>
           /\ call.b \in 1 .. NumRx /\ \A d \in Elements(rx) : buf[d] # call.b
           /\ call.pc = "link" => buf[call.d] = call.b
    /\ call.op = "init" => call.b = call.i /\ \A d \in Elements(rx) : buf[d] <= call.i

\* The operations and the channel and the accesses they are made of.
OpsOK(call, h) ==
    /\ call.op \in {"init", "recv", "free"} => call.ch = "rx"
    /\ call.op = "send" => call.ch = "tx"
    /\ call.op \in {"init", "free"} => call.pc \in {"submit", "link", "eoq"}
    /\ call.op = "recv" => call.pc \in {"process", "hdp", "again"} /\ h = Nil

\* The pool and the queues; the call in progress; the buffers.
Lists(pool, qs, at) ==
    /\ Path(pool, free, Nx) /\ Inj(pool)
    /\ Placed(pool, qs, at, Taken)
    /\ Own \cap Eoq = {}
    /\ \A ch \in Channels : ChanOK(qs[ch], chan[ch], hdp[ch], dma[ch], Nx, Own, Eoq)

Running(qs) ==
    drv # NoCall => /\ OpsOK(drv, held) /\ TakenOK(drv, Nx, Own, Eoq)
                    /\ CallOK(qs[drv.ch], hdp[drv.ch], drv, Own, Eoq)

Bufs(qs) == ~doubled => RxBufs(qs["rx"], Buf, held) /\ NewBuf(qs["rx"], Buf, drv, held)

CpswInv ==
    /\ CpswTypeOK
    /\ \E pool \in Seq(Descs), qs \in [Channels -> Seq(Descs)], at \in [Descs -> Places] :
           Lists(pool, qs, at) /\ Running(qs) /\ Bufs(qs)

-----------------------------------------------------------------------------
(***************************************************************************)
(* Lists.                                                                  *)
(***************************************************************************)

\* No descriptor is the end of a list.
LEMMA NilApart == Nil \notin Descs
BY DEF Nil, Descs

\* A receive buffer is not the absence of one.
LEMMA BufferIs ==
    ASSUME NEW b \in 1 .. NumRx
    PROVE  b # Nil /\ b <= b
BY NumRxAssumption DEF Nil

\* The elements of a list, by position.
LEMMA ElementsAre ==
    ASSUME NEW s \in Seq(Descs)
    PROVE  /\ Elements(s) \subseteq Descs
           /\ \A d : d \in Elements(s) <=> \E i \in 1 .. Len(s) : s[i] = d
BY DEF Elements

\* One more descriptor at the end.
LEMMA ElementsAppend ==
    ASSUME NEW s \in Seq(Descs), NEW d \in Descs
    PROVE  Elements(Append(s, d)) = Elements(s) \cup {d}
<1> DEFINE t == Append(s, d)
           n == Len(s)
<1>1. /\ t \in Seq(Descs) /\ Len(t) = n + 1 /\ n \in Nat /\ t[n + 1] = d
      /\ \A i \in 1 .. n : t[i] = s[i]
  OBVIOUS
<1>2. \A x : x \in Elements(s) <=> \E i \in 1 .. n : s[i] = x
  BY ElementsAre, Zenon
<1> HIDE DEF t, n
<1>3. \A x : x \in Elements(t) <=> \E i \in 1 .. Len(t) : t[i] = x
  BY <1>1, ElementsAre, Zenon
<1>4. /\ \A i \in 1 .. Len(t) : i = n + 1 \/ i \in 1 .. n
      /\ n + 1 \in 1 .. Len(t) /\ \A i \in 1 .. n : i \in 1 .. Len(t)
  BY <1>1
<1>5. ASSUME NEW x \in Elements(t) PROVE x \in Elements(s) \cup {d}
  BY <1>1, <1>2, <1>3, <1>4, Zenon
<1>6. d \in Elements(t)
  BY <1>1, <1>3, <1>4, Zenon
<1>7. ASSUME NEW x \in Elements(s) PROVE x \in Elements(t)
  BY <1>1, <1>2, <1>3, <1>4, Zenon
<1>8. Elements(t) = Elements(s) \cup {d}
  BY <1>5, <1>6, <1>7, Zenon
<1> QED BY <1>8, Zenon DEF t

\* cpdma_desc_alloc and cpdma_process take the first descriptor off a list.
LEMMA Popped ==
    ASSUME NEW s, NEW first, NEW next, Path(s, first, next), Inj(s), first # Nil
    PROVE  /\ s # <<>> /\ s[1] = first /\ first \in Descs
           /\ Path(Tail(s), next[first], next) /\ Inj(Tail(s))
           /\ Len(Tail(s)) = Len(s) - 1 /\ Len(s) \in Nat /\ Len(s) >= 1
           /\ \A i \in 1 .. (Len(s) - 1) : Tail(s)[i] = s[i + 1]
           /\ Elements(s) = Elements(Tail(s)) \cup {first}
           /\ first \notin Elements(Tail(s))
<1> DEFINE t == Tail(s)
<1>1. s \in Seq(Descs) /\ s # <<>> /\ s[1] = first /\ Len(s) \in Nat /\ Len(s) >= 1
  BY DEF Path
<1>2. first \in Descs
  BY <1>1
<1>3. t \in Seq(Descs) /\ Len(t) = Len(s) - 1 /\ \A i \in 1 .. (Len(s) - 1) : t[i] = s[i + 1]
  BY <1>1
<1> HIDE DEF t
<1>4. \A i \in 1 .. (Len(s) - 1) : i + 1 \in 1 .. Len(s) /\ i \in 1 .. Len(s) /\ i + 1 # 1
  BY <1>1
<1>5. Inj(t)
  <2> SUFFICES ASSUME NEW i \in 1 .. Len(t), NEW j \in 1 .. Len(t), t[i] = t[j] PROVE i = j
    BY Zenon DEF Inj
  <2>1. i \in 1 .. (Len(s) - 1) /\ j \in 1 .. (Len(s) - 1)
    BY <1>3
  <2>2. i + 1 = j + 1
    BY <1>3, <1>4, <2>1, Zenon DEF Inj
  <2> QED BY <2>1, <2>2, <1>1
<1>6. Path(t, next[first], next)
  <2>1. next[first] = IF 1 = Len(s) THEN Nil ELSE s[2]
    <3>1. 1 \in 1 .. Len(s) /\ 1 + 1 = 2
      BY <1>1
    <3> QED BY <1>1, <3>1, Zenon DEF Path
  <2>2. next[first] = IF t = <<>> THEN Nil ELSE t[1]
    <3>1. CASE Len(s) = 1
      <4>1. t = <<>>
        BY <1>3, <3>1
      <4> QED BY <2>1, <3>1, <4>1, Zenon
    <3>2. CASE Len(s) # 1
      <4>1. t # <<>> /\ 1 \in 1 .. (Len(s) - 1) /\ 1 + 1 = 2
        BY <1>1, <1>3, <3>2
      <4> QED BY <1>3, <2>1, <3>2, <4>1, Zenon
    <3> QED BY <3>1, <3>2, Zenon
  <2>3. ASSUME NEW i \in 1 .. Len(t)
        PROVE  next[t[i]] = IF i = Len(t) THEN Nil ELSE t[i + 1]
    <3>1. i \in 1 .. (Len(s) - 1) /\ i + 1 \in 1 .. Len(s)
      BY <1>1, <1>3
    <3>2. next[s[i + 1]] = IF i + 1 = Len(s) THEN Nil ELSE s[i + 1 + 1]
      BY <3>1, Zenon DEF Path
    <3>3. i + 1 = Len(s) <=> i = Len(t)
      BY <1>1, <1>3, <3>1
    <3>4. i # Len(t) => i + 1 \in 1 .. (Len(s) - 1)
      BY <1>1, <1>3, <3>1
    <3> QED BY <1>3, <3>1, <3>2, <3>3, <3>4, Zenon
  <2> QED BY <1>3, <2>2, <2>3, Zenon DEF Path
<1>7. Elements(s) = Elements(t) \cup {first}
  <2>1. ASSUME NEW d \in Elements(s) PROVE d \in Elements(t) \cup {first}
    <3>1. PICK i \in 1 .. Len(s) : s[i] = d
      BY <1>1, ElementsAre, Zenon
    <3>2. CASE i = 1
      BY <1>1, <3>1, <3>2, Zenon
    <3>3. CASE i # 1
      <4>1. i - 1 \in 1 .. (Len(s) - 1) /\ (i - 1) + 1 = i /\ i - 1 \in 1 .. Len(t)
        BY <1>1, <1>3, <3>1, <3>3
      <4>2. t[i - 1] = d
        BY <1>3, <3>1, <4>1, Zenon
      <4> QED BY <1>3, <4>1, <4>2, ElementsAre, Zenon
    <3> QED BY <3>2, <3>3, Zenon
  <2>2. first \in Elements(s)
    <3>1. 1 \in 1 .. Len(s)
      BY <1>1
    <3> QED BY <1>1, <3>1, ElementsAre, Zenon
  <2>3. ASSUME NEW d \in Elements(t) PROVE d \in Elements(s)
    <3>1. PICK i \in 1 .. Len(t) : t[i] = d
      BY <1>3, ElementsAre, Zenon
    <3>2. i \in 1 .. (Len(s) - 1)
      BY <1>3
    <3> QED BY <1>1, <1>3, <1>4, <3>1, <3>2, ElementsAre, Zenon
  <2> QED BY <2>1, <2>2, <2>3, Zenon
<1>8. first \notin Elements(t)
  <2> SUFFICES ASSUME first \in Elements(t) PROVE FALSE
    OBVIOUS
  <2>1. PICK i \in 1 .. Len(t) : t[i] = first
    BY <1>3, ElementsAre, Zenon
  <2>2. i \in 1 .. (Len(s) - 1) /\ 1 \in 1 .. Len(s)
    BY <1>1, <1>3
  <2>3. s[i + 1] = s[1]
    BY <1>1, <1>3, <2>1, <2>2, Zenon
  <2> QED BY <1>4, <2>2, <2>3, Zenon DEF Inj
<1> QED BY <1>1, <1>2, <1>3, <1>5, <1>6, <1>7, <1>8, Zenon DEF t

\* The descriptors S have the same successors in both.
SameNext(S, next, next2) == \A e \in S : next2[e] = next[e]

\* A list depends on the successors of its own descriptors only.
LEMMA PathFrame ==
    ASSUME NEW s, NEW first, NEW next, NEW next2, Path(s, first, next),
           SameNext(Elements(s), next, next2)
    PROVE  Path(s, first, next2)
<1>1. \A i \in 1 .. Len(s) : s[i] \in Elements(s)
  BY ElementsAre, Zenon DEF Path
<1> QED BY <1>1, Zenon DEF Path, SameNext

\* One more descriptor at the front.
LEMMA ElementsPush ==
    ASSUME NEW s \in Seq(Descs), NEW d \in Descs
    PROVE  Elements(<<d>> \o s) = Elements(s) \cup {d}
<1> DEFINE t == <<d>> \o s
<1>1. /\ Len(s) \in Nat /\ Len(t) = Len(s) + 1 /\ t[1] = d /\ t \in Seq(Descs)
      /\ \A i \in 2 .. (Len(s) + 1) : t[i] = s[i - 1]
  OBVIOUS
<1>2. Elements(t) = {t[i] : i \in 1 .. Len(t)} /\ Elements(s) = {s[i] : i \in 1 .. Len(s)}
  BY <1>1 DEF Elements
<1> HIDE DEF t
<1>3. ASSUME NEW x \in Elements(s) PROVE x \in Elements(t)
  <2>1. PICK i \in 1 .. Len(s) : s[i] = x
    BY <1>2
  <2>2. i + 1 \in 1 .. Len(t) /\ t[i + 1] = x
    BY <1>1, <2>1
  <2> QED BY <1>2, <2>2
<1>4. d \in Elements(t)
  BY <1>1, <1>2
<1>5. ASSUME NEW x \in Elements(t) PROVE x = d \/ x \in Elements(s)
  <2>1. PICK i \in 1 .. Len(t) : t[i] = x
    BY <1>2
  <2>2. i = 1 \/ (i \in 2 .. (Len(s) + 1) /\ i - 1 \in 1 .. Len(s))
    BY <1>1
  <2> QED BY <1>1, <1>2, <2>1, <2>2
<1> QED BY <1>3, <1>4, <1>5 DEF t

\* cpdma_desc_free puts a descriptor in front of the pool.
LEMMA Pushed ==
    ASSUME NEW s, NEW first, NEW next, NEW next2, NEW d \in Descs,
           Path(s, first, next), Inj(s), d \notin Elements(s), next2[d] = first,
           SameNext(Elements(s), next, next2)
    PROVE  /\ <<d>> \o s \in Seq(Descs)
           /\ Path(<<d>> \o s, d, next2) /\ Inj(<<d>> \o s)
           /\ Elements(<<d>> \o s) = Elements(s) \cup {d}
<1> DEFINE t == <<d>> \o s
<1>1. s \in Seq(Descs) /\ Len(s) \in Nat
  BY DEF Path
<1>2. /\ t \in Seq(Descs) /\ t # <<>> /\ Len(t) = Len(s) + 1 /\ t[1] = d
      /\ \A i \in 2 .. (Len(s) + 1) : t[i] = s[i - 1]
  BY <1>1
<1> HIDE DEF t
<1>3. \A i \in 1 .. Len(s) : s[i] \in Elements(s)
  BY <1>1, ElementsAre, Zenon
<1>4. ASSUME NEW i \in 1 .. Len(t)
      PROVE  i = 1 \/ (i \in 2 .. (Len(s) + 1) /\ i - 1 \in 1 .. Len(s))
  BY <1>1, <1>2
<1>5. Inj(t)
  <2> SUFFICES ASSUME NEW i \in 1 .. Len(t), NEW j \in 1 .. Len(t), t[i] = t[j] PROVE i = j
    BY Zenon DEF Inj
  <2>0. ASSUME NEW k \in 1 .. Len(t), k # 1 PROVE t[k] # d
    <3>1. k \in 2 .. (Len(s) + 1) /\ k - 1 \in 1 .. Len(s)
      BY <1>4, <2>0, Zenon
    <3>2. t[k] \in Elements(s)
      BY <1>2, <1>3, <3>1, Zenon
    <3> QED BY <3>2, Zenon
  <2>1. CASE i = 1 \/ j = 1
    BY <1>2, <2>0, <2>1, Zenon
  <2>2. CASE i # 1 /\ j # 1
    <3>1. i - 1 = j - 1
      BY <1>2, <1>4, <2>2, Zenon DEF Inj
    <3> QED BY <3>1
  <2> QED BY <2>1, <2>2, Zenon
<1>6. Path(t, d, next2)
  <2>1. ASSUME NEW i \in 1 .. Len(t)
        PROVE  next2[t[i]] = IF i = Len(t) THEN Nil ELSE t[i + 1]
    <3>1. CASE i = 1
      <4>1. CASE s = <<>>
        <5>1. Len(t) = 1 /\ first = Nil
          BY <1>1, <1>2, <4>1 DEF Path
        <5> QED BY <1>2, <3>1, <5>1, Zenon
      <4>2. CASE s # <<>>
        <5>1. 2 \in 2 .. (Len(s) + 1) /\ 2 - 1 = 1 /\ 1 # Len(t) /\ 1 + 1 = 2
          BY <1>1, <1>2, <4>2
        <5>2. first = s[1]
          BY <4>2, Zenon DEF Path
        <5> QED BY <1>2, <3>1, <5>1, <5>2, Zenon
      <4> QED BY <4>1, <4>2, Zenon
    <3>2. CASE i # 1
      <4>1. i \in 2 .. (Len(s) + 1) /\ i - 1 \in 1 .. Len(s)
        BY <1>4, <3>2, Zenon
      <4>2. /\ i - 1 = Len(s) <=> i = Len(t)
            /\ i # Len(t) => i + 1 \in 2 .. (Len(s) + 1) /\ (i + 1) - 1 = (i - 1) + 1
        BY <1>1, <1>2, <4>1
      <4>3. next2[s[i - 1]] = IF i - 1 = Len(s) THEN Nil ELSE s[(i - 1) + 1]
        BY <1>3, <4>1, Zenon DEF Path, SameNext
      <4> QED BY <1>2, <4>1, <4>2, <4>3, Zenon
    <3> QED BY <3>1, <3>2, Zenon
  <2> QED BY <1>2, <2>1, Zenon DEF Path
<1>7. Elements(t) = Elements(s) \cup {d}
  BY <1>1, ElementsPush, Zenon DEF t
<1> QED BY <1>2, <1>5, <1>6, <1>7, Zenon DEF t

\* submit_link puts a descriptor behind the last one of a queue.
LEMMA Appended ==
    ASSUME NEW s, NEW first, NEW next, NEW next2, NEW d \in Descs,
           Path(s, first, next), Inj(s), s # <<>>, d \notin Elements(s),
           next2[d] = Nil, next2[s[Len(s)]] = d,
           SameNext(Elements(s) \ {s[Len(s)]}, next, next2)
    PROVE  /\ Append(s, d) \in Seq(Descs) /\ Append(s, d) # <<>>
           /\ Path(Append(s, d), first, next2) /\ Inj(Append(s, d))
           /\ Elements(Append(s, d)) = Elements(s) \cup {d}
           /\ Len(Append(s, d)) = Len(s) + 1 /\ Len(s) \in Nat /\ Len(s) >= 1
           /\ Append(s, d)[Len(s) + 1] = d
           /\ \A i \in 1 .. Len(s) : Append(s, d)[i] = s[i]
<1> DEFINE t == Append(s, d)
           n == Len(s)
<1>1. s \in Seq(Descs) /\ n \in Nat /\ n >= 1
  BY DEF Path
<1>2. /\ t \in Seq(Descs) /\ t # <<>> /\ Len(t) = n + 1 /\ t[n + 1] = d
      /\ \A i \in 1 .. n : t[i] = s[i]
  BY <1>1
<1>a. \A i \in 1 .. n : next[s[i]] = IF i = n THEN Nil ELSE s[i + 1]
  BY Zenon DEF Path
<1>b. \A i, j \in 1 .. n : s[i] = s[j] => i = j
  BY Zenon DEF Inj
<1>c. first = s[1]
  BY Zenon DEF Path
<1>3. \A i \in 1 .. n : s[i] \in Elements(s)
  BY <1>1, ElementsAre, Zenon
<1>d. next2[s[n]] = d /\ \A e \in Elements(s) : e # s[n] => next2[e] = next[e]
  BY Zenon DEF SameNext
<1> HIDE DEF t, n
<1>4. ASSUME NEW i \in 1 .. Len(t) PROVE i = n + 1 \/ i \in 1 .. n
  BY <1>1, <1>2
<1>5. Inj(t)
  <2> SUFFICES ASSUME NEW i \in 1 .. Len(t), NEW j \in 1 .. Len(t), t[i] = t[j] PROVE i = j
    BY Zenon DEF Inj
  <2>0. ASSUME NEW k \in 1 .. Len(t), k # n + 1 PROVE k \in 1 .. n /\ t[k] = s[k] /\ t[k] # d
    <3>1. k \in 1 .. n
      BY <1>4, <2>0, Zenon
    <3>2. t[k] \in Elements(s)
      BY <1>2, <1>3, <3>1, Zenon
    <3> QED BY <1>2, <3>1, <3>2, Zenon
  <2>1. CASE i = n + 1 \/ j = n + 1
    BY <1>2, <2>0, <2>1, Zenon
  <2>2. CASE i # n + 1 /\ j # n + 1
    <3>1. i \in 1 .. n /\ j \in 1 .. n /\ t[i] = s[i] /\ t[j] = s[j]
      BY <2>0, <2>2, Zenon
    <3>2. s[i] = s[j]
      BY <3>1, Zenon
    <3> QED BY <1>b, <3>1, <3>2, Zenon
  <2> QED BY <2>1, <2>2, Zenon
<1>6. Path(t, first, next2)
  <2>1. ASSUME NEW i \in 1 .. Len(t)
        PROVE  next2[t[i]] = IF i = Len(t) THEN Nil ELSE t[i + 1]
    <3>1. CASE i = n + 1
      BY <1>2, <3>1, Zenon
    <3>2. CASE i = n
      <4>1. n \in 1 .. n /\ n # n + 1
        BY <1>1
      <4> QED BY <1>2, <1>d, <3>2, <4>1, Zenon
    <3>3. CASE i \in 1 .. n /\ i # n
      <4>1. n \in 1 .. n /\ i # n + 1 /\ i + 1 \in 1 .. n
        BY <1>1, <3>3
      <4>2. s[i] # s[n]
        BY <1>b, <3>3, <4>1, Zenon
      <4>3. next2[s[i]] = s[i + 1]
        BY <1>a, <1>d, <1>3, <3>3, <4>2, Zenon
      <4> QED BY <1>2, <3>3, <4>1, <4>3, Zenon
    <3> QED BY <1>4, <3>1, <3>2, <3>3, Zenon
  <2>2. first = t[1]
    <3>1. 1 \in 1 .. n
      BY <1>1
    <3> QED BY <1>2, <1>c, <3>1, Zenon
  <2> QED BY <1>2, <2>1, <2>2, Zenon DEF Path
<1>7. Elements(t) = Elements(s) \cup {d}
  BY <1>1, ElementsAppend, Zenon DEF t
<1> QED BY <1>1, <1>2, <1>5, <1>6, <1>7, Zenon DEF t, n

\* The first descriptor of an empty queue is all of it.
LEMMA Single ==
    ASSUME NEW d \in Descs, NEW next, next[d] = Nil
    PROVE  /\ <<d>> \in Seq(Descs) /\ <<d>> # <<>> /\ Len(<<d>>) = 1 /\ <<d>>[1] = d
           /\ Path(<<d>>, d, next) /\ Inj(<<d>>) /\ Elements(<<d>>) = {d}
<1>1. <<d>> \in Seq(Descs) /\ <<d>> # <<>> /\ Len(<<d>>) = 1 /\ <<d>>[1] = d
  OBVIOUS
<1>2. \A i \in 1 .. 1 : i = 1
  OBVIOUS
<1>3. 1 \in 1 .. 1
  OBVIOUS
<1>4. Elements(<<d>>) = {d}
  BY <1>1, <1>2, <1>3, ElementsAre, Zenon
<1> QED BY <1>1, <1>2, <1>4, Zenon DEF Path, Inj

\* There is nothing in an empty list.
LEMMA Empty ==
    ASSUME NEW next
    PROVE  <<>> \in Seq(Descs) /\ Path(<<>>, Nil, next) /\ Inj(<<>>) /\ Elements(<<>>) = {}
BY DEF Path, Inj, Elements

-----------------------------------------------------------------------------
(***************************************************************************)
(* Channels: what each access leaves of ChanOK.                            *)
(***************************************************************************)

\* A register that holds nothing belongs to an engine that works on nothing.
LEMMA Rests ==
    ASSUME NEW m, NEW h, NEW next, Fetched(m, h, next), h = Nil
    PROVE  m.desc = Nil
BY Zenon DEF Fetched

\* The descriptors q have the same fields in both.
Same(q, next, own, eoq, next2, own2, eoq2) ==
    \A e \in Elements(q) : /\ next2[e] = next[e] /\ (e \in own2 <=> e \in own)
                           /\ (e \in eoq2 <=> e \in eoq)

\* A channel depends on the descriptors of its own queue only.
LEMMA ChanFrame ==
    ASSUME NEW q, NEW c, NEW h, NEW m, NEW next, NEW own, NEW eoq, NEW next2, NEW own2, NEW eoq2,
           ChanOK(q, c, h, m, next, own, eoq),
           Same(q, next, own, eoq, next2, own2, eoq2)
    PROVE  ChanOK(q, c, h, m, next2, own2, eoq2)
<1>0. q \in Seq(Descs)
  BY DEF ChanOK, Path
<1>1. \A i \in 1 .. Len(q) : q[i] \in Elements(q)
  BY <1>0, ElementsAre, Zenon
<1>2. Path(q, c.head, next2)
  <2>1. SameNext(Elements(q), next, next2)
    BY Zenon DEF Same, SameNext
  <2> QED BY <2>1, PathFrame, Zenon DEF ChanOK
<1>3. Ordered(q, own2, h)
  <2>1. ASSUME NEW i \in 1 .. Len(q), NEW j \in 1 .. Len(q), i < j, q[i] \in own2
        PROVE  q[j] \in own2
    BY <1>1, <2>1, Zenon DEF ChanOK, Ordered, Same
  <2>2. ASSUME h # Nil
        PROVE  \E i \in 1 .. Len(q) : q[i] = h /\ h \in own2 /\ \A j \in 1 .. (i - 1) : q[j] \notin own2
    <3>1. PICK i \in 1 .. Len(q) : q[i] = h /\ h \in own /\ \A j \in 1 .. (i - 1) : q[j] \notin own
      BY <2>2, Zenon DEF ChanOK, Ordered
    <3>2. \A j \in 1 .. (i - 1) : j \in 1 .. Len(q)
      BY <1>0
    <3> QED BY <1>1, <3>1, <3>2, Zenon DEF Same
  <2> QED BY <2>1, <2>2, Zenon DEF Ordered
<1>4. Fetched(m, h, next2)
  <2>1. ASSUME m.desc # Nil PROVE m.desc = h /\ m.next \in {Nil, next2[h]}
    <3>1. m.desc = h /\ m.next \in {Nil, next[h]}
      BY <2>1, Zenon DEF ChanOK, Fetched
    <3>2. h \in Elements(q)
      BY <1>1, <2>1, <3>1, Zenon DEF ChanOK, Ordered
    <3> QED BY <3>1, <3>2, Zenon DEF Same
  <2> QED BY <2>1, Zenon DEF Fetched
<1>5. q # <<>> => Len(q) \in 1 .. Len(q)
  BY <1>0
<1> QED BY <1>1, <1>2, <1>3, <1>4, <1>5, Zenon DEF ChanOK, Same

\* cpdma_process takes off the first descriptor, which the engine is done with.
LEMMA ChanPop ==
    ASSUME NEW q, NEW c, NEW h, NEW m, NEW next, NEW own, NEW eoq, NEW next2, NEW own2, NEW eoq2,
           NEW c2, ChanOK(q, c, h, m, next, own, eoq), c.head # Nil, c.head \notin own,
           c2.head = next[c.head], c2.tail = c.tail,
           Same(Tail(q), next, own, eoq, next2, own2, eoq2)
    PROVE  ChanOK(Tail(q), c2, h, m, next2, own2, eoq2)
<1> DEFINE t == Tail(q)
<1>0. q \in Seq(Descs) /\ Len(q) \in Nat
  BY DEF ChanOK, Path
<1>1. /\ q # <<>> /\ q[1] = c.head /\ Path(t, c2.head, next) /\ Inj(t)
      /\ Len(t) = Len(q) - 1 /\ Len(q) >= 1
      /\ \A i \in 1 .. (Len(q) - 1) : t[i] = q[i + 1]
  BY Popped, Zenon DEF ChanOK
<1>f. Same(t, next, own, eoq, next2, own2, eoq2)
  OBVIOUS
<1> HIDE DEF t
<1>2. ASSUME NEW i \in 1 .. Len(t) PROVE i \in 1 .. (Len(q) - 1) /\ i + 1 \in 1 .. Len(q)
  BY <1>0, <1>1
<1>3. Ordered(t, own, h)
  <2>1. ASSUME NEW i \in 1 .. Len(t), NEW j \in 1 .. Len(t), i < j, t[i] \in own
        PROVE  t[j] \in own
    <3>1. i + 1 < j + 1
      BY <2>1
    <3>2. q[i + 1] \in own => q[j + 1] \in own
      BY <1>2, <3>1, Zenon DEF ChanOK, Ordered
    <3> QED BY <1>1, <1>2, <2>1, <3>2, Zenon
  <2>2. ASSUME h # Nil
        PROVE  \E i \in 1 .. Len(t) : t[i] = h /\ h \in own /\ \A j \in 1 .. (i - 1) : t[j] \notin own
    <3>1. PICK i \in 1 .. Len(q) : q[i] = h /\ h \in own /\ \A j \in 1 .. (i - 1) : q[j] \notin own
      BY <2>2, Zenon DEF ChanOK, Ordered
    <3>2. i # 1
      BY <1>1, <3>1, Zenon
    <3>3. i - 1 \in 1 .. Len(t) /\ i - 1 \in 1 .. (Len(q) - 1) /\ (i - 1) + 1 = i
      BY <1>0, <1>1, <3>2
    <3>4. t[i - 1] = h
      <4>1. t[i - 1] = q[(i - 1) + 1]
        BY <1>1, <3>3, Zenon
      <4> QED BY <3>1, <3>3, <4>1
    <3>5. ASSUME NEW j \in 1 .. ((i - 1) - 1) PROVE t[j] \notin own
      <4>1. j \in 1 .. (Len(q) - 1) /\ j + 1 \in 1 .. (i - 1)
        BY <1>0
      <4> QED BY <1>1, <3>1, <4>1, Zenon
    <3> QED BY <3>1, <3>3, <3>4, <3>5, Zenon
  <2> QED BY <2>1, <2>2, Zenon DEF Ordered
<1>4. t # <<>> => c2.tail = t[Len(t)] /\ t[Len(t)] = q[Len(q)]
  <2>1. t # <<>> => Len(t) \in 1 .. (Len(q) - 1) /\ Len(t) + 1 = Len(q)
    BY <1>0, <1>1 DEF Path
  <2> QED BY <1>1, <2>1, Zenon DEF ChanOK
<1>5. ChanOK(t, c2, h, m, next, own, eoq)
  BY <1>1, <1>3, <1>4, Zenon DEF ChanOK
<1>6. ChanOK(t, c2, h, m, next2, own2, eoq2)
  BY ONLY <1>5, <1>f, ChanFrame, Zenon
<1> QED BY <1>6, Zenon DEF t

\* cpdma_submit puts the first descriptor into an empty queue and starts it.
LEMMA ChanStart ==
    ASSUME NEW q, NEW c, NEW h, NEW m, NEW next, NEW own, NEW eoq, NEW next2, NEW own2, NEW eoq2,
           NEW c2, NEW d \in Descs,
           ChanOK(q, c, h, m, next, own, eoq), c.head = Nil, c2.head = d, c2.tail = d,
           next2[d] = Nil, d \in own2, d \notin eoq2
    PROVE  ChanOK(<<d>>, c2, d, m, next2, own2, eoq2)
<1>1. q = <<>>
  <2>1. q # <<>> => c.head \in Descs
    BY DEF ChanOK, Path
  <2> QED BY <2>1, NilApart, Zenon
<1>2. Len(q) = 0 /\ \A i \in 1 .. Len(q) : FALSE
  BY <1>1
<1>3. h = Nil
  BY <1>2, Zenon DEF ChanOK, Ordered
<1>4. m.desc = Nil
  BY <1>3, Rests, Zenon DEF ChanOK
<1>5. /\ Len(<<d>>) = 1 /\ <<d>>[1] = d /\ 1 \in 1 .. 1 /\ \A i \in 1 .. 1 : i = 1 /\ ~(i < 1)
      /\ \A i \in 1 .. (1 - 1) : FALSE
  OBVIOUS
<1>6. Ordered(<<d>>, own2, d)
  <2>1. ASSUME NEW i \in 1 .. Len(<<d>>), NEW j \in 1 .. Len(<<d>>), i < j PROVE FALSE
    BY <1>5, <2>1
  <2> QED BY <1>5, <2>1, Zenon DEF Ordered
<1>7. Path(<<d>>, d, next2) /\ Inj(<<d>>)
  BY Single, Zenon
<1> QED BY <1>1, <1>4, <1>5, <1>6, <1>7, Zenon DEF ChanOK, Fetched

\* submit_link puts a descriptor the engine may have behind the last one, which
\* the engine may have read already.
LEMMA ChanLink ==
    ASSUME NEW q, NEW c, NEW h, NEW m, NEW next, NEW own, NEW eoq, NEW next2, NEW c2, NEW d \in Descs,
           ChanOK(q, c, h, m, next, own, eoq), q # <<>>, d \notin Elements(q),
           c2.head = c.head, c2.tail = d, d \in own, d \notin eoq,
           next2[d] = Nil, next2[c.tail] = d, SameNext(Elements(q) \ {c.tail}, next, next2)
    PROVE  ChanOK(Append(q, d), c2, h, m, next2, own, eoq)
<1> DEFINE t == Append(q, d)
           n == Len(q)
<1>0. q \in Seq(Descs) /\ n \in Nat /\ n >= 1
  BY DEF ChanOK, Path
<1>1. c.tail = q[n] /\ Path(q, c.head, next) /\ Inj(q) /\ next2[q[n]] = d
  BY Zenon DEF ChanOK
<1>2. /\ t # <<>> /\ Path(t, c2.head, next2) /\ Inj(t) /\ Len(t) = n + 1 /\ t[n + 1] = d
      /\ \A i \in 1 .. n : t[i] = q[i]
  <2>1. SameNext(Elements(q) \ {q[n]}, next, next2)
    BY <1>1, Zenon
  <2>2. Path(t, c.head, next2)
    BY <1>1, <2>1, Appended, Zenon
  <2>3. Inj(t)
    BY <1>1, <2>1, Appended, Zenon
  <2>4. t # <<>> /\ Len(t) = n + 1 /\ t[n + 1] = d /\ \A i \in 1 .. n : t[i] = q[i]
    BY <1>0
  <2> QED BY <2>2, <2>3, <2>4, Zenon
<1>3. Ordered(q, own, h) /\ Fetched(m, h, next)
  BY Zenon DEF ChanOK
<1>4. \A i \in 1 .. n : q[i] \in Elements(q)
  BY <1>0, ElementsAre, Zenon
<1> HIDE DEF t, n
<1>5. Ordered(t, own, h)
  <2>1. ASSUME NEW i \in 1 .. Len(t), NEW j \in 1 .. Len(t), i < j, t[i] \in own
        PROVE  t[j] \in own
    <3>1. j = n + 1 \/ (i \in 1 .. n /\ j \in 1 .. n)
      BY <1>0, <1>2, <2>1
    <3>2. CASE j = n + 1
      BY <1>2, <3>2, Zenon
    <3>3. CASE i \in 1 .. n /\ j \in 1 .. n
      BY <1>2, <1>3, <2>1, <3>3, Zenon DEF Ordered, n
    <3> QED BY <3>1, <3>2, <3>3, Zenon
  <2>2. ASSUME h # Nil
        PROVE  \E i \in 1 .. Len(t) : t[i] = h /\ h \in own /\ \A j \in 1 .. (i - 1) : t[j] \notin own
    <3>1. PICK i \in 1 .. n : q[i] = h /\ h \in own /\ \A j \in 1 .. (i - 1) : q[j] \notin own
      BY <1>3, <2>2, Zenon DEF Ordered, n
    <3>2. i \in 1 .. Len(t) /\ \A j \in 1 .. (i - 1) : j \in 1 .. n
      BY <1>0, <1>2
    <3> QED BY <1>2, <3>1, <3>2, Zenon
  <2> QED BY <2>1, <2>2, Zenon DEF Ordered
<1>6. Fetched(m, h, next2)
  <2>1. ASSUME m.desc # Nil PROVE m.desc = h /\ m.next \in {Nil, next2[h]}
    <3>1. m.desc = h /\ m.next \in {Nil, next[h]}
      BY <1>3, <2>1, Zenon DEF Fetched
    <3>2. h \in Elements(q)
      BY <1>3, <1>4, <2>1, <3>1, Zenon DEF Ordered, n
    <3>3. CASE h = q[n]
      <4>1. n \in 1 .. n
        BY <1>0
      <4>2. next[h] = Nil
        BY <1>1, <3>3, <4>1, Zenon DEF Path, n
      <4> QED BY <3>1, <4>2, Zenon
    <3>4. CASE h # q[n]
      BY <1>1, <3>1, <3>2, <3>4, Zenon DEF SameNext
    <3> QED BY <3>3, <3>4, Zenon
  <2> QED BY <2>1, Zenon DEF Fetched
<1>7. ChanOK(t, c2, h, m, next2, own, eoq)
  BY <1>2, <1>5, <1>6, Zenon DEF ChanOK
<1> QED BY <1>7, Zenon DEF t

\* The flags that the engine at m leaves.
DoneFlags(m, own, eoq, own2, eoq2) ==
    /\ own2 = own \ {m.desc}
    /\ eoq2 = IF m.next = Nil THEN eoq \cup {m.desc} ELSE eoq \ {m.desc}

\* The engine is done with its descriptor (dma_done).
LEMMA ChanDone ==
    ASSUME NEW q, NEW c, NEW h, NEW m, NEW next, NEW own, NEW eoq, NEW own2, NEW eoq2, NEW m2,
           ChanOK(q, c, h, m, next, own, eoq), m.desc # Nil, m2.desc = Nil,
           DoneFlags(m, own, eoq, own2, eoq2)
    PROVE  ChanOK(q, c, m.next, m2, next, own2, eoq2)
<1> USE DEF DoneFlags
<1>0. q \in Seq(Descs) /\ Len(q) \in Nat
  BY DEF ChanOK, Path
<1>1. m.desc = h /\ h # Nil /\ m.next \in {Nil, next[h]}
  BY Zenon DEF ChanOK, Fetched
<1>2. PICK i \in 1 .. Len(q) : q[i] = h /\ h \in own /\ \A j \in 1 .. (i - 1) : q[j] \notin own
  BY <1>1, Zenon DEF ChanOK, Ordered
<1>3. \A j \in 1 .. Len(q) : q[j] = h => j = i
  BY <1>2, Zenon DEF ChanOK, Inj
<1>4. \A j, k \in 1 .. Len(q) : j < k /\ q[j] \in own => q[k] \in own
  BY Zenon DEF ChanOK, Ordered
<1>5. next[q[i]] = IF i = Len(q) THEN Nil ELSE q[i + 1]
  BY <1>2, Zenon DEF ChanOK, Path
<1>6. q # <<>> /\ q[Len(q)] \notin eoq /\ Len(q) \in 1 .. Len(q)
  BY <1>0, <1>1, <1>2 DEF ChanOK
<1>7. \A j \in 1 .. Len(q) : q[j] \in own2 <=> (q[j] \in own /\ j # i)
  BY <1>1, <1>2, <1>3, Zenon
<1>8. Ordered(q, own2, m.next)
  <2>1. ASSUME NEW j \in 1 .. Len(q), NEW k \in 1 .. Len(q), j < k, q[j] \in own2
        PROVE  q[k] \in own2
    <3>1. k # i
      <4>1. k = i => j \in 1 .. (i - 1)
        BY <1>0, <2>1
      <4> QED BY <1>2, <1>7, <2>1, <4>1, Zenon
    <3> QED BY <1>4, <1>7, <2>1, <3>1, Zenon
  <2>2. ASSUME m.next # Nil
        PROVE  \E k \in 1 .. Len(q) : /\ q[k] = m.next /\ m.next \in own2
                                     /\ \A j \in 1 .. (k - 1) : q[j] \notin own2
    <3>1. i # Len(q) /\ m.next = q[i + 1]
      BY <1>1, <1>2, <1>5, <2>2, Zenon
    <3>2. /\ i + 1 \in 1 .. Len(q) /\ i < i + 1 /\ i + 1 # i
          /\ \A j \in 1 .. ((i + 1) - 1) : j \in 1 .. Len(q) /\ (j = i \/ j \in 1 .. (i - 1))
      BY <1>0, <3>1
    <3>3. q[i + 1] \in own2
      BY <1>2, <1>4, <1>7, <3>2, Zenon
    <3>4. \A j \in 1 .. ((i + 1) - 1) : q[j] \notin own2
      BY <1>2, <1>7, <3>2, Zenon
    <3> QED BY <3>1, <3>2, <3>3, <3>4, Zenon
  <2> QED BY <2>1, <2>2, Zenon DEF Ordered
<1>9. q[Len(q)] \in eoq2 => m.next = Nil
  <2> SUFFICES ASSUME m.next # Nil PROVE q[Len(q)] \notin eoq2
    BY Zenon
  <2> QED BY <1>6, Zenon
<1>10. Fetched(m2, m.next, next)
  BY Zenon DEF Fetched
<1> QED BY <1>8, <1>9, <1>10, Zenon DEF ChanOK

\* The engine reads the descriptor it is to work on (dma_fetch).
LEMMA ChanFetch ==
    ASSUME NEW q, NEW c, NEW h, NEW m, NEW next, NEW own, NEW eoq, NEW m2,
           ChanOK(q, c, h, m, next, own, eoq), m2.desc = h, m2.next = next[h]
    PROVE  ChanOK(q, c, h, m2, next, own, eoq)
BY Zenon DEF ChanOK, Fetched

\* The engine is stopped (_cpsw_halt).
LEMMA ChanHalt ==
    ASSUME NEW q, NEW c, NEW h, NEW m, NEW next, NEW own, NEW eoq, NEW m2,
           ChanOK(q, c, h, m, next, own, eoq), m2.desc = Nil
    PROVE  ChanOK(q, c, Nil, m2, next, own, eoq)
<1>1. Ordered(q, own, Nil)
  BY Zenon DEF ChanOK, Ordered
<1> QED BY <1>1, Zenon DEF ChanOK, Fetched

\* The engine is started again at the k-th descriptor, which it owns and where
\* it has nothing left to do before it (submit_eoq and process_again).
LEMMA ChanRestart ==
    ASSUME NEW q, NEW c, NEW m, NEW next, NEW own, NEW eoq,
           ChanOK(q, c, Nil, m, next, own, eoq), own \cap eoq = {},
           NEW k \in 1 .. Len(q), q[k] \in own, \A j \in 1 .. (k - 1) : q[j] \notin own
    PROVE  ChanOK(q, c, q[k], m, next, own, eoq)
<1>0. q \in Seq(Descs) /\ Len(q) \in Nat
  BY DEF ChanOK, Path
<1>1. m.desc = Nil
  BY Rests, Zenon DEF ChanOK
<1>2. q[Len(q)] \in own
  <2>1. Len(q) \in 1 .. Len(q) /\ (k = Len(q) \/ k < Len(q))
    BY <1>0
  <2> QED BY <2>1, Zenon DEF ChanOK, Ordered
<1>3. q[Len(q)] \notin eoq
  BY <1>2, Zenon
<1>4. Ordered(q, own, q[k])
  BY Zenon DEF ChanOK, Ordered
<1> QED BY <1>1, <1>3, <1>4, Zenon DEF ChanOK, Fetched

\* The end of a queue the engine has stopped before is where it starts again:
\* EOQ is set where OWNER is not.
LEMMA LastOnly ==
    ASSUME NEW q, NEW own, NEW eoq, NEW h, q \in Seq(Descs), Ordered(q, own, h), own \cap eoq = {},
           Len(q) >= 2, q[Len(q) - 1] \in eoq
    PROVE  \A j \in 1 .. (Len(q) - 1) : q[j] \notin own
<1> SUFFICES ASSUME NEW j \in 1 .. (Len(q) - 1) PROVE q[j] \notin own
  OBVIOUS
<1>1. /\ j \in 1 .. Len(q) /\ Len(q) - 1 \in 1 .. Len(q)
      /\ j = Len(q) - 1 \/ j < Len(q) - 1
  OBVIOUS
<1>2. q[Len(q) - 1] \notin own
  BY Zenon
<1>3. CASE j < Len(q) - 1
  <2>1. \A i, k \in 1 .. Len(q) : i < k /\ q[i] \in own => q[k] \in own
    BY Zenon DEF Ordered
  <2> QED BY <1>1, <1>2, <1>3, <2>1
<1> QED BY <1>1, <1>2, <1>3

\* A channel that has a head has descriptors.
LEMMA HeadIsFirst ==
    ASSUME NEW q, NEW c, NEW h, NEW m, NEW next, NEW own, NEW eoq,
           ChanOK(q, c, h, m, next, own, eoq)
    PROVE  /\ q \in Seq(Descs) /\ Len(q) \in Nat /\ (q = <<>> <=> Len(q) = 0)
           /\ q = <<>> <=> c.head = Nil
           /\ q # <<>> => /\ c.head = q[1] /\ c.head \in Elements(q) /\ 1 \in 1 .. Len(q)
                          /\ c.tail = q[Len(q)] /\ c.tail \in Elements(q) /\ Len(q) \in 1 .. Len(q)
<1>1. /\ q \in Seq(Descs) /\ Len(q) \in Nat /\ (q = <<>> <=> Len(q) = 0)
      /\ q # <<>> => 1 \in 1 .. Len(q) /\ Len(q) \in 1 .. Len(q)
  BY DEF ChanOK, Path
<1>2. \A i \in 1 .. Len(q) : q[i] \in Elements(q) /\ q[i] \in Descs
  BY <1>1, ElementsAre, Zenon
<1> QED BY <1>1, <1>2, NilApart, Zenon DEF ChanOK, Path

-----------------------------------------------------------------------------
(***************************************************************************)
(* Types.                                                                  *)
(***************************************************************************)

\* A call has the fields of a call.
LEMMA CallTyped ==
    ASSUME NEW op \in {"init", "send", "recv", "free"}, NEW at \in {"submit", "process"},
           NEW ch \in Channels, NEW b \in Buffers
    PROVE  Call(op, at, ch, b) \in Calls /\ Call(op, at, ch, b) # NoCall
<1>1. 1 \in 1 .. NumRx /\ Nil \in DescOrNil
  BY NumRxAssumption DEF DescOrNil
<1>2. Call(op, at, ch, b) \in Calls
  BY <1>1 DEF Call, Calls
<1>3. Call(op, at, ch, b).pc # NoCall.pc
  BY DEF Call, NoCall
<1> QED BY <1>2, <1>3, Zenon

\* A call that waits for an access is a call.
LEMMA InCall ==
    ASSUME CpswTypeOK, drv.pc # "idle"
    PROVE  /\ drv \in Calls /\ drv # NoCall /\ drv.ch \in Channels /\ drv.b \in Buffers
           /\ drv.d \in DescOrNil /\ drv.prev \in DescOrNil /\ drv.i \in 1 .. NumRx
           /\ drv.op \in {"init", "send", "recv", "free"}
           /\ drv.pc \in {"submit", "link", "eoq", "process", "hdp", "again"}
<1>1. NoCall.pc = "idle"
  BY DEF NoCall
<1>2. drv \in Calls /\ drv # NoCall
  BY <1>1, Zenon DEF CpswTypeOK
<1> QED BY <1>2 DEF Calls

\* A call is not NoCall.
LEMMA CallsBusy ==
    ASSUME NEW c \in Calls
    PROVE  c # NoCall /\ c.pc # "idle" /\ c.op # "none"
<1>1. NoCall.pc = "idle"
  BY DEF NoCall
<1>2. c.pc # "idle" /\ c.op # "none"
  BY DEF Calls
<1> QED BY <1>1, <1>2, Zenon

\* What follows a submission (Submitted).
LEMMA SubmittedIs ==
    ASSUME CpswTypeOK, drv.pc # "idle"
    PROVE  \/ Submitted = NoCall
           \/ /\ drv.op = "init" /\ Submitted \in Calls /\ Submitted.op = "init"
              /\ Submitted.pc = "submit" /\ Submitted.ch = "rx" /\ drv.i + 1 \in 1 .. NumRx
              /\ Submitted.b = drv.i + 1 /\ Submitted.i = drv.i + 1
<1>1. drv.i \in 1 .. NumRx
  BY InCall, Zenon
<1>2. CASE drv.op = "init" /\ drv.i < NumRx
  <2>1. drv.i + 1 \in 1 .. NumRx /\ drv.i + 1 \in Buffers /\ "rx" \in Channels
    BY <1>1, <1>2, NumRxAssumption DEF Buffers, Channels
  <2> DEFINE c == Call("init", "submit", "rx", drv.i + 1)
  <2>2. c \in Calls
    BY <2>1, CallTyped
  <2>3. c.op = "init" /\ c.pc = "submit" /\ c.ch = "rx" /\ c.b = drv.i + 1
    BY DEF Call
  <2>4. Submitted = [c EXCEPT !.i = drv.i + 1]
    BY <1>2 DEF Submitted
  <2> HIDE DEF c
  <2>5. /\ Submitted \in Calls /\ Submitted.op = c.op /\ Submitted.pc = c.pc
        /\ Submitted.ch = c.ch /\ Submitted.b = c.b /\ Submitted.i = drv.i + 1
    BY <2>1, <2>2, <2>4 DEF Calls
  <2> QED BY <1>2, <2>1, <2>3, <2>5, Zenon
<1>3. CASE ~(drv.op = "init" /\ drv.i < NumRx)
  BY <1>3, Zenon DEF Submitted
<1> QED BY <1>2, <1>3, Zenon

\* The records of a channel, of a descriptor and of the engine.
LEMMA RecordsTyped ==
    /\ Nil \in DescOrNil
    /\ Blank \in [next : DescOrNil, buf : Buffers, own : BOOLEAN, eoq : BOOLEAN]
    /\ DmaIdle \in [desc : DescOrNil, next : DescOrNil]
    /\ DmaIdle.desc = Nil
BY NumRxAssumption DEF DescOrNil, Blank, DmaIdle, Buffers, TxPacket, Nil

DescRecord == [next : DescOrNil, buf : Buffers, own : BOOLEAN, eoq : BOOLEAN]

\* dma_done writes the flags of one descriptor.
LEMMA DoneIs ==
    ASSUME CpswTypeOK, NEW ch \in Channels, dma_done(ch)
    PROVE  \E r \in DescRecord :
              /\ desc' = [desc EXCEPT ![dma[ch].desc] = r] /\ dma[ch].desc \in Descs
              /\ r.next = desc[dma[ch].desc].next /\ r.buf = desc[dma[ch].desc].buf
              /\ ~r.own /\ (r.eoq <=> dma[ch].next = Nil)
<1> DEFINE d == dma[ch].desc
           e == (dma[ch].next = Nil)
           r == [[desc[d] EXCEPT !.own = FALSE] EXCEPT !.eoq = e]
<1>1. d \in Descs
  BY DEF dma_done, CpswTypeOK, DescOrNil
<1>2. desc[d] \in DescRecord /\ desc \in [Descs -> DescRecord]
  BY <1>1 DEF CpswTypeOK, DescRecord
<1>3. desc' = [desc EXCEPT ![d].own = FALSE, ![d].eoq = e]
  BY Zenon DEF dma_done
<1>e. e \in BOOLEAN
  OBVIOUS
<1> HIDE DEF d, e
<1>4. r \in DescRecord
  BY <1>2, <1>e, Zenon DEF DescRecord
<1>5. desc' = [desc EXCEPT ![d] = [[desc[d] EXCEPT !.own = FALSE] EXCEPT !.eoq = e]]
  <2> DEFINE a == [desc EXCEPT ![d].own = FALSE]
  <2>1. DOMAIN a = Descs /\ a[d] = [desc[d] EXCEPT !.own = FALSE] /\ \A x \in Descs : x # d => a[x] = desc[x]
    BY <1>1, <1>2
  <2>2. desc' = [a EXCEPT ![d].eoq = e]
    BY <1>3
  <2> HIDE DEF a
  <2>3. desc' = [x \in Descs |-> IF x = d THEN [a[d] EXCEPT !.eoq = e] ELSE a[x]]
    BY <2>1, <2>2, Zenon
  <2>4. desc' = [x \in Descs |-> IF x = d THEN [[desc[d] EXCEPT !.own = FALSE] EXCEPT !.eoq = e] ELSE desc[x]]
    BY <2>1, <2>3
  <2> QED BY <1>1, <1>2, <2>4, Zenon
<1>7. desc' = [desc EXCEPT ![d] = r]
  BY <1>5, Zenon
<1>8. r.next = desc[d].next /\ r.buf = desc[d].buf /\ ~r.own /\ (r.eoq <=> e)
  BY <1>2 DEF DescRecord
<1> HIDE DEF r
<1>9. /\ r \in DescRecord /\ desc' = [desc EXCEPT ![d] = r] /\ d \in Descs
      /\ r.next = desc[d].next /\ r.buf = desc[d].buf /\ ~r.own /\ (r.eoq <=> e)
  BY <1>1, <1>4, <1>7, <1>8, Zenon
<1> QED BY <1>9, Zenon DEF d, e

\* Every step of the engine keeps the types.
LEMMA DmaTyped ==
    ASSUME CpswTypeOK, NEW ch \in Channels, dma_fetch(ch) \/ dma_done(ch)
    PROVE  CpswTypeOK'
<1>1. CASE dma_fetch(ch)
  <2>1. hdp[ch] \in Descs
    BY <1>1 DEF dma_fetch, CpswTypeOK, DescOrNil
  <2>2. dma' \in [Channels -> [desc : DescOrNil, next : DescOrNil]]
    BY <1>1, <2>1 DEF dma_fetch, CpswTypeOK
  <2> QED BY <1>1, <2>2, Zenon DEF dma_fetch, CpswTypeOK, queues, stack
<1>2. CASE dma_done(ch)
  <2>1. dma[ch].desc \in Descs /\ dma[ch].next \in DescOrNil
    BY <1>2 DEF dma_done, CpswTypeOK, DescOrNil
  <2>2. dma' \in [Channels -> [desc : DescOrNil, next : DescOrNil]]
    BY <1>2, RecordsTyped DEF dma_done, CpswTypeOK
  <2>3. hdp' \in [Channels -> DescOrNil]
    BY <1>2, <2>1 DEF dma_done, CpswTypeOK
  <2>4. desc' \in [Descs -> [next : DescOrNil, buf : Buffers, own : BOOLEAN, eoq : BOOLEAN]]
    <3>1. PICK r \in DescRecord : desc' = [desc EXCEPT ![dma[ch].desc] = r]
      BY <1>2, DoneIs, Zenon
    <3> QED BY <3>1, Zenon DEF CpswTypeOK, DescRecord
  <2> QED BY <1>2, <2>2, <2>3, <2>4, Zenon DEF dma_done, CpswTypeOK, stack
<1> QED BY <1>1, <1>2

\* Every access of cpdma_submit keeps the types.
LEMMA SubmitTyped ==
    ASSUME CpswTypeOK, submit_fails \/ cpdma_submit \/ submit_link \/ submit_eoq
    PROVE  CpswTypeOK'
<1>0. drv.pc # "idle"
  BY DEF submit_fails, cpdma_submit, submit_link, submit_eoq
<1>1. /\ drv \in Calls /\ drv.ch \in Channels /\ drv.b \in Buffers
      /\ drv.d \in DescOrNil /\ drv.prev \in DescOrNil
  BY <1>0, InCall, Zenon
<1>2. Submitted = NoCall \/ Submitted \in Calls
  BY <1>0, SubmittedIs, Zenon
<1>3. CASE submit_fails
  BY <1>3, Zenon DEF submit_fails, CpswTypeOK, queues, stack
<1>4. CASE cpdma_submit
  <2>1. free \in Descs
    BY <1>4 DEF cpdma_submit, CpswTypeOK, DescOrNil
  <2>2. free' \in DescOrNil
    BY <1>4, <2>1 DEF cpdma_submit, CpswTypeOK
  <2>3. desc' \in [Descs -> [next : DescOrNil, buf : Buffers, own : BOOLEAN, eoq : BOOLEAN]]
    BY <1>1, <1>4, RecordsTyped, Zenon DEF cpdma_submit, CpswTypeOK
  <2>4. chan' \in [Channels -> [head : DescOrNil, tail : DescOrNil]] /\ hdp' \in [Channels -> DescOrNil]
    BY <1>1, <1>4, <2>1, SMTT(20) DEF cpdma_submit, CpswTypeOK, DescOrNil
  <2>5. drv' = NoCall \/ drv' \in Calls
    <3>1. [drv EXCEPT !.pc = "link", !.d = free] \in Calls
      BY <1>1, <2>1, Zenon DEF Calls, DescOrNil
    <3> QED BY <1>2, <1>4, <3>1, Zenon DEF cpdma_submit
  <2>6. dma' = dma /\ active' = active /\ held' = held
    BY <1>4, Zenon DEF cpdma_submit, stack
  <2> QED BY <2>2, <2>3, <2>4, <2>5, <2>6, Zenon DEF CpswTypeOK
<1>5. CASE submit_link
  <2>1. desc' \in [Descs -> [next : DescOrNil, buf : Buffers, own : BOOLEAN, eoq : BOOLEAN]]
    BY <1>1, <1>5, Zenon DEF submit_link, CpswTypeOK
  <2>2. chan' \in [Channels -> [head : DescOrNil, tail : DescOrNil]]
    BY <1>1, <1>5 DEF submit_link, CpswTypeOK
  <2>3. drv' \in Calls
    <3>1. chan[drv.ch].tail \in DescOrNil
      BY <1>1 DEF CpswTypeOK
    <3>2. [drv EXCEPT !.pc = "eoq", !.prev = chan[drv.ch].tail] \in Calls
      BY <1>1, <3>1, Zenon DEF Calls
    <3> QED BY <1>5, <3>2, Zenon DEF submit_link
  <2> QED BY <1>5, <2>1, <2>2, <2>3, Zenon DEF submit_link, CpswTypeOK, stack
<1>6. CASE submit_eoq
  <2>1. hdp' \in [Channels -> DescOrNil]
    BY <1>1, <1>6 DEF submit_eoq, CpswTypeOK
  <2> QED BY <1>2, <1>6, <2>1, Zenon DEF submit_eoq, CpswTypeOK, stack
<1> QED BY <1>3, <1>4, <1>5, <1>6, Zenon

\* Every access of cpdma_process keeps the types.
LEMMA ProcessTyped ==
    ASSUME CpswTypeOK,
           process_empty \/ cpdma_process \/ process_owned \/ process_hdp \/ process_again
    PROVE  CpswTypeOK'
<1>0. drv.pc # "idle"
  BY DEF process_empty, cpdma_process, process_owned, process_hdp, process_again
<1>1. drv \in Calls /\ drv.ch \in Channels
  BY <1>0, InCall, Zenon
<1>2. Call("send", "submit", "tx", TxPacket) \in Calls
  <2>1. TxPacket \in Buffers /\ "tx" \in Channels
    BY NumRxAssumption DEF TxPacket, Buffers, Channels
  <2> QED BY <2>1, CallTyped
<1>3. NothingDone => (drv' = NoCall \/ drv' \in Calls) /\ held' = held /\ active' = active
  BY <1>2, Zenon DEF NothingDone
<1>4. CASE process_empty
  BY <1>3, <1>4, Zenon DEF process_empty, CpswTypeOK, queues
<1>5. CASE cpdma_process
  <2> DEFINE d == chan[drv.ch].head
  <2>1. d \in Descs
    BY <1>1, <1>5 DEF cpdma_process, CpswTypeOK, DescOrNil
  <2>2. desc[d].next \in DescOrNil /\ desc[d].buf \in Buffers
    BY <2>1, Zenon DEF CpswTypeOK
  <2>3. chan' \in [Channels -> [head : DescOrNil, tail : DescOrNil]]
    BY <1>1, <1>5, <2>2 DEF cpdma_process, CpswTypeOK
  <2>4. desc' \in [Descs -> [next : DescOrNil, buf : Buffers, own : BOOLEAN, eoq : BOOLEAN]]
    <3>1. [Blank EXCEPT !.next = free] \in [next : DescOrNil, buf : Buffers, own : BOOLEAN, eoq : BOOLEAN]
      BY RecordsTyped DEF CpswTypeOK
    <3>2. desc' = [desc EXCEPT ![d] = [Blank EXCEPT !.next = free]]
      BY <1>5, Zenon DEF cpdma_process
    <3> HIDE DEF d
    <3> QED BY <3>1, <3>2, Zenon DEF CpswTypeOK
  <2>5. free' \in DescOrNil
    BY <1>5, <2>1 DEF cpdma_process, DescOrNil
  <2>6. (drv' = NoCall \/ drv' \in Calls) /\ held' \in Buffers
    BY <1>1, <1>5, <2>2, Zenon DEF cpdma_process, CpswTypeOK
  <2> HIDE DEF d
  <2> QED BY <1>5, <2>3, <2>4, <2>5, <2>6, Zenon DEF cpdma_process, CpswTypeOK
<1>6. CASE process_owned
  <2>1. drv' \in Calls
    BY <1>1, <1>6 DEF process_owned, Calls
  <2> QED BY <1>6, <2>1, Zenon DEF process_owned, CpswTypeOK, queues, stack
<1>7. CASE process_hdp
  <2>1. [drv EXCEPT !.pc = "again"] \in Calls
    BY <1>1 DEF Calls
  <2>2. (drv' = NoCall \/ drv' \in Calls) /\ held' = held /\ active' = active
    BY <1>3, <1>7, <2>1, Zenon DEF process_hdp, stack
  <2> QED BY <1>7, <2>2, Zenon DEF process_hdp, CpswTypeOK, queues
<1>8. CASE process_again
  <2>1. hdp' \in [Channels -> DescOrNil]
    BY <1>1, <1>8 DEF process_again, CpswTypeOK
  <2> QED BY <1>3, <1>8, <2>1, Zenon DEF process_again, CpswTypeOK
<1> QED BY <1>4, <1>5, <1>6, <1>7, <1>8, Zenon

\* Every operation of the device keeps the types.
LEMMA DeviceTyped ==
    ASSUME CpswTypeOK, _cpsw_init \/ _cpsw_halt \/ _cpsw_send \/ _cpsw_recv \/ cpsw_eth_free_pkt
    PROVE  CpswTypeOK'
<1>0. /\ "rx" \in Channels /\ "tx" \in Channels /\ 1 \in Buffers /\ Nil \in Buffers /\ TxPacket \in Buffers
  BY NumRxAssumption DEF Channels, Buffers, Nil, TxPacket
<1>1. /\ \A b \in Buffers : Call("free", "submit", "rx", b) \in Calls
      /\ Call("init", "submit", "rx", 1) \in Calls
      /\ Call("send", "process", "tx", TxPacket) \in Calls
      /\ Call("recv", "process", "rx", Nil) \in Calls
  BY <1>0, CallTyped
<1>2. CASE _cpsw_init
  <2>1. desc' \in [Descs -> [next : DescOrNil, buf : Buffers, own : BOOLEAN, eoq : BOOLEAN]]
    <3>1. ASSUME NEW d \in Descs
          PROVE  [Blank EXCEPT !.next = IF d = 2 * NumRx THEN Nil ELSE d + 1]
                     \in [next : DescOrNil, buf : Buffers, own : BOOLEAN, eoq : BOOLEAN]
      <4>1. (IF d = 2 * NumRx THEN Nil ELSE d + 1) \in DescOrNil
        BY NumRxAssumption DEF DescOrNil, Descs
      <4> QED BY <4>1, RecordsTyped
    <3> QED BY <1>2, <3>1, Zenon DEF _cpsw_init
  <2>2. chan' \in [Channels -> [head : DescOrNil, tail : DescOrNil]]
    BY <1>2, RecordsTyped DEF _cpsw_init
  <2>3. hdp' \in [Channels -> DescOrNil] /\ dma' \in [Channels -> [desc : DescOrNil, next : DescOrNil]]
    BY <1>2, RecordsTyped DEF _cpsw_init
  <2>4. free' \in DescOrNil
    BY <1>2, NumRxAssumption DEF _cpsw_init, DescOrNil, Descs
  <2> QED BY <1>1, <1>2, <2>1, <2>2, <2>3, <2>4, Zenon DEF _cpsw_init, CpswTypeOK
<1>3. CASE _cpsw_halt
  <2>1. hdp' \in [Channels -> DescOrNil] /\ dma' \in [Channels -> [desc : DescOrNil, next : DescOrNil]]
    BY <1>3, RecordsTyped DEF _cpsw_halt
  <2> QED BY <1>3, <2>1, Zenon DEF _cpsw_halt, CpswTypeOK
<1>4. CASE _cpsw_send
  BY <1>1, <1>4, Zenon DEF _cpsw_send, CpswTypeOK, queues, stack
<1>5. CASE _cpsw_recv
  BY <1>1, <1>5, Zenon DEF _cpsw_recv, CpswTypeOK, queues, stack
<1>6. CASE cpsw_eth_free_pkt
  BY <1>0, <1>1, <1>6, Zenon DEF cpsw_eth_free_pkt, CpswTypeOK, queues
<1> QED BY <1>2, <1>3, <1>4, <1>5, <1>6, Zenon

-----------------------------------------------------------------------------
(***************************************************************************)
(* The fields after a descriptor was written, the places after one moved.  *)
(***************************************************************************)

\* Nothing is written.
LEMMA FieldsKept ==
    ASSUME desc' = desc
    PROVE  Nx' = Nx /\ Buf' = Buf /\ Own' = Own /\ Eoq' = Eoq
BY DEF Nx, Buf, Own, Eoq

\* One descriptor is written.
LEMMA FieldsSet ==
    ASSUME CpswTypeOK, NEW d \in Descs, NEW r \in DescRecord, desc' = [desc EXCEPT ![d] = r]
    PROVE  /\ Nx'[d] = r.next /\ Buf'[d] = r.buf
           /\ \A e \in Descs : e # d => Nx'[e] = Nx[e] /\ Buf'[e] = Buf[e]
           /\ Own' = (IF r.own THEN Own \cup {d} ELSE Own \ {d})
           /\ Eoq' = (IF r.eoq THEN Eoq \cup {d} ELSE Eoq \ {d})
<1>1. desc'[d] = r /\ \A e \in Descs : e # d => desc'[e] = desc[e]
  BY DEF CpswTypeOK
<1>2. \A e \in Descs : Nx'[e] = desc'[e].next /\ Nx[e] = desc[e].next
  BY Zenon DEF Nx
<1>3. \A e \in Descs : Buf'[e] = desc'[e].buf /\ Buf[e] = desc[e].buf
  BY Zenon DEF Buf
<1>4. \A e : e \in Own' <=> e \in Descs /\ desc'[e].own
  BY Zenon DEF Own
<1>5. \A e : e \in Own <=> e \in Descs /\ desc[e].own
  BY Zenon DEF Own
<1>6. \A e : e \in Eoq' <=> e \in Descs /\ desc'[e].eoq
  BY Zenon DEF Eoq
<1>7. \A e : e \in Eoq <=> e \in Descs /\ desc[e].eoq
  BY Zenon DEF Eoq
<1>8. Own' = IF r.own THEN Own \cup {d} ELSE Own \ {d}
  <2>1. CASE r.own
    BY <1>1, <1>4, <1>5, <2>1, Zenon
  <2>2. CASE ~r.own
    BY <1>1, <1>4, <1>5, <2>2, Zenon
  <2> QED BY <2>1, <2>2, Zenon
<1>9. Eoq' = IF r.eoq THEN Eoq \cup {d} ELSE Eoq \ {d}
  <2>1. CASE r.eoq
    BY <1>1, <1>6, <1>7, <2>1, Zenon
  <2>2. CASE ~r.eoq
    BY <1>1, <1>6, <1>7, <2>2, Zenon
  <2> QED BY <2>1, <2>2, Zenon
<1>10. Nx'[d] = r.next /\ \A e \in Descs : e # d => Nx'[e] = Nx[e]
  BY <1>1, <1>2
<1>11. Buf'[d] = r.buf /\ \A e \in Descs : e # d => Buf'[e] = Buf[e]
  BY <1>1, <1>3
<1> QED BY ONLY <1>8, <1>9, <1>10, <1>11, Zenon

In(at, p) == {x \in Descs : at[x] = p}

\* A descriptor goes from its place a to b.
MovesTo(at, d, a, b, at2) ==
    /\ at \in [Descs -> Places] /\ d \in Descs /\ b \in Places /\ at[d] = a
    /\ a # b /\ a # "none" /\ b # "none"
    /\ (\A x \in Descs : at[x] = "none") \/ (\A x \in Descs : at[x] # "none")
    /\ at2 = [at EXCEPT ![d] = b]

\* It is in b then, and every other one where it was.
LEMMA Moves ==
    ASSUME NEW at, NEW d, NEW a, NEW b, NEW at2, MovesTo(at, d, a, b, at2)
    PROVE  /\ at2 \in [Descs -> Places] /\ \A x \in Descs : at2[x] # "none"
           /\ In(at2, b) = In(at, b) \cup {d} /\ In(at2, a) = In(at, a) \ {d}
           /\ \A p : p # a /\ p # b => In(at2, p) = In(at, p)
<1>1. at2 \in [Descs -> Places] /\ at2[d] = b /\ \A x \in Descs : x # d => at2[x] = at[x]
  BY DEF MovesTo
<1>2. \A x \in Descs : at2[x] # "none"
  BY <1>1, Zenon DEF MovesTo
<1> QED BY <1>1, <1>2, Zenon DEF In, MovesTo

\* Which place a descriptor of a list has.
LEMMA PlaceOf ==
    ASSUME NEW pool \in Seq(Descs), NEW qs \in [Channels -> Seq(Descs)], NEW at, NEW taken,
           Placed(pool, qs, at, taken)
    PROVE  /\ \A d : d \in Elements(pool) <=> d \in Descs /\ at[d] = "pool"
           /\ \A ch \in Channels : \A d : d \in Elements(qs[ch]) <=> d \in Descs /\ at[d] = ch
           /\ \A d : d \in taken <=> d \in Descs /\ at[d] = "taken"
           /\ \A ch, c2 \in Channels : \A d : d \in Elements(qs[ch]) /\ d \in Elements(qs[c2]) => ch = c2
           /\ \A ch \in Channels : \A d : d \in Elements(qs[ch]) => d \notin Elements(pool) /\ d \notin taken
           /\ \A d : d \in Elements(pool) => d \notin taken
<1>1. /\ \A d : d \in Elements(pool) <=> d \in Descs /\ at[d] = "pool"
      /\ \A ch \in Channels : \A d : d \in Elements(qs[ch]) <=> d \in Descs /\ at[d] = ch
      /\ \A d : d \in taken <=> d \in Descs /\ at[d] = "taken"
  BY Zenon DEF Placed
<1>2. \A ch \in Channels : ch # "pool" /\ ch # "taken"
  BY DEF Channels
<1>3. "pool" # "taken"
  OBVIOUS
<1>4. \A ch, c2 \in Channels : \A d : d \in Elements(qs[ch]) /\ d \in Elements(qs[c2]) => ch = c2
  BY <1>1
<1>5. \A ch \in Channels : \A d : d \in Elements(qs[ch]) => d \notin Elements(pool) /\ d \notin taken
  BY <1>1, <1>2
<1>6. \A d : d \in Elements(pool) => d \notin taken
  BY <1>1, <1>3
<1> QED BY ONLY <1>1, <1>4, <1>5, <1>6, Zenon

\* A taken descriptor is being submitted.
LEMMA TakenIs ==
    /\ drv.pc = "link" => Taken = {drv.d}
    /\ drv.pc # "link" => Taken = {}
BY DEF Taken

-----------------------------------------------------------------------------
(***************************************************************************)
(* The invariant holds at first, and every step keeps it.                  *)
(***************************************************************************)

\* There is nothing anywhere before the device is started (CpswInit).
LEMMA CpswInitInv ==
    ASSUME CpswInit
    PROVE  CpswInv
<1> DEFINE qs == [ch \in Channels |-> <<>>]
           at == [d \in Descs |-> "none"]
<1>1. CpswTypeOK
  <2>1. desc \in [Descs -> [next : DescOrNil, buf : Buffers, own : BOOLEAN, eoq : BOOLEAN]]
    BY RecordsTyped, Zenon DEF CpswInit
  <2>2. chan \in [Channels -> [head : DescOrNil, tail : DescOrNil]]
    BY RecordsTyped DEF CpswInit
  <2>3. hdp \in [Channels -> DescOrNil] /\ dma \in [Channels -> [desc : DescOrNil, next : DescOrNil]]
    BY RecordsTyped, Zenon DEF CpswInit
  <2>4. active \in BOOLEAN /\ free \in DescOrNil /\ drv = NoCall
    BY RecordsTyped, Zenon DEF CpswInit
  <2>5. held \in Buffers
    BY NumRxAssumption DEF CpswInit, Buffers, Nil
  <2> QED BY <2>1, <2>2, <2>3, <2>4, <2>5, Zenon DEF CpswTypeOK
<1>2. Own = {} /\ Eoq = {}
  BY DEF CpswInit, Blank, Own, Eoq
<1>3. <<>> \in Seq(Descs) /\ Path(<<>>, Nil, Nx) /\ Inj(<<>>) /\ Elements(<<>>) = {} /\ Len(<<>>) = 0
  BY Empty
<1>4. qs \in [Channels -> Seq(Descs)] /\ at \in [Descs -> Places] /\ \A ch \in Channels : qs[ch] = <<>>
  BY <1>3 DEF Places
<1>5. drv.pc = "idle" /\ drv.op = "none" /\ drv = NoCall
  BY DEF CpswInit, NoCall
<1>6. Taken = {}
  BY <1>5, TakenIs
<1>7. Placed(<<>>, qs, at, {})
  BY <1>3, <1>4 DEF Placed, Channels
<1>8. ASSUME NEW ch \in Channels
      PROVE  ChanOK(<<>>, chan[ch], hdp[ch], dma[ch], Nx, Own, Eoq)
  <2>1. chan[ch].head = Nil /\ hdp[ch] = Nil /\ dma[ch].desc = Nil
    BY DEF CpswInit, DmaIdle
  <2>2. Ordered(<<>>, Own, Nil)
    BY <1>2 DEF Ordered
  <2> QED BY <1>3, <2>1, <2>2, Zenon DEF ChanOK, Fetched
<1>9. RxBufs(<<>>, Buf, held) /\ NewBuf(<<>>, Buf, drv, held)
  BY <1>3, <1>5 DEF RxBufs, NewBuf
<1> HIDE DEF qs, at
<1>10. "rx" \in Channels /\ free = Nil
  BY DEF Channels, CpswInit
<1>11. Lists(<<>>, qs, at)
  BY <1>2, <1>3, <1>4, <1>6, <1>7, <1>8, <1>10, Zenon DEF Lists
<1>12. Running(qs) /\ Bufs(qs)
  BY <1>4, <1>5, <1>9, <1>10, Zenon DEF Running, Bufs
<1> QED BY <1>1, <1>3, <1>4, <1>11, <1>12, Zenon DEF CpswInv

\* dma_fetch changes what the engine has read, and nothing else.
LEMMA FetchInv ==
    ASSUME CpswTypeOK, NEW pool \in Seq(Descs), NEW qs \in [Channels -> Seq(Descs)],
           NEW at \in [Descs -> Places], Lists(pool, qs, at), Running(qs), Bufs(qs),
           NEW ch \in Channels, dma_fetch(ch)
    PROVE  (Lists(pool, qs, at) /\ Running(qs) /\ Bufs(qs))'
<1>1. /\ desc' = desc /\ free' = free /\ chan' = chan /\ hdp' = hdp /\ drv' = drv
      /\ held' = held /\ doubled' = doubled
  BY Zenon DEF dma_fetch, queues, stack
<1>2. Nx' = Nx /\ Buf' = Buf /\ Own' = Own /\ Eoq' = Eoq
  BY <1>1, FieldsKept, Zenon
<1>3. Taken' = Taken
  BY <1>1, Zenon DEF Taken
<1>4. hdp[ch] \in Descs
  BY DEF dma_fetch, CpswTypeOK, DescOrNil
<1>5. /\ dma'[ch].desc = hdp[ch] /\ dma'[ch].next = desc[hdp[ch]].next
      /\ \A c2 \in Channels : c2 # ch => dma'[c2] = dma[c2]
  BY DEF dma_fetch, CpswTypeOK
<1>6. dma'[ch].next = Nx[hdp[ch]]
  BY <1>4, <1>5, Zenon DEF Nx
<1>7. ASSUME NEW c2 \in Channels
      PROVE  ChanOK(qs[c2], chan[c2], hdp[c2], dma'[c2], Nx, Own, Eoq)
  <2>0. ChanOK(qs[c2], chan[c2], hdp[c2], dma[c2], Nx, Own, Eoq)
    BY Zenon DEF Lists
  <2>1. CASE c2 = ch
    BY <1>5, <1>6, <2>0, <2>1, ChanFetch, Zenon
  <2>2. CASE c2 # ch
    BY <1>5, <2>0, <2>2, Zenon
  <2> QED BY <2>1, <2>2, Zenon
<1>8. Lists(pool, qs, at)'
  BY <1>1, <1>2, <1>3, <1>7, Zenon DEF Lists
<1> QED BY <1>1, <1>2, <1>8, Zenon DEF Running, Bufs

\* What a call has seen of a queue stays when other descriptors change.
LEMMA CallFrame ==
    ASSUME NEW q \in Seq(Descs), NEW h, NEW call, NEW own, NEW eoq, NEW own2, NEW eoq2,
           CallOK(q, h, call, own, eoq),
           \A e \in Elements(q) : (e \in own2 <=> e \in own) /\ (e \in eoq2 <=> e \in eoq)
    PROVE  CallOK(q, h, call, own2, eoq2)
<1>1. Len(q) >= 2 => q[Len(q)] \in Elements(q) /\ q[Len(q) - 1] \in Elements(q)
  <2>1. Len(q) >= 2 => Len(q) \in 1 .. Len(q) /\ Len(q) - 1 \in 1 .. Len(q)
    OBVIOUS
  <2> QED BY <2>1, ElementsAre, Zenon
<1>2. call.pc = "eoq" => call.d \in Elements(q) /\ call.prev \in Elements(q)
  BY <1>1, Zenon DEF CallOK
<1> QED BY <1>2, Zenon DEF CallOK

\* What a call has seen of a queue stays when the engine is done with a
\* descriptor of it.
LEMMA CallDone ==
    ASSUME NEW q, NEW c, NEW h, NEW m, NEW next, NEW own, NEW eoq, NEW own2, NEW eoq2, NEW call,
           ChanOK(q, c, h, m, next, own, eoq), m.desc # Nil,
           DoneFlags(m, own, eoq, own2, eoq2),
           CallOK(q, h, call, own, eoq)
    PROVE  CallOK(q, m.next, call, own2, eoq2)
<1> USE DEF DoneFlags
<1>0. q \in Seq(Descs) /\ Len(q) \in Nat
  BY DEF ChanOK, Path
<1>1. m.desc = h /\ h # Nil
  BY Zenon DEF ChanOK, Fetched
<1>2. h \in own
  BY <1>1, Zenon DEF ChanOK, Ordered
<1>3. call.pc # "again"
  BY <1>1, Zenon DEF CallOK
<1>4. ASSUME call.pc = "eoq", call.prev \in eoq2 PROVE m.next = Nil /\ call.d \in own2
  <2>1. Len(q) >= 2 /\ call.d = q[Len(q)] /\ call.prev = q[Len(q) - 1]
    BY <1>4, Zenon DEF CallOK
  <2>2. call.prev \notin eoq
    BY <1>1, <1>4, Zenon DEF CallOK
  <2>3. m.next = Nil /\ call.prev = h
    BY <1>1, <1>4, <2>2, Zenon
  <2>4. Len(q) \in 1 .. Len(q) /\ Len(q) - 1 \in 1 .. Len(q) /\ Len(q) - 1 < Len(q) /\ Len(q) # Len(q) - 1
    BY <1>0, <2>1
  <2>5. q[Len(q)] \in own
    <3>1. \A i, j \in 1 .. Len(q) : i < j /\ q[i] \in own => q[j] \in own
      BY Zenon DEF ChanOK, Ordered
    <3> QED BY <1>2, <2>1, <2>3, <2>4, <3>1, Zenon
  <2>6. q[Len(q)] # q[Len(q) - 1]
    <3>1. \A i, j \in 1 .. Len(q) : q[i] = q[j] => i = j
      BY Zenon DEF ChanOK, Inj
    <3> QED BY <2>4, <3>1
  <2> QED BY <1>1, <2>1, <2>3, <2>5, <2>6, Zenon
<1> QED BY <1>3, <1>4, Zenon DEF CallOK

\* dma_done leaves the engine at the next descriptor it owns, or stopped with
\* EOQ where it read no successor.
LEMMA DoneInv ==
    ASSUME CpswTypeOK, NEW pool \in Seq(Descs), NEW qs \in [Channels -> Seq(Descs)],
           NEW at \in [Descs -> Places], Lists(pool, qs, at), Running(qs), Bufs(qs),
           NEW ch \in Channels, dma_done(ch)
    PROVE  (Lists(pool, qs, at) /\ Running(qs) /\ Bufs(qs))'
<1> DEFINE d == dma[ch].desc
<1>1. /\ free' = free /\ chan' = chan /\ drv' = drv /\ held' = held /\ doubled' = doubled
      /\ d # Nil
  BY Zenon DEF dma_done, stack
<1>2. PICK r \in DescRecord :
          /\ desc' = [desc EXCEPT ![d] = r] /\ d \in Descs
          /\ r.next = desc[d].next /\ r.buf = desc[d].buf
          /\ ~r.own /\ (r.eoq <=> dma[ch].next = Nil)
  BY DoneIs, Zenon
<1>3. /\ dma'[ch].desc = Nil /\ hdp'[ch] = dma[ch].next
      /\ \A c2 \in Channels : c2 # ch => dma'[c2] = dma[c2] /\ hdp'[c2] = hdp[c2]
  BY RecordsTyped DEF dma_done, CpswTypeOK
<1> HIDE DEF d
<1>4. Own' = Own \ {d}
  BY <1>2, FieldsSet, Zenon
<1>5. Eoq' = IF dma[ch].next = Nil THEN Eoq \cup {d} ELSE Eoq \ {d}
  <2>1. Eoq' = IF r.eoq THEN Eoq \cup {d} ELSE Eoq \ {d}
    BY <1>2, FieldsSet, Zenon
  <2> QED BY <1>2, <2>1, Zenon
<1>6. Nx' = Nx
  <2>1. \A e \in Descs : Nx'[e] = Nx[e]
    <3>1. Nx'[d] = r.next /\ \A e \in Descs : e # d => Nx'[e] = Nx[e]
      BY <1>2, FieldsSet, Zenon
    <3>2. Nx[d] = r.next
      BY <1>2, Zenon DEF Nx
    <3> QED BY <3>1, <3>2, Zenon
  <2>2. Nx' = [e \in Descs |-> Nx'[e]] /\ Nx = [e \in Descs |-> Nx[e]]
    BY DEF Nx
  <2> QED BY <2>1, <2>2
<1>7. Buf' = Buf
  <2>1. \A e \in Descs : Buf'[e] = Buf[e]
    <3>1. Buf'[d] = r.buf /\ \A e \in Descs : e # d => Buf'[e] = Buf[e]
      BY <1>2, FieldsSet, Zenon
    <3>2. Buf[d] = r.buf
      BY <1>2, Zenon DEF Buf
    <3> QED BY <3>1, <3>2, Zenon
  <2>2. Buf' = [e \in Descs |-> Buf'[e]] /\ Buf = [e \in Descs |-> Buf[e]]
    BY DEF Buf
  <2> QED BY <2>1, <2>2
<1>8. Taken' = Taken
  BY <1>1, Zenon DEF Taken
<1>9. /\ ChanOK(qs[ch], chan[ch], hdp[ch], dma[ch], Nx, Own, Eoq) /\ Placed(pool, qs, at, Taken)
      /\ Own \cap Eoq = {} /\ \A c2 \in Channels : ChanOK(qs[c2], chan[c2], hdp[c2], dma[c2], Nx, Own, Eoq)
  BY Zenon DEF Lists
<1>10. d \in Elements(qs[ch])
  <2>1. d = hdp[ch]
    BY <1>1, <1>9, Zenon DEF ChanOK, Fetched, d
  <2>2. \E i \in 1 .. Len(qs[ch]) : qs[ch][i] = d
    BY <1>1, <1>9, <2>1, Zenon DEF ChanOK, Ordered
  <2> QED BY <2>2, ElementsAre, Zenon
<1>11. \A c2 \in Channels : c2 # ch => d \notin Elements(qs[c2])
  BY <1>9, <1>10, PlaceOf, Zenon
<1>f. DoneFlags(dma[ch], Own, Eoq, Own', Eoq') /\ dma[ch].desc # Nil
  BY <1>1, <1>4, <1>5, Zenon DEF DoneFlags, d
<1>12. ChanOK(qs[ch], chan[ch], dma[ch].next, dma'[ch], Nx, Own', Eoq')
  BY <1>3, <1>9, <1>f, ChanDone, Zenon
<1>13. ASSUME NEW c2 \in Channels, c2 # ch
       PROVE  \A e \in Elements(qs[c2]) : (e \in Own' <=> e \in Own) /\ (e \in Eoq' <=> e \in Eoq)
  BY <1>4, <1>5, <1>11, <1>13, Zenon
<1>14. ASSUME NEW c2 \in Channels
       PROVE  ChanOK(qs[c2], chan[c2], hdp'[c2], dma'[c2], Nx, Own', Eoq')
  <2>1. CASE c2 = ch
    BY <1>3, <1>12, <2>1, Zenon
  <2>2. CASE c2 # ch
    <3>1. Same(qs[c2], Nx, Own, Eoq, Nx, Own', Eoq')
      BY <1>13, <2>2, Zenon DEF Same
    <3>2. ChanOK(qs[c2], chan[c2], hdp[c2], dma[c2], Nx, Own', Eoq')
      BY <1>9, <3>1, ChanFrame, Zenon
    <3> QED BY <1>3, <2>2, <3>2, Zenon
  <2> QED BY <2>1, <2>2, Zenon
<1>15. Own' \cap Eoq' = {}
  BY <1>4, <1>5, <1>9, Zenon
<1>16. Lists(pool, qs, at)'
  BY <1>1, <1>6, <1>8, <1>14, <1>15, Zenon DEF Lists
<1>17. Running(qs)'
  <2> SUFFICES ASSUME drv # NoCall
               PROVE  /\ OpsOK(drv, held) /\ TakenOK(drv, Nx, Own', Eoq')
                      /\ CallOK(qs[drv.ch], hdp'[drv.ch], drv, Own', Eoq')
    BY <1>1, <1>6, Zenon DEF Running
  <2>1. /\ OpsOK(drv, held) /\ TakenOK(drv, Nx, Own, Eoq)
        /\ CallOK(qs[drv.ch], hdp[drv.ch], drv, Own, Eoq)
    BY Zenon DEF Running
  <2>2. drv.ch \in Channels
    BY DEF CpswTypeOK, Calls
  <2>3. TakenOK(drv, Nx, Own', Eoq')
    <3>1. drv.pc = "link" => drv.d # d
      <4>1. d \notin Taken
        BY <1>9, <1>10, PlaceOf, Zenon
      <4> QED BY <4>1, TakenIs
    <3> QED BY <1>4, <1>5, <2>1, <3>1, Zenon DEF TakenOK
  <2>4. CASE drv.ch = ch
    <3>1. CallOK(qs[ch], dma[ch].next, drv, Own', Eoq')
      <4>1. CallOK(qs[ch], hdp[ch], drv, Own, Eoq)
        BY <2>1, <2>4, Zenon
      <4> QED BY <1>9, <1>f, <4>1, CallDone, Zenon
    <3> QED BY <1>3, <2>1, <2>3, <2>4, <3>1, Zenon
  <2>5. CASE drv.ch # ch
    <3>1. \A e \in Elements(qs[drv.ch]) : (e \in Own' <=> e \in Own) /\ (e \in Eoq' <=> e \in Eoq)
      BY <1>13, <2>2, <2>5, Zenon
    <3>2. qs[drv.ch] \in Seq(Descs)
      BY <2>2, ZenonT(40)
    <3>3. CallOK(qs[drv.ch], hdp[drv.ch], drv, Own', Eoq')
      BY <2>1, <3>1, <3>2, CallFrame
    <3> QED BY <1>3, <2>1, <2>2, <2>3, <2>5, <3>3, Zenon
  <2> QED BY <2>4, <2>5, Zenon
<1>18. Bufs(qs)'
  BY <1>1, <1>7, Zenon DEF Bufs
<1> QED BY <1>16, <1>17, <1>18, Zenon

\* A step that leaves the queues and the engine alone.
LEMMA ListsKept ==
    ASSUME NEW pool, NEW qs, NEW at, Lists(pool, qs, at), desc' = desc, free' = free,
           chan' = chan, hdp' = hdp, dma' = dma, Taken' = Taken
    PROVE  Lists(pool, qs, at)' /\ Nx' = Nx /\ Buf' = Buf /\ Own' = Own /\ Eoq' = Eoq
<1>1. Nx' = Nx /\ Buf' = Buf /\ Own' = Own /\ Eoq' = Eoq
  BY FieldsKept, Zenon
<1> QED BY <1>1, Zenon DEF Lists

\* No call has no buffer.
LEMMA NoNewBuf ==
    ASSUME NEW rx, NEW buf, NEW call, NEW h, call.op \notin {"init", "free"}
    PROVE  NewBuf(rx, buf, call, h)
<1>1. call.op # "init"
  OBVIOUS
<1> QED BY <1>1, Zenon DEF NewBuf

\* What follows a submission has seen nothing of the queues yet.
LEMMA SubmittedRuns ==
    ASSUME CpswTypeOK, drv.pc # "idle", NEW q, NEW h, NEW h2, NEW next, NEW own, NEW eoq
    PROVE  /\ Submitted.pc # "link"
           /\ Submitted # NoCall =>
                  /\ OpsOK(Submitted, h2) /\ TakenOK(Submitted, next, own, eoq)
                  /\ CallOK(q, h, Submitted, own, eoq)
<1>1. CASE Submitted = NoCall
  BY <1>1 DEF NoCall
<1>2. CASE Submitted # NoCall
  <2>1. Submitted.op = "init" /\ Submitted.pc = "submit" /\ Submitted.ch = "rx"
    BY <1>2, SubmittedIs, Zenon
  <2>2. OpsOK(Submitted, h2)
    BY <2>1 DEF OpsOK
  <2>3. TakenOK(Submitted, next, own, eoq) /\ CallOK(q, h, Submitted, own, eoq)
    BY <2>1 DEF TakenOK, CallOK
  <2> QED BY <2>1, <2>2, <2>3
<1> QED BY <1>1, <1>2, Zenon

\* _cpsw_init goes on with a buffer above those it submitted.
LEMMA SubmittedBufs ==
    ASSUME CpswTypeOK, drv.pc # "idle", NEW rx, NEW buf, NEW h, RxBufs(rx, buf, h),
           drv.op = "init" => h = Nil /\ \A d \in Elements(rx) : buf[d] <= drv.i
    PROVE  NewBuf(rx, buf, Submitted, h)
<1>1. CASE Submitted = NoCall
  <2>1. Submitted.op \notin {"init", "free"}
    BY <1>1 DEF NoCall
  <2> QED BY <2>1, NoNewBuf, Zenon
<1>2. CASE Submitted # NoCall
  <2>1. /\ drv.op = "init" /\ Submitted.op = "init" /\ Submitted.pc = "submit"
        /\ Submitted.b = drv.i + 1 /\ Submitted.i = drv.i + 1 /\ drv.i + 1 \in 1 .. NumRx
    BY <1>2, SubmittedIs, Zenon
  <2>2. drv.i \in 1 .. NumRx
    BY InCall, Zenon
  <2>3. ASSUME NEW d \in Elements(rx) PROVE buf[d] # drv.i + 1 /\ buf[d] <= drv.i + 1
    <3>1. buf[d] \in 1 .. NumRx /\ buf[d] <= drv.i
      BY <2>1, Zenon DEF RxBufs
    <3> QED BY <2>2, <3>1, NumRxAssumption
  <2>4. "submit" # "link"
    OBVIOUS
  <2> QED BY <2>1, <2>3, <2>4, Zenon DEF NewBuf
<1> QED BY <1>1, <1>2, Zenon

\* The descriptors q have the same buffers in both.
SameBuf(q, buf, buf2) == \A e \in Elements(q) : buf2[e] = buf[e]

\* The buffers of the receive queue depend on its descriptors only.
LEMMA RxFrame ==
    ASSUME NEW rx \in Seq(Descs), NEW buf, NEW buf2, NEW h, RxBufs(rx, buf, h), SameBuf(rx, buf, buf2)
    PROVE  RxBufs(rx, buf2, h)
<1>1. \A i \in 1 .. Len(rx) : rx[i] \in Elements(rx)
  BY ElementsAre, Zenon
<1>2. \A i \in 1 .. Len(rx) : buf2[rx[i]] = buf[rx[i]]
  BY <1>1, Zenon DEF SameBuf
<1>3. \A i, j \in 1 .. Len(rx) : buf2[rx[i]] = buf2[rx[j]] => i = j
  <2> SUFFICES ASSUME NEW i \in 1 .. Len(rx), NEW j \in 1 .. Len(rx), buf2[rx[i]] = buf2[rx[j]]
               PROVE  i = j
    OBVIOUS
  <2>1. buf[rx[i]] = buf[rx[j]]
    BY <1>2
  <2> QED BY <2>1, Zenon DEF RxBufs
<1>4. \A d \in Elements(rx) : buf2[d] \in 1 .. NumRx /\ buf2[d] # h
  BY Zenon DEF RxBufs, SameBuf
<1> QED BY <1>3, <1>4, Zenon DEF RxBufs

\* A buffer that is nowhere in the queue is appended to it.
LEMMA RxAppend ==
    ASSUME NEW rx \in Seq(Descs), NEW buf, NEW h, NEW d \in Descs, RxBufs(rx, buf, h),
           buf[d] \in 1 .. NumRx, buf[d] # h, \A e \in Elements(rx) : buf[e] # buf[d]
    PROVE  RxBufs(Append(rx, d), buf, h)
<1> DEFINE t == Append(rx, d)
           n == Len(rx)
<1>1. /\ t \in Seq(Descs) /\ Len(t) = n + 1 /\ n \in Nat /\ t[n + 1] = d
      /\ \A i \in 1 .. n : t[i] = rx[i]
  OBVIOUS
<1>2. \A i \in 1 .. n : rx[i] \in Elements(rx)
  BY ElementsAre, Zenon
<1>3. \A i, j \in 1 .. n : buf[rx[i]] = buf[rx[j]] => i = j
  BY Zenon DEF RxBufs
<1> HIDE DEF t, n
<1>4. \A i \in 1 .. Len(t) : i = n + 1 \/ i \in 1 .. n
  BY <1>1
<1>5. ASSUME NEW i \in 1 .. Len(t), NEW j \in 1 .. Len(t), buf[t[i]] = buf[t[j]]
      PROVE  i = j
  <2>0. ASSUME NEW k \in 1 .. Len(t), k # n + 1
        PROVE  k \in 1 .. n /\ buf[t[k]] = buf[rx[k]] /\ buf[t[k]] # buf[d]
    <3>1. k \in 1 .. n
      BY <1>4, <2>0, Zenon
    <3>2. t[k] = rx[k] /\ rx[k] \in Elements(rx)
      BY <1>1, <1>2, <3>1, Zenon
    <3>3. buf[rx[k]] # buf[d]
      BY <3>2, Zenon
    <3> QED BY <3>1, <3>2, <3>3
  <2>1. CASE i = n + 1 \/ j = n + 1
    BY <1>1, <1>5, <2>0, <2>1
  <2>2. CASE i # n + 1 /\ j # n + 1
    <3>1. i \in 1 .. n /\ j \in 1 .. n /\ buf[rx[i]] = buf[rx[j]]
      BY <1>5, <2>0, <2>2
    <3> QED BY <1>3, <3>1, Zenon
  <2> QED BY <2>1, <2>2, Zenon
<1>6. ASSUME NEW e \in Elements(t) PROVE buf[e] \in 1 .. NumRx /\ buf[e] # h
  <2>1. PICK i \in 1 .. Len(t) : t[i] = e
    BY <1>1, ElementsAre, Zenon
  <2>2. e = d \/ e \in Elements(rx)
    BY <1>1, <1>2, <1>4, <2>1, Zenon
  <2> QED BY <2>2, Zenon DEF RxBufs
<1>7. RxBufs(t, buf, h)
  BY <1>5, <1>6, Zenon DEF RxBufs
<1> QED BY <1>7, Zenon DEF t

\* One buffer alone.
LEMMA RxSingle ==
    ASSUME NEW buf, NEW h, NEW d \in Descs, buf[d] \in 1 .. NumRx, buf[d] # h
    PROVE  RxBufs(<<d>>, buf, h)
<1>1. Len(<<d>>) = 1 /\ \A i, j \in 1 .. 1 : i = j
  OBVIOUS
<1>2. Elements(<<d>>) = {d}
  <2>1. [x \in Descs |-> Nil][d] = Nil
    OBVIOUS
  <2> QED BY <2>1, Single, Zenon
<1> QED BY <1>1, <1>2, Zenon DEF RxBufs

\* Which operation submits on which channel.
LEMMA SubmitsOn ==
    ASSUME CpswTypeOK, drv.pc \in {"submit", "link", "eoq"}, OpsOK(drv, held)
    PROVE  /\ drv.ch = "rx" => drv.op \in {"init", "free"}
           /\ drv.ch # "rx" => drv.op = "send"
<1>1. drv.op \in {"init", "send", "recv", "free"}
  BY InCall
<1> QED BY <1>1 DEF OpsOK

\* There is no descriptor: the call ends.
LEMMA SubmitFailsInv ==
    ASSUME CpswTypeOK, NEW pool \in Seq(Descs), NEW qs \in [Channels -> Seq(Descs)],
           NEW at \in [Descs -> Places], Lists(pool, qs, at), Running(qs), Bufs(qs), submit_fails
    PROVE  (Lists(pool, qs, at) /\ Running(qs) /\ Bufs(qs))'
<1>1. /\ desc' = desc /\ free' = free /\ chan' = chan /\ hdp' = hdp /\ dma' = dma /\ held' = held
      /\ doubled' = doubled /\ drv' = NoCall /\ drv.pc = "submit"
  BY Zenon DEF submit_fails, queues, stack
<1>2. drv'.pc = "idle" /\ drv'.op = "none"
  BY <1>1 DEF NoCall
<1>3. Taken' = Taken
  BY <1>1, <1>2 DEF Taken
<1>4. Lists(pool, qs, at)' /\ Buf' = Buf
  BY <1>1, <1>3, ListsKept, Zenon
<1>5. drv'.op \notin {"init", "free"}
  BY <1>2
<1>6. NewBuf(qs["rx"], Buf, drv', held)
  BY <1>5, NoNewBuf, Zenon
<1> QED BY <1>1, <1>4, <1>6, Zenon DEF Running, Bufs

\* cpdma_submit takes the first descriptor of the pool and fills it.
LEMMA SubmitTakes ==
    ASSUME CpswTypeOK, NEW pool \in Seq(Descs), NEW qs \in [Channels -> Seq(Descs)],
           NEW at \in [Descs -> Places], Lists(pool, qs, at), cpdma_submit
    PROVE  /\ free \in Descs /\ at[free] = "pool" /\ drv.ch \in Channels
           /\ \A ch \in Channels : free \notin Elements(qs[ch])
           /\ Tail(pool) \in Seq(Descs) /\ Path(Tail(pool), free', Nx') /\ Inj(Tail(pool))
           /\ Elements(Tail(pool)) = In(at, "pool") \ {free}
           /\ Nx'[free] = Nil /\ Buf'[free] = drv.b
           /\ \A e \in Descs : e # free => Nx'[e] = Nx[e] /\ Buf'[e] = Buf[e]
           /\ Own' = Own \cup {free} /\ Eoq' = Eoq \ {free} /\ Own' \cap Eoq' = {}
           /\ \A ch \in Channels : ChanOK(qs[ch], chan[ch], hdp[ch], dma[ch], Nx', Own', Eoq')
           /\ \A ch \in Channels : SameBuf(qs[ch], Buf, Buf')
<1> DEFINE d == free
           r == [next |-> Nil, buf |-> drv.b, own |-> TRUE, eoq |-> FALSE]
<1>0. /\ drv.pc # "idle" /\ free # Nil /\ free' = desc[d].next /\ desc' = [desc EXCEPT ![d] = r]
  BY DEF cpdma_submit
<1>1. drv.b \in Buffers /\ drv.ch \in Channels
  BY <1>0, InCall, Zenon
<1>2. r \in DescRecord /\ r.next = Nil /\ r.buf = drv.b /\ r.own /\ ~r.eoq
  BY <1>1, RecordsTyped DEF DescRecord
<1> HIDE DEF r
<1>3. /\ Path(pool, free, Nx) /\ Inj(pool) /\ Placed(pool, qs, at, Taken) /\ Own \cap Eoq = {}
      /\ \A ch \in Channels : ChanOK(qs[ch], chan[ch], hdp[ch], dma[ch], Nx, Own, Eoq)
  BY Zenon DEF Lists
<1>4. /\ d \in Descs /\ Path(Tail(pool), Nx[d], Nx) /\ Inj(Tail(pool))
      /\ Elements(pool) = Elements(Tail(pool)) \cup {d} /\ d \notin Elements(Tail(pool))
  BY <1>0, <1>3, Popped, Zenon
<1>5. at[d] = "pool" /\ \A ch \in Channels : d \notin Elements(qs[ch])
  BY <1>3, <1>4, PlaceOf, Zenon
<1>6. /\ Nx'[d] = Nil /\ Buf'[d] = drv.b
      /\ \A e \in Descs : e # d => Nx'[e] = Nx[e] /\ Buf'[e] = Buf[e]
  BY <1>0, <1>2, <1>4, FieldsSet, Zenon
<1>7. Own' = Own \cup {d} /\ Eoq' = Eoq \ {d}
  <2>1. Own' = (IF r.own THEN Own \cup {d} ELSE Own \ {d}) /\ Eoq' = (IF r.eoq THEN Eoq \cup {d} ELSE Eoq \ {d})
    BY <1>0, <1>2, <1>4, FieldsSet, Zenon
  <2> QED BY <1>2, <2>1, Zenon
<1>8. Own' \cap Eoq' = {}
  BY <1>3, <1>7, Zenon
<1>9. Elements(Tail(pool)) = In(at, "pool") \ {d}
  BY <1>3, <1>4, Zenon DEF Placed, In
<1>10. Tail(pool) \in Seq(Descs)
  BY <1>4, Zenon DEF Path
<1>11. Path(Tail(pool), free', Nx')
  <2>1. SameNext(Elements(Tail(pool)), Nx, Nx')
    BY <1>4, <1>6, <1>10, ElementsAre, Zenon DEF SameNext
  <2>2. free' = Nx[d]
    BY <1>0, <1>4, Zenon DEF Nx
  <2> QED BY <1>4, <2>1, <2>2, PathFrame, Zenon
<1>12. ASSUME NEW ch \in Channels
       PROVE  /\ ChanOK(qs[ch], chan[ch], hdp[ch], dma[ch], Nx', Own', Eoq')
              /\ SameBuf(qs[ch], Buf, Buf')
  <2>0. \A e \in Elements(qs[ch]) : e \in Descs /\ e # d
    <3>1. qs[ch] \in Seq(Descs)
      BY Zenon
    <3>2. Elements(qs[ch]) \subseteq Descs
      BY <3>1, ElementsAre, Zenon
    <3> QED BY <1>5, <3>2, Zenon
  <2>1. Same(qs[ch], Nx, Own, Eoq, Nx', Own', Eoq')
    BY <1>6, <1>7, <2>0, Zenon DEF Same
  <2>2. SameBuf(qs[ch], Buf, Buf')
    BY <1>6, <2>0, Zenon DEF SameBuf
  <2>3. ChanOK(qs[ch], chan[ch], hdp[ch], dma[ch], Nx, Own, Eoq)
    BY <1>3, Zenon
  <2> QED BY <2>1, <2>2, <2>3, ChanFrame, Zenon
<1> QED BY <1>1, <1>4, <1>5, <1>6, <1>7, <1>8, <1>9, <1>10, <1>11, <1>12, Zenon

\* An empty queue is started with the new descriptor (cpdma_submit, chan->head
\* is 0).
LEMMA SubmitStartsInv ==
    ASSUME CpswTypeOK, NEW pool \in Seq(Descs), NEW qs \in [Channels -> Seq(Descs)],
           NEW at \in [Descs -> Places], Lists(pool, qs, at), Running(qs), Bufs(qs),
           cpdma_submit, chan[drv.ch].head = Nil, NEW ch, ch = drv.ch, NEW d, d = free
    PROVE  \E pool2 \in Seq(Descs), qs2 \in [Channels -> Seq(Descs)], at2 \in [Descs -> Places] :
              (Lists(pool2, qs2, at2) /\ Running(qs2) /\ Bufs(qs2))'
<1> DEFINE qs2 == [qs EXCEPT ![ch] = <<d>>]
           at2 == [at EXCEPT ![d] = ch]
           pool2 == Tail(pool)
<1>0. /\ drv.pc = "submit" /\ drv.pc # "idle" /\ drv' = Submitted /\ dma' = dma
      /\ held' = held /\ doubled' = doubled
  BY DEF cpdma_submit, stack
<1>1. /\ d \in Descs /\ at[d] = "pool" /\ ch \in Channels
      /\ pool2 \in Seq(Descs) /\ Path(pool2, free', Nx') /\ Inj(pool2)
      /\ Elements(pool2) = In(at, "pool") \ {d}
      /\ Nx'[d] = Nil /\ Buf'[d] = drv.b /\ Own' = Own \cup {d} /\ Eoq' = Eoq \ {d} /\ Own' \cap Eoq' = {}
      /\ \A c2 \in Channels : /\ ChanOK(qs[c2], chan[c2], hdp[c2], dma[c2], Nx', Own', Eoq')
                              /\ SameBuf(qs[c2], Buf, Buf')
  BY SubmitTakes, Zenon
<1>2. /\ chan'[ch].head = d /\ chan'[ch].tail = d /\ hdp'[ch] = d
      /\ \A c2 \in Channels : c2 # ch => chan'[c2] = chan[c2] /\ hdp'[c2] = hdp[c2]
  BY <1>1 DEF cpdma_submit, CpswTypeOK
<1>3. /\ Placed(pool, qs, at, Taken) /\ OpsOK(drv, held) /\ chan[ch].head = Nil
      /\ ~doubled => RxBufs(qs["rx"], Buf, held) /\ NewBuf(qs["rx"], Buf, drv, held)
  <2>1. drv # NoCall
    BY <1>0, InCall, Zenon
  <2> QED BY <2>1, Zenon DEF Lists, Running, Bufs
<1>4. /\ <<d>> \in Seq(Descs) /\ Elements(<<d>>) = {d}
  BY <1>1, Single, Zenon
<1>5. /\ qs2 \in [Channels -> Seq(Descs)] /\ qs2[ch] = <<d>>
      /\ \A c2 \in Channels : c2 # ch => qs2[c2] = qs[c2]
  BY <1>1, <1>4, Zenon
<1> HIDE DEF pool2, qs2
<1>6. qs[ch] = <<>> /\ ChanOK(<<d>>, chan'[ch], d, dma[ch], Nx', Own', Eoq')
  <2>1. ChanOK(qs[ch], chan[ch], hdp[ch], dma[ch], Nx', Own', Eoq') /\ d \in Own' /\ d \notin Eoq'
    BY <1>1, Zenon
  <2>2. d \in Descs /\ chan[ch].head = Nil /\ chan'[ch].head = d /\ chan'[ch].tail = d /\ Nx'[d] = Nil
    BY <1>1, <1>2, <1>3, ZenonT(40)
  <2>3. ChanOK(<<d>>, chan'[ch], d, dma[ch], Nx', Own', Eoq')
    BY ONLY <2>1, <2>2, ChanStart
  <2> QED BY <2>1, <2>2, <2>3, HeadIsFirst, Zenon
<1>7. ASSUME NEW c2 \in Channels
      PROVE  ChanOK(qs2[c2], chan'[c2], hdp'[c2], dma'[c2], Nx', Own', Eoq')
  <2>1. CASE c2 = ch
    BY <1>0, <1>2, <1>5, <1>6, <2>1, Zenon
  <2>2. CASE c2 # ch
    <3>1. ChanOK(qs[c2], chan[c2], hdp[c2], dma[c2], Nx', Own', Eoq')
      BY <1>1, Zenon
    <3> QED BY <1>0, <1>2, <1>5, <2>2, <3>1, Zenon
  <2> QED BY <2>1, <2>2, Zenon
<1>8. Taken = {} /\ Taken' = {}
  <2>1. Submitted.pc # "link"
    BY <1>0, SubmittedRuns, Zenon
  <2> QED BY <1>0, <2>1 DEF Taken
<1>9. at2 \in [Descs -> Places] /\ Placed(pool2, qs2, at2, Taken')
  <2>1. /\ ch \in Places /\ ch # "none" /\ "pool" # ch /\ "pool" # "none" /\ "taken" # ch /\ "taken" # "pool"
    BY <1>1 DEF Channels, Places
  <2>2. (\A x \in Descs : at[x] = "none") \/ (\A x \in Descs : at[x] # "none")
    BY <1>3, Zenon DEF Placed
  <2>3. at2 = [at EXCEPT ![d] = ch]
    OBVIOUS
  <2> HIDE DEF at2
  <2>4. /\ at2 \in [Descs -> Places] /\ \A x \in Descs : at2[x] # "none"
        /\ In(at2, ch) = In(at, ch) \cup {d} /\ In(at2, "pool") = In(at, "pool") \ {d}
        /\ \A p : p # "pool" /\ p # ch => In(at2, p) = In(at, p)
    <3>1. MovesTo(at, d, "pool", ch, at2)
      BY <1>1, <2>1, <2>2, <2>3, Zenon DEF MovesTo
    <3> QED BY ONLY <3>1, Moves
  <2>5. /\ \A c2 \in Channels : Elements(qs[c2]) = In(at, c2) /\ c2 # "pool"
        /\ In(at, "taken") = {} /\ In(at, ch) = {}
    <3>1. \A c2 \in Channels : c2 # "pool"
      BY DEF Channels
    <3>2. Elements(qs[ch]) = {}
      BY <1>6, Empty, Zenon
    <3> QED BY <1>1, <1>3, <1>8, <3>1, <3>2, Zenon DEF Placed, In
  <2>6. ASSUME NEW c2 \in Channels PROVE Elements(qs2[c2]) = In(at2, c2)
    <3>1. CASE c2 = ch
      BY <1>4, <1>5, <2>4, <2>5, <3>1, Zenon
    <3>2. CASE c2 # ch
      BY <1>5, <2>4, <2>5, <3>2, Zenon
    <3> QED BY <3>1, <3>2, Zenon
  <2>7. Elements(pool2) = In(at2, "pool") /\ Taken' = In(at2, "taken")
    BY <1>1, <1>8, <2>1, <2>4, <2>5, Zenon
  <2> QED BY <2>4, <2>6, <2>7, ZenonT(40) DEF Placed, In
<1> HIDE DEF at2
<1>10. Lists(pool2, qs2, at2)'
  BY <1>1, <1>7, <1>9, Zenon DEF Lists
<1>11. Running(qs2)'
  <2>1. Submitted # NoCall =>
            /\ OpsOK(Submitted, held') /\ TakenOK(Submitted, Nx', Own', Eoq')
            /\ CallOK(qs2[Submitted.ch], hdp'[Submitted.ch], Submitted, Own', Eoq')
    BY <1>0, SubmittedRuns, Zenon
  <2> QED BY <1>0, <2>1, Zenon DEF Running
<1>12. Bufs(qs2)'
  <2> SUFFICES ASSUME ~doubled
               PROVE  RxBufs(qs2["rx"], Buf', held) /\ NewBuf(qs2["rx"], Buf', Submitted, held)
    BY <1>0, Zenon DEF Bufs
  <2>0. "rx" \in Channels
    BY DEF Channels
  <2>1. RxBufs(qs["rx"], Buf, held) /\ NewBuf(qs["rx"], Buf, drv, held)
    BY <1>3, Zenon
  <2>2. CASE ch = "rx"
    <3>1. drv.op \in {"init", "free"}
      BY <1>0, <1>3, <2>2, SubmitsOn, Zenon
    <3>2. held = Nil /\ drv.b \in 1 .. NumRx /\ (drv.op = "init" => drv.b = drv.i)
      BY <1>0, <2>1, <3>1, Zenon DEF NewBuf
    <3>3. Buf'[d] \in 1 .. NumRx /\ Buf'[d] # held
      BY <1>1, <3>2, BufferIs, Zenon
    <3>4. RxBufs(<<d>>, Buf', held)
      BY <1>1, <3>3, RxSingle, Zenon
    <3>5. drv.op = "init" => held = Nil /\ \A e \in Elements(<<d>>) : Buf'[e] <= drv.i
      <4>1. drv.b <= drv.b
        BY <3>2, BufferIs, Zenon
      <4> QED BY <1>1, <1>4, <3>2, <4>1, Zenon
    <3>6. NewBuf(<<d>>, Buf', Submitted, held)
      BY <1>0, <3>4, <3>5, SubmittedBufs, Zenon
    <3> QED BY <1>5, <2>2, <3>4, <3>6, <1>1, Zenon
  <2>3. CASE ch # "rx"
    <3>1. drv.op = "send"
      BY <1>0, <1>3, <2>3, SubmitsOn
    <3>2. qs2["rx"] = qs["rx"] /\ SameBuf(qs["rx"], Buf, Buf') /\ qs["rx"] \in Seq(Descs)
      BY <1>1, <1>5, <2>0, <2>3, Zenon
    <3>3. RxBufs(qs["rx"], Buf', held)
      BY <2>1, <3>2, RxFrame, Zenon
    <3>4. drv.op # "init"
      BY <3>1, ZenonT(40)
    <3>5. NewBuf(qs["rx"], Buf', Submitted, held)
      BY <1>0, <3>3, <3>4, SubmittedBufs
    <3> QED BY <3>2, <3>3, <3>5, Zenon
  <2> QED BY <2>2, <2>3, Zenon
<1> QED BY <1>1, <1>5, <1>9, <1>10, <1>11, <1>12, Zenon

\* A descriptor is taken for a queue that has others (cpdma_submit, chan->head
\* is set).
LEMMA SubmitFillsInv ==
    ASSUME CpswTypeOK, NEW pool \in Seq(Descs), NEW qs \in [Channels -> Seq(Descs)],
           NEW at \in [Descs -> Places], Lists(pool, qs, at), Running(qs), Bufs(qs),
           cpdma_submit, chan[drv.ch].head # Nil, NEW ch, ch = drv.ch, NEW d, d = free
    PROVE  \E pool2 \in Seq(Descs), qs2 \in [Channels -> Seq(Descs)], at2 \in [Descs -> Places] :
              (Lists(pool2, qs2, at2) /\ Running(qs2) /\ Bufs(qs2))'
<1> DEFINE at2 == [at EXCEPT ![d] = "taken"]
           pool2 == Tail(pool)
<1>0. /\ drv.pc = "submit" /\ drv.pc # "idle" /\ drv' = [drv EXCEPT !.pc = "link", !.d = d]
      /\ dma' = dma /\ chan' = chan /\ hdp' = hdp /\ held' = held /\ doubled' = doubled
  BY DEF cpdma_submit, stack
<1>1. /\ d \in Descs /\ at[d] = "pool" /\ ch \in Channels
      /\ pool2 \in Seq(Descs) /\ Path(pool2, free', Nx') /\ Inj(pool2)
      /\ Elements(pool2) = In(at, "pool") \ {d}
      /\ Nx'[d] = Nil /\ Buf'[d] = drv.b /\ Own' = Own \cup {d} /\ Eoq' = Eoq \ {d} /\ Own' \cap Eoq' = {}
      /\ \A c2 \in Channels : /\ ChanOK(qs[c2], chan[c2], hdp[c2], dma[c2], Nx', Own', Eoq')
                              /\ SameBuf(qs[c2], Buf, Buf')
  BY SubmitTakes, Zenon
<1>2. /\ drv \in Calls /\ drv # NoCall
  BY <1>0, InCall, Zenon
<1>3. /\ drv'.pc = "link" /\ drv'.d = d /\ drv'.op = drv.op /\ drv'.ch = ch /\ drv'.b = drv.b /\ drv'.i = drv.i
  BY <1>0, <1>2 DEF Calls
<1>4. /\ Placed(pool, qs, at, Taken) /\ OpsOK(drv, held)
      /\ ~doubled => RxBufs(qs["rx"], Buf, held) /\ NewBuf(qs["rx"], Buf, drv, held)
  BY <1>2, Zenon DEF Lists, Running, Bufs
<1> HIDE DEF pool2
<1>8. Taken = {} /\ Taken' = {d}
  BY <1>0, <1>3 DEF Taken
<1>9. at2 \in [Descs -> Places] /\ Placed(pool2, qs, at2, Taken')
  <2>1. /\ "taken" \in Places /\ "pool" # "taken" /\ "taken" # "none" /\ "pool" # "none"
        /\ \A c2 \in Channels : c2 # "pool" /\ c2 # "taken"
    BY DEF Channels, Places
  <2>2. (\A x \in Descs : at[x] = "none") \/ (\A x \in Descs : at[x] # "none")
    BY <1>4, Zenon DEF Placed
  <2>3. at2 = [at EXCEPT ![d] = "taken"]
    OBVIOUS
  <2> HIDE DEF at2
  <2>4. /\ at2 \in [Descs -> Places] /\ \A x \in Descs : at2[x] # "none"
        /\ In(at2, "taken") = In(at, "taken") \cup {d} /\ In(at2, "pool") = In(at, "pool") \ {d}
        /\ \A p : p # "pool" /\ p # "taken" => In(at2, p) = In(at, p)
    <3>1. MovesTo(at, d, "pool", "taken", at2)
      BY <1>1, <2>1, <2>2, <2>3, Zenon DEF MovesTo
    <3> QED BY ONLY <3>1, Moves
  <2>5. In(at, "taken") = {} /\ \A c2 \in Channels : Elements(qs[c2]) = In(at, c2)
    BY <1>4, <1>8, Zenon DEF Placed, In
  <2>6. \A c2 \in Channels : Elements(qs[c2]) = In(at2, c2)
    BY <2>1, <2>4, <2>5, Zenon
  <2>7. Elements(pool2) = In(at2, "pool") /\ Taken' = In(at2, "taken")
    <3>1. {} \cup {d} = {d}
      BY Zenon
    <3>2. Elements(pool2) = In(at2, "pool")
      BY <1>1, <2>4, Zenon
    <3>3. Taken' = In(at2, "taken")
      BY <1>8, <2>4, <2>5, <3>1, Zenon
    <3> QED BY <3>2, <3>3, Zenon
  <2> QED BY <2>4, <2>6, <2>7, Zenon DEF Placed, In
<1> HIDE DEF at2
<1>10. Lists(pool2, qs, at2)'
  BY <1>0, <1>1, <1>9, Zenon DEF Lists
<1>11. Running(qs)'
  <2>1. OpsOK(drv', held')
    <3>1. /\ drv.op \in {"init", "recv", "free"} => drv.ch = "rx"
          /\ drv.op = "send" => drv.ch = "tx"
          /\ drv.op # "recv"
      BY <1>0, <1>4 DEF OpsOK
    <3> QED BY <1>3, <3>1 DEF OpsOK
  <2>2. TakenOK(drv', Nx', Own', Eoq')
    BY <1>1, <1>3, Zenon DEF TakenOK
  <2>3. CallOK(qs[drv'.ch], hdp'[drv'.ch], drv', Own', Eoq')
    <3>1. qs[ch] # <<>>
      BY <1>1, HeadIsFirst, Zenon
    <3> QED BY <1>3, <3>1 DEF CallOK
  <2> QED BY <2>1, <2>2, <2>3, Zenon DEF Running
<1>12. Bufs(qs)'
  <2> SUFFICES ASSUME ~doubled
               PROVE  RxBufs(qs["rx"], Buf', held) /\ NewBuf(qs["rx"], Buf', drv', held)
    BY <1>0, Zenon DEF Bufs
  <2>0. "rx" \in Channels
    BY DEF Channels
  <2>1. RxBufs(qs["rx"], Buf, held) /\ NewBuf(qs["rx"], Buf, drv, held)
    BY <1>4, Zenon
  <2>2. SameBuf(qs["rx"], Buf, Buf') /\ qs["rx"] \in Seq(Descs)
    BY <1>1, <2>0, Zenon
  <2>3. RxBufs(qs["rx"], Buf', held)
    BY <2>1, <2>2, RxFrame, Zenon
  <2>4. NewBuf(qs["rx"], Buf', drv', held)
    <3>1. \A e \in Elements(qs["rx"]) : Buf'[e] = Buf[e]
      BY <2>2, Zenon DEF SameBuf
    <3>2. drv.op \in {"init", "free"} => /\ held = Nil /\ drv.b \in 1 .. NumRx
                                         /\ \A e \in Elements(qs["rx"]) : Buf[e] # drv.b
      BY <1>0, <2>1 DEF NewBuf
    <3>3. drv.op = "init" => drv.b = drv.i /\ \A e \in Elements(qs["rx"]) : Buf[e] <= drv.i
      BY <2>1, Zenon DEF NewBuf
    <3>4. drv.op = "init" => drv.b = drv.i /\ \A e \in Elements(qs["rx"]) : Buf'[e] <= drv.i
      BY <3>1, <3>3, Zenon
    <3>5. drv.op \in {"init", "free"} => /\ held = Nil /\ drv.b \in 1 .. NumRx
                                         /\ \A e \in Elements(qs["rx"]) : Buf'[e] # drv.b
      BY <3>1, <3>2, Zenon
    <3> QED BY <1>1, <1>3, <3>4, <3>5, Zenon DEF NewBuf
  <2> QED BY <2>3, <2>4, Zenon
<1> QED BY <1>1, <1>9, <1>10, <1>11, <1>12, Zenon

\* The descriptor is appended (submit_link): the engine may have read the last
\* one before, and then stops there with EOQ.
LEMMA LinkInv ==
    ASSUME CpswTypeOK, NEW pool \in Seq(Descs), NEW qs \in [Channels -> Seq(Descs)],
           NEW at \in [Descs -> Places], Lists(pool, qs, at), Running(qs), Bufs(qs),
           submit_link, NEW ch, ch = drv.ch, NEW d, d = drv.d
    PROVE  \E pool2 \in Seq(Descs), qs2 \in [Channels -> Seq(Descs)], at2 \in [Descs -> Places] :
              (Lists(pool2, qs2, at2) /\ Running(qs2) /\ Bufs(qs2))'
<1> DEFINE q == qs[ch]
           qs2 == [qs EXCEPT ![ch] = Append(q, d)]
           at2 == [at EXCEPT ![d] = ch]
           e == chan[ch].tail
<1>0. /\ drv.pc = "link" /\ drv.pc # "idle" /\ drv' = [drv EXCEPT !.pc = "eoq", !.prev = e]
      /\ desc' = [desc EXCEPT ![e].next = d] /\ chan' = [chan EXCEPT ![ch].tail = d]
      /\ free' = free /\ dma' = dma /\ hdp' = hdp /\ held' = held /\ doubled' = doubled
  BY DEF submit_link, stack
<1>1. drv \in Calls /\ drv # NoCall /\ ch \in Channels /\ d \in DescOrNil
  BY <1>0, InCall, Zenon
<1>2. /\ Path(pool, free, Nx) /\ Inj(pool) /\ Placed(pool, qs, at, Taken) /\ Own \cap Eoq = {}
      /\ \A c2 \in Channels : ChanOK(qs[c2], chan[c2], hdp[c2], dma[c2], Nx, Own, Eoq)
      /\ OpsOK(drv, held) /\ TakenOK(drv, Nx, Own, Eoq) /\ CallOK(q, hdp[ch], drv, Own, Eoq)
      /\ ~doubled => RxBufs(qs["rx"], Buf, held) /\ NewBuf(qs["rx"], Buf, drv, held)
  BY <1>1, Zenon DEF Lists, Running, Bufs
<1>3. d \in Descs /\ Nx[d] = Nil /\ d \in Own /\ d \notin Eoq
  BY <1>0, <1>2, Zenon DEF TakenOK
<1>4. q # <<>>
  BY <1>0, <1>2 DEF CallOK
<1>5. q \in Seq(Descs) /\ e = q[Len(q)] /\ e \in Elements(q) /\ Len(q) \in Nat /\ Len(q) # 0
  BY <1>1, <1>2, <1>4, HeadIsFirst, Zenon
<1>6. e \in Descs
  BY <1>5, ElementsAre, Zenon
<1>7. Taken = {d}
  BY <1>0 DEF Taken
<1>p. /\ Placed(pool, qs, at, Taken)
      /\ \A c2 \in Channels : \A x : x \in Elements(qs[c2]) => x \notin Elements(pool) /\ x \notin Taken
      /\ \A c2, c3 \in Channels : \A x : x \in Elements(qs[c2]) /\ x \in Elements(qs[c3]) => c2 = c3
      /\ \A x : x \in Elements(pool) => x \notin Taken
      /\ \A x : x \in Taken => at[x] = "taken"
  <2>1. Placed(pool, qs, at, Taken)
    BY <1>2, Zenon
  <2>2. pool \in Seq(Descs) /\ qs \in [Channels -> Seq(Descs)]
    OBVIOUS
  <2>3. \A c2 \in Channels : \A x : x \in Elements(qs[c2]) => x \notin Elements(pool) /\ x \notin Taken
    BY ONLY <2>1, <2>2, PlaceOf, Zenon
  <2>4. \A c2, c3 \in Channels : \A x : x \in Elements(qs[c2]) /\ x \in Elements(qs[c3]) => c2 = c3
    BY ONLY <2>1, <2>2, PlaceOf, Zenon
  <2>5. \A x : x \in Elements(pool) => x \notin Taken
    BY ONLY <2>1, <2>2, PlaceOf, Zenon
  <2>6. \A x : x \in Taken => at[x] = "taken"
    BY <2>1, Zenon DEF Placed
  <2> QED BY <2>1, <2>3, <2>4, <2>5, <2>6, Zenon
<1>8. d \notin Elements(pool) /\ \A c2 \in Channels : d \notin Elements(qs[c2])
  <2>1. d \in Taken
    BY <1>7, Zenon
  <2> QED BY <1>p, <2>1, Zenon
<1>9. e # d /\ e \notin Elements(pool) /\ \A c2 \in Channels : c2 # ch => e \notin Elements(qs[c2])
  <2>1. e \notin Elements(pool) /\ \A c2 \in Channels : c2 # ch => e \notin Elements(qs[c2])
    BY <1>1, <1>p, <1>5, Zenon
  <2>2. d \notin Elements(q)
    BY <1>1, <1>8, Zenon
  <2> QED BY <1>5, <2>1, <2>2, Zenon
<1>10. /\ drv'.pc = "eoq" /\ drv'.prev = e /\ drv'.d = d /\ drv'.op = drv.op /\ drv'.ch = ch
       /\ drv'.b = drv.b /\ drv'.i = drv.i
  BY <1>0, <1>1 DEF Calls
<1>11. /\ chan'[ch].tail = d /\ chan'[ch].head = chan[ch].head
       /\ \A c2 \in Channels : c2 # ch => chan'[c2] = chan[c2]
  BY <1>0, <1>1 DEF CpswTypeOK
<1>12. /\ Nx'[e] = d /\ \A x \in Descs : x # e => Nx'[x] = Nx[x]
       /\ Buf' = Buf /\ Own' = Own /\ Eoq' = Eoq
  <2>1. desc' = [desc EXCEPT ![e] = [desc[e] EXCEPT !.next = d]]
    BY <1>0, <1>6 DEF CpswTypeOK
  <2>2. /\ [desc[e] EXCEPT !.next = d].next = d
        /\ [desc[e] EXCEPT !.next = d].buf = desc[e].buf
        /\ [desc[e] EXCEPT !.next = d].own = desc[e].own
        /\ [desc[e] EXCEPT !.next = d].eoq = desc[e].eoq
    BY <1>6 DEF CpswTypeOK
  <2>3. /\ desc'[e].next = d /\ desc'[e].buf = desc[e].buf /\ desc'[e].own = desc[e].own
        /\ desc'[e].eoq = desc[e].eoq /\ \A x \in Descs : x # e => desc'[x] = desc[x]
    <3>1. desc'[e] = [desc[e] EXCEPT !.next = d] /\ \A x \in Descs : x # e => desc'[x] = desc[x]
      BY <1>6, <2>1, Zenon DEF CpswTypeOK
    <3> QED BY <2>2, <3>1, Zenon
  <2> HIDE DEF e
  <2>4. \A x \in Descs : desc'[x].buf = desc[x].buf /\ (desc'[x].own <=> desc[x].own) /\ (desc'[x].eoq <=> desc[x].eoq)
    BY <2>3, Zenon
  <2>5. Own' = Own /\ Eoq' = Eoq
    BY <2>4, Zenon DEF Own, Eoq
  <2>6. Buf' = Buf
    <3>1. \A x \in Descs : desc'[x].buf = desc[x].buf
      BY <2>4, Zenon
    <3> QED BY <3>1, Zenon DEF Buf
  <2>7. Nx'[e] = d /\ \A x \in Descs : x # e => Nx'[x] = Nx[x]
    <3>1. \A x \in Descs : Nx'[x] = desc'[x].next /\ Nx[x] = desc[x].next
      BY Zenon DEF Nx
    <3> QED BY <1>6, <2>3, <3>1, Zenon
  <2> QED BY <2>5, <2>6, <2>7, Zenon
<1>13. /\ qs2 \in [Channels -> Seq(Descs)] /\ qs2[ch] = Append(q, d)
       /\ \A c2 \in Channels : c2 # ch => qs2[c2] = qs[c2]
  BY <1>1, <1>3, <1>5, SMTT(20)
<1>t. Len(Append(q, d)) = Len(q) + 1 /\ Append(q, d)[Len(q) + 1] = d /\ Append(q, d)[Len(q)] = e
  BY <1>3, <1>5
<1>u. Elements(Append(q, d)) = Elements(q) \cup {d}
  BY <1>3, <1>5, ElementsAppend, Zenon
<1> HIDE DEF e, qs2, q
<1>14. ChanOK(Append(q, d), chan'[ch], hdp[ch], dma[ch], Nx', Own, Eoq)
  <2>1. SameNext(Elements(q) \ {chan[ch].tail}, Nx, Nx')
    <3>1. Elements(q) \subseteq Descs
      BY <1>5, ElementsAre, Zenon
    <3> QED BY <1>12, <3>1, Zenon DEF SameNext, e
  <2>2. Nx'[d] = Nil /\ Nx'[chan[ch].tail] = d /\ d \notin Elements(q) /\ d \in Descs /\ q # <<>>
    BY <1>1, <1>3, <1>4, <1>8, <1>9, <1>12, Zenon DEF e, q
  <2>3. ChanOK(q, chan[ch], hdp[ch], dma[ch], Nx, Own, Eoq)
    BY <1>1, <1>2, Zenon DEF q
  <2> QED BY ONLY <1>3, <1>11, <2>1, <2>2, <2>3, ChanLink, Zenon
<1>15. ASSUME NEW c2 \in Channels
       PROVE  ChanOK(qs2[c2], chan'[c2], hdp'[c2], dma'[c2], Nx', Own', Eoq')
  <2>1. CASE c2 = ch
    BY <1>0, <1>12, <1>13, <1>14, <2>1, Zenon
  <2>2. CASE c2 # ch
    <3>1. Elements(qs[c2]) \subseteq Descs /\ e \notin Elements(qs[c2])
      <4>1. qs[c2] \in Seq(Descs)
        BY Zenon
      <4> QED BY <1>9, <2>2, <4>1, ElementsAre, Zenon
    <3>2. Same(qs[c2], Nx, Own, Eoq, Nx', Own, Eoq)
      BY <1>12, <3>1, Zenon DEF Same
    <3>3. ChanOK(qs[c2], chan[c2], hdp[c2], dma[c2], Nx', Own, Eoq)
      BY <1>2, <3>2, ChanFrame, Zenon
    <3> QED BY <1>0, <1>11, <1>12, <1>13, <2>2, <3>3, Zenon
  <2> QED BY <2>1, <2>2, Zenon
<1>16. Taken' = {}
  BY <1>10 DEF Taken
<1>17. at2 \in [Descs -> Places] /\ Placed(pool, qs2, at2, Taken')
  <2>1. /\ ch \in Places /\ "taken" # ch /\ ch # "none" /\ "taken" # "none" /\ "pool" # ch /\ "pool" # "taken"
        /\ \A c2 \in Channels : c2 # "pool" /\ c2 # "taken"
    BY <1>1 DEF Channels, Places
  <2>2. (\A x \in Descs : at[x] = "none") \/ (\A x \in Descs : at[x] # "none")
    BY <1>2, Zenon DEF Placed
  <2>3. at2 = [at EXCEPT ![d] = ch] /\ at[d] = "taken"
    <3>1. d \in Taken
      BY <1>7, Zenon
    <3> QED BY <1>p, <3>1, Zenon
  <2> HIDE DEF at2
  <2>4. /\ at2 \in [Descs -> Places] /\ \A x \in Descs : at2[x] # "none"
        /\ In(at2, ch) = In(at, ch) \cup {d} /\ In(at2, "taken") = In(at, "taken") \ {d}
        /\ \A p : p # "taken" /\ p # ch => In(at2, p) = In(at, p)
    <3>1. MovesTo(at, d, "taken", ch, at2)
      BY <1>3, <2>1, <2>2, <2>3, Zenon DEF MovesTo
    <3> QED BY ONLY <3>1, Moves
  <2>5. /\ Elements(pool) = In(at, "pool") /\ In(at, "taken") = {d}
        /\ \A c2 \in Channels : Elements(qs[c2]) = In(at, c2)
    BY <1>2, <1>7, Zenon DEF Placed, In
  <2>6. ASSUME NEW c2 \in Channels PROVE Elements(qs2[c2]) = In(at2, c2)
    <3>1. CASE c2 = ch
      BY <1>u, <1>13, <2>4, <2>5, <3>1, Zenon DEF q
    <3>2. CASE c2 # ch
      BY <1>13, <2>1, <2>4, <2>5, <3>2, Zenon
    <3> QED BY <3>1, <3>2, Zenon
  <2>7. Elements(pool) = In(at2, "pool") /\ Taken' = In(at2, "taken")
    BY <1>16, <2>1, <2>4, <2>5, Zenon
  <2> QED BY <2>4, <2>6, <2>7, Zenon DEF Placed, In
<1> HIDE DEF at2
<1>18. Path(pool, free', Nx')
  <2>1. Elements(pool) \subseteq Descs
    BY ElementsAre, Zenon
  <2>2. SameNext(Elements(pool), Nx, Nx')
    BY <1>9, <1>12, <2>1, Zenon DEF SameNext
  <2> QED BY <1>0, <1>2, <2>2, PathFrame, Zenon
<1>19. Lists(pool, qs2, at2)'
  BY <1>2, <1>12, <1>15, <1>17, <1>18, Zenon DEF Lists
<1>20. Running(qs2)'
  <2>1. OpsOK(drv', held')
    <3>1. /\ drv.op \in {"init", "recv", "free"} => drv.ch = "rx"
          /\ drv.op = "send" => drv.ch = "tx"
          /\ drv.op # "recv"
      BY <1>0, <1>2, Zenon DEF OpsOK
    <3> QED BY <1>10, <3>1 DEF OpsOK
  <2>2. TakenOK(drv', Nx', Own', Eoq')
    BY <1>10 DEF TakenOK
  <2>3. CallOK(qs2[drv'.ch], hdp'[drv'.ch], drv', Own', Eoq')
    <3>1. e \in Eoq => hdp[ch] = Nil
      BY <1>1, <1>2, <1>4, <1>5, Zenon DEF ChanOK, q
    <3>2. Len(q) + 1 >= 2 /\ (Len(q) + 1) - 1 = Len(q)
      BY <1>5
    <3>3. CallOK(Append(q, d), hdp[ch], drv', Own, Eoq)
      BY <1>3, <1>10, <1>t, <3>1, <3>2, Zenon DEF CallOK
    <3> QED BY <1>0, <1>10, <1>12, <1>13, <3>3, Zenon
  <2> QED BY <2>1, <2>2, <2>3, Zenon DEF Running
<1>21. Bufs(qs2)'
  <2> SUFFICES ASSUME ~doubled
               PROVE  RxBufs(qs2["rx"], Buf, held) /\ NewBuf(qs2["rx"], Buf, drv', held)
    BY <1>0, <1>12, Zenon DEF Bufs
  <2>0. "rx" \in Channels
    BY DEF Channels
  <2>1. RxBufs(qs["rx"], Buf, held) /\ NewBuf(qs["rx"], Buf, drv, held)
    BY <1>2, Zenon
  <2>2. CASE ch = "rx"
    <3>1. drv.op \in {"init", "free"}
      BY <1>0, <1>2, <2>2, SubmitsOn
    <3>2. /\ held = Nil /\ drv.b \in 1 .. NumRx /\ Buf[d] = drv.b
          /\ \A x \in Elements(q) : Buf[x] # drv.b
          /\ drv.op = "init" => drv.b = drv.i /\ \A x \in Elements(q) : Buf[x] <= drv.i
      BY <1>0, <2>1, <2>2, <3>1 DEF NewBuf, q
    <3>3. Buf[d] \in 1 .. NumRx /\ Buf[d] # held /\ \A x \in Elements(q) : Buf[x] # Buf[d]
      BY <3>2, BufferIs, Zenon
    <3>4. RxBufs(Append(q, d), Buf, held)
      <4>1. RxBufs(q, Buf, held) /\ q \in Seq(Descs)
        BY <1>5, <2>1, <2>2, Zenon DEF q
      <4> QED BY <1>3, <3>3, <4>1, RxAppend
    <3>5. drv.op = "init" => \A x \in Elements(Append(q, d)) : Buf[x] <= drv.i
      <4>1. drv.b <= drv.b
        BY <3>2, BufferIs, Zenon
      <4> QED BY <1>u, <3>2, <4>1, Zenon
    <3>6. NewBuf(Append(q, d), Buf, drv', held)
      BY <1>10, <3>2, <3>5 DEF NewBuf
    <3> QED BY <1>13, <2>0, <2>2, <3>4, <3>6, Zenon
  <2>3. CASE ch # "rx"
    <3>1. drv.op = "send"
      BY <1>0, <1>2, <2>3, SubmitsOn, Zenon
    <3>2. NewBuf(qs["rx"], Buf, drv', held)
      BY <1>10, <3>1, NoNewBuf
    <3> QED BY <1>13, <2>0, <2>1, <2>3, <3>2, Zenon
  <2> QED BY <2>2, <2>3, Zenon
<1> QED BY <1>13, <1>17, <1>19, <1>20, <1>21, Zenon

\* EOQ on the descriptor before (submit_eoq): the engine stopped there, and is
\* started with the new one, before which nothing is left to it.
LEMMA EoqInv ==
    ASSUME CpswTypeOK, NEW pool \in Seq(Descs), NEW qs \in [Channels -> Seq(Descs)],
           NEW at \in [Descs -> Places], Lists(pool, qs, at), Running(qs), Bufs(qs),
           submit_eoq, NEW ch, ch = drv.ch
    PROVE  (Lists(pool, qs, at) /\ Running(qs) /\ Bufs(qs))'
<1> DEFINE q == qs[ch]
<1>0. /\ drv.pc = "eoq" /\ drv.pc # "idle" /\ drv' = Submitted /\ desc' = desc /\ chan' = chan
      /\ free' = free /\ dma' = dma /\ held' = held /\ doubled' = doubled
      /\ hdp' = IF desc[drv.prev].eoq THEN [hdp EXCEPT ![ch] = drv.d] ELSE hdp
  BY DEF submit_eoq, stack
<1>1. drv \in Calls /\ drv # NoCall /\ ch \in Channels
  BY <1>0, InCall, Zenon
<1>2. /\ Placed(pool, qs, at, Taken) /\ Own \cap Eoq = {}
      /\ \A c2 \in Channels : ChanOK(qs[c2], chan[c2], hdp[c2], dma[c2], Nx, Own, Eoq)
      /\ CallOK(q, hdp[ch], drv, Own, Eoq) /\ OpsOK(drv, held)
      /\ ~doubled => RxBufs(qs["rx"], Buf, held) /\ NewBuf(qs["rx"], Buf, drv, held)
  BY <1>1, Zenon DEF Lists, Running, Bufs
<1>3. Nx' = Nx /\ Buf' = Buf /\ Own' = Own /\ Eoq' = Eoq
  BY <1>0, FieldsKept, Zenon
<1>4. /\ Len(q) >= 2 /\ drv.d = q[Len(q)] /\ drv.prev = q[Len(q) - 1]
      /\ drv.prev \in Eoq => hdp[ch] = Nil /\ drv.d \in Own
  BY <1>0, <1>2, Zenon DEF CallOK
<1>5. q \in Seq(Descs) /\ ChanOK(q, chan[ch], hdp[ch], dma[ch], Nx, Own, Eoq)
  BY <1>1, <1>2, Zenon
<1> HIDE DEF q
<1>6. Len(q) \in 1 .. Len(q) /\ Len(q) - 1 \in 1 .. Len(q)
  BY <1>4, <1>5, SMTT(20)
<1>7. drv.prev \in Descs
  BY <1>4, <1>5, <1>6
<1>8. ASSUME NEW c2 \in Channels
      PROVE  ChanOK(qs[c2], chan[c2], hdp'[c2], dma[c2], Nx, Own, Eoq)
  <2>0. ChanOK(qs[c2], chan[c2], hdp[c2], dma[c2], Nx, Own, Eoq)
    BY <1>2, Zenon
  <2>1. CASE ~desc[drv.prev].eoq
    BY <1>0, <2>0, <2>1, Zenon
  <2>2. CASE desc[drv.prev].eoq
    <3>1. drv.prev \in Eoq
      BY <1>7, <2>2, Zenon DEF Eoq
    <3>2. hdp[ch] = Nil /\ drv.d \in Own /\ q[Len(q)] \in Own /\ q[Len(q) - 1] \in Eoq
      BY <1>4, <3>1, Zenon
    <3>3. hdp'[ch] = q[Len(q)] /\ \A c3 \in Channels : c3 # ch => hdp'[c3] = hdp[c3]
      BY <1>0, <1>1, <1>4, <2>2, Zenon DEF CpswTypeOK
    <3>4. \A j \in 1 .. (Len(q) - 1) : q[j] \notin Own
      BY <1>2, <1>4, <1>5, <3>2, LastOnly DEF ChanOK
    <3>5. ChanOK(q, chan[ch], Nil, dma[ch], Nx, Own, Eoq)
      BY <1>5, <3>2, Zenon
    <3>6. ChanOK(q, chan[ch], q[Len(q)], dma[ch], Nx, Own, Eoq)
      BY <1>2, <1>6, <3>2, <3>4, <3>5, ChanRestart, Zenon
    <3>7. CASE c2 = ch
      BY <3>3, <3>6, <3>7, Zenon DEF q
    <3>8. CASE c2 # ch
      BY <2>0, <3>3, <3>8, ZenonT(40)
    <3> QED BY <3>7, <3>8, Zenon
  <2> QED BY <2>1, <2>2, Zenon
<1>9. Taken = {} /\ Taken' = {}
  <2>1. Submitted.pc # "link"
    BY <1>0, SubmittedRuns, Zenon
  <2> QED BY <1>0, <2>1 DEF Taken
<1>10. Lists(pool, qs, at)'
  BY <1>0, <1>3, <1>8, <1>9, Zenon DEF Lists
<1>11. Running(qs)'
  <2>1. Submitted # NoCall =>
            /\ OpsOK(Submitted, held') /\ TakenOK(Submitted, Nx', Own', Eoq')
            /\ CallOK(qs[Submitted.ch], hdp'[Submitted.ch], Submitted, Own', Eoq')
    BY <1>0, SubmittedRuns, Zenon
  <2> QED BY <1>0, <2>1, Zenon DEF Running
<1>12. Bufs(qs)'
  <2> SUFFICES ASSUME ~doubled
               PROVE  RxBufs(qs["rx"], Buf, held) /\ NewBuf(qs["rx"], Buf, Submitted, held)
    BY <1>0, <1>3, Zenon DEF Bufs
  <2>1. RxBufs(qs["rx"], Buf, held) /\ NewBuf(qs["rx"], Buf, drv, held)
    BY <1>2, ZenonT(40)
  <2>2. drv.op = "init" => held = Nil /\ \A d \in Elements(qs["rx"]) : Buf[d] <= drv.i
    BY <2>1 DEF NewBuf
  <2> QED BY <1>0, <2>1, <2>2, SubmittedBufs, Zenon
<1> QED BY <1>10, <1>11, <1>12, Zenon

\* There is nothing to process, or nothing was done (NothingDone): a sender
\* goes on to submit, a receiver returns.
LEMMA NothingDoneIs ==
    ASSUME CpswTypeOK, drv.pc \in {"process", "hdp", "again"}, NothingDone, NEW qs,
           OpsOK(drv, held), Own' = Own, Eoq' = Eoq, Nx' = Nx, Buf' = Buf,
           Bufs(qs)
    PROVE  Running(qs)' /\ Bufs(qs)' /\ Taken' = Taken
<1> DEFINE c == Call("send", "submit", "tx", TxPacket)
<1>1. c.op = "send" /\ c.pc = "submit" /\ c.ch = "tx"
  BY DEF Call
<1>2. NoCall.op = "none" /\ NoCall.pc = "idle"
  BY DEF NoCall
<1>3. drv' = c \/ drv' = NoCall
  BY Zenon DEF NothingDone
<1> HIDE DEF c
<1>4. held' = held /\ doubled' = doubled
  BY Zenon DEF NothingDone
<1>5. drv'.op \notin {"init", "free"} /\ drv'.pc # "link"
  BY <1>1, <1>2, <1>3
<1>6. Taken' = Taken
  BY <1>5 DEF Taken
<1>7. Bufs(qs)'
  <2>1. NewBuf(qs["rx"], Buf, drv', held)
    BY <1>5, NoNewBuf, Zenon
  <2> QED BY <1>4, <2>1, Zenon DEF Bufs
<1>8. ASSUME drv' = c
      PROVE  /\ OpsOK(drv', held') /\ TakenOK(drv', Nx', Own', Eoq')
             /\ CallOK(qs[drv'.ch], hdp'[drv'.ch], drv', Own', Eoq')
  <2>1. OpsOK(drv', held')
    BY <1>1, <1>8 DEF OpsOK
  <2>2. TakenOK(drv', Nx', Own', Eoq')
    BY <1>1, <1>8, Zenon DEF TakenOK
  <2>3. CallOK(qs[drv'.ch], hdp'[drv'.ch], drv', Own', Eoq')
    BY <1>1, <1>8 DEF CallOK
  <2> QED BY <2>1, <2>2, <2>3, Zenon
<1>9. Running(qs)'
  BY <1>3, <1>8, Zenon DEF Running
<1> QED BY <1>6, <1>7, <1>9, Zenon

\* The queue is empty (process_empty).
LEMMA EmptyInv ==
    ASSUME CpswTypeOK, NEW pool \in Seq(Descs), NEW qs \in [Channels -> Seq(Descs)],
           NEW at \in [Descs -> Places], Lists(pool, qs, at), Running(qs), Bufs(qs), process_empty
    PROVE  (Lists(pool, qs, at) /\ Running(qs) /\ Bufs(qs))'
<1>1. /\ desc' = desc /\ free' = free /\ chan' = chan /\ hdp' = hdp /\ dma' = dma /\ NothingDone
      /\ drv.pc \in {"process", "hdp", "again"} /\ drv.pc # "idle"
  BY DEF process_empty, queues
<1>2. drv # NoCall
  BY <1>1, InCall, Zenon
<1>3. OpsOK(drv, held)
  BY <1>2, Zenon DEF Running
<1>4. Nx' = Nx /\ Buf' = Buf /\ Own' = Own /\ Eoq' = Eoq
  BY <1>1, FieldsKept, Zenon
<1>5. Running(qs)' /\ Bufs(qs)' /\ Taken' = Taken
  BY <1>1, <1>3, <1>4, NothingDoneIs
<1> QED BY <1>1, <1>5, ListsKept, Zenon

\* The engine owns the first descriptor (process_owned).
LEMMA OwnedInv ==
    ASSUME CpswTypeOK, NEW pool \in Seq(Descs), NEW qs \in [Channels -> Seq(Descs)],
           NEW at \in [Descs -> Places], Lists(pool, qs, at), Running(qs), Bufs(qs), process_owned
    PROVE  (Lists(pool, qs, at) /\ Running(qs) /\ Bufs(qs))'
<1>1. /\ desc' = desc /\ free' = free /\ chan' = chan /\ hdp' = hdp /\ dma' = dma /\ held' = held
      /\ doubled' = doubled /\ drv.pc = "process" /\ drv.pc # "idle" /\ drv' = [drv EXCEPT !.pc = "hdp"]
      /\ chan[drv.ch].head # Nil
  BY DEF process_owned, queues, stack
<1>2. drv \in Calls /\ drv # NoCall /\ drv.ch \in Channels
  BY <1>1, InCall, Zenon
<1>3. /\ drv'.pc = "hdp" /\ drv'.op = drv.op /\ drv'.ch = drv.ch
  BY <1>1, <1>2 DEF Calls
<1>4. Taken' = Taken
  BY <1>1, <1>3 DEF Taken
<1>5. Lists(pool, qs, at)' /\ Nx' = Nx /\ Buf' = Buf /\ Own' = Own /\ Eoq' = Eoq
  BY <1>1, <1>4, ListsKept, Zenon
<1>6. OpsOK(drv, held)
  BY <1>2, Zenon DEF Running
<1>7. drv.op \notin {"init", "free"}
  BY <1>1, <1>6 DEF OpsOK
<1>8. OpsOK(drv', held')
  BY <1>1, <1>3, <1>6, <1>7, Zenon DEF OpsOK
<1>9. TakenOK(drv', Nx', Own', Eoq')
  BY <1>3, Zenon DEF TakenOK
<1>10. CallOK(qs[drv'.ch], hdp'[drv'.ch], drv', Own', Eoq')
  <2>1. ChanOK(qs[drv.ch], chan[drv.ch], hdp[drv.ch], dma[drv.ch], Nx, Own, Eoq)
    BY <1>2, Zenon DEF Lists
  <2>2. qs[drv.ch] # <<>>
    BY <1>1, <2>1, HeadIsFirst, Zenon
  <2> QED BY <1>3, <2>2 DEF CallOK
<1>11. Running(qs)'
  BY <1>8, <1>9, <1>10, Zenon DEF Running
<1>12. NewBuf(qs["rx"], Buf, drv', held)
  BY <1>3, <1>7, NoNewBuf
<1> QED BY <1>1, <1>5, <1>11, <1>12, Zenon DEF Bufs

\* The register is read (process_hdp): an engine that has stopped stays so.
LEMMA HdpInv ==
    ASSUME CpswTypeOK, NEW pool \in Seq(Descs), NEW qs \in [Channels -> Seq(Descs)],
           NEW at \in [Descs -> Places], Lists(pool, qs, at), Running(qs), Bufs(qs), process_hdp
    PROVE  (Lists(pool, qs, at) /\ Running(qs) /\ Bufs(qs))'
<1>1. /\ desc' = desc /\ free' = free /\ chan' = chan /\ hdp' = hdp /\ dma' = dma
      /\ drv.pc = "hdp" /\ drv.pc # "idle" /\ drv.pc \in {"process", "hdp", "again"}
  BY DEF process_hdp, queues
<1>2. drv \in Calls /\ drv # NoCall /\ drv.ch \in Channels
  BY <1>1, InCall, Zenon
<1>3. OpsOK(drv, held) /\ CallOK(qs[drv.ch], hdp[drv.ch], drv, Own, Eoq)
  BY <1>2, Zenon DEF Running
<1>4. Nx' = Nx /\ Buf' = Buf /\ Own' = Own /\ Eoq' = Eoq
  BY <1>1, FieldsKept, Zenon
<1>5. CASE hdp[drv.ch] # Nil
  <2>0. NothingDone
    BY <1>5, Zenon DEF process_hdp
  <2>1. Running(qs)' /\ Bufs(qs)' /\ Taken' = Taken
    BY <1>1, <1>3, <1>4, <2>0, NothingDoneIs, Zenon
  <2> QED BY <1>1, <2>1, ListsKept, Zenon
<1>6. CASE hdp[drv.ch] = Nil
  <2>1. drv' = [drv EXCEPT !.pc = "again"] /\ held' = held /\ doubled' = doubled
    BY <1>6, Zenon DEF process_hdp, stack
  <2>2. /\ drv'.pc = "again" /\ drv'.op = drv.op /\ drv'.ch = drv.ch
    BY <1>2, <2>1 DEF Calls
  <2>3. Taken' = Taken
    BY <1>1, <2>2 DEF Taken
  <2>4. Lists(pool, qs, at)'
    BY <1>1, <2>3, ListsKept, Zenon
  <2>5. drv.op \notin {"init", "free"}
    BY <1>1, <1>3 DEF OpsOK
  <2>6. OpsOK(drv', held')
    BY <1>1, <1>3, <2>1, <2>2, <2>5, Zenon DEF OpsOK
  <2>7. TakenOK(drv', Nx', Own', Eoq')
    BY <2>2, Zenon DEF TakenOK
  <2>8. qs[drv.ch] # <<>>
    BY <1>1, <1>3, Zenon DEF CallOK
  <2>9. CallOK(qs[drv'.ch], hdp'[drv'.ch], drv', Own', Eoq')
    BY <1>1, <1>6, <2>2, <2>8, Zenon DEF CallOK
  <2>10. Running(qs)'
    BY <2>6, <2>7, <2>9, Zenon DEF Running
  <2>11. NewBuf(qs["rx"], Buf, drv', held)
    BY <2>2, <2>5, NoNewBuf
  <2> QED BY <1>4, <2>1, <2>4, <2>10, <2>11, Zenon DEF Bufs
<1> QED BY <1>5, <1>6, Zenon

\* The engine had stopped before a descriptor it owns (process_again).
LEMMA AgainInv ==
    ASSUME CpswTypeOK, NEW pool \in Seq(Descs), NEW qs \in [Channels -> Seq(Descs)],
           NEW at \in [Descs -> Places], Lists(pool, qs, at), Running(qs), Bufs(qs),
           process_again, NEW ch, ch = drv.ch
    PROVE  (Lists(pool, qs, at) /\ Running(qs) /\ Bufs(qs))'
<1> DEFINE d == chan[ch].head
<1>1. /\ desc' = desc /\ free' = free /\ chan' = chan /\ dma' = dma /\ NothingDone
      /\ drv.pc = "again" /\ drv.pc # "idle" /\ drv.pc \in {"process", "hdp", "again"}
      /\ hdp' = IF desc[d].own THEN [hdp EXCEPT ![ch] = d] ELSE hdp
  BY DEF process_again
<1>2. drv # NoCall /\ ch \in Channels
  BY <1>1, InCall, Zenon
<1>3. /\ OpsOK(drv, held) /\ CallOK(qs[ch], hdp[ch], drv, Own, Eoq) /\ Own \cap Eoq = {}
      /\ \A c2 \in Channels : ChanOK(qs[c2], chan[c2], hdp[c2], dma[c2], Nx, Own, Eoq)
  BY <1>2, Zenon DEF Running, Lists
<1>4. Nx' = Nx /\ Buf' = Buf /\ Own' = Own /\ Eoq' = Eoq
  BY <1>1, FieldsKept, Zenon
<1>5. Running(qs)' /\ Bufs(qs)' /\ Taken' = Taken
  BY <1>1, <1>3, <1>4, NothingDoneIs, ZenonT(40)
<1>6. qs[ch] # <<>> /\ hdp[ch] = Nil
  BY <1>1, <1>3 DEF CallOK
<1>7. d = qs[ch][1] /\ 1 \in 1 .. Len(qs[ch]) /\ qs[ch] \in Seq(Descs)
  BY <1>2, <1>3, <1>6, HeadIsFirst, Zenon
<1>8. d \in Descs
  BY <1>7
<1> HIDE DEF d
<1>9. ASSUME NEW c2 \in Channels
      PROVE  ChanOK(qs[c2], chan[c2], hdp'[c2], dma[c2], Nx, Own, Eoq)
  <2>0. ChanOK(qs[c2], chan[c2], hdp[c2], dma[c2], Nx, Own, Eoq)
    BY <1>3, Zenon
  <2>1. CASE ~desc[d].own
    BY <1>1, <2>0, <2>1, Zenon
  <2>2. CASE desc[d].own
    <3>1. qs[ch][1] \in Own
      BY <1>7, <1>8, <2>2, ZenonT(40) DEF Own
    <3>2. hdp'[ch] = qs[ch][1] /\ \A c3 \in Channels : c3 # ch => hdp'[c3] = hdp[c3]
      BY <1>1, <1>2, <1>7, <2>2 DEF CpswTypeOK
    <3>3. ChanOK(qs[ch], chan[ch], Nil, dma[ch], Nx, Own, Eoq)
      BY <1>2, <1>3, <1>6, Zenon
    <3>4. \A j \in 1 .. (1 - 1) : qs[ch][j] \notin Own
      OBVIOUS
    <3>5. ChanOK(qs[ch], chan[ch], qs[ch][1], dma[ch], Nx, Own, Eoq)
      BY <1>3, <1>7, <3>1, <3>3, <3>4, ChanRestart, Zenon
    <3>6. CASE c2 = ch
      BY <3>2, <3>5, <3>6, Zenon
    <3>7. CASE c2 # ch
      BY <2>0, <3>2, <3>7, Zenon
    <3> QED BY <3>6, <3>7, Zenon
  <2> QED BY <2>1, <2>2, Zenon
<1>10. Lists(pool, qs, at)'
  BY <1>1, <1>4, <1>5, <1>9, Zenon DEF Lists
<1> QED BY <1>5, <1>10, Zenon

\* The stack gets the first buffer of the receive queue, which is not in it then.
LEMMA RxPop ==
    ASSUME NEW rx \in Seq(Descs), NEW buf, NEW h, RxBufs(rx, buf, h), rx # <<>>
    PROVE  RxBufs(Tail(rx), buf, buf[rx[1]])
<1> DEFINE t == Tail(rx)
           n == Len(rx)
<1>1. /\ t \in Seq(Descs) /\ Len(t) = n - 1 /\ n \in Nat /\ n >= 1
      /\ \A i \in 1 .. (n - 1) : t[i] = rx[i + 1]
  OBVIOUS
<1>2. \A i \in 1 .. n : rx[i] \in Elements(rx)
  BY ElementsAre, Zenon
<1>3. \A i, j \in 1 .. n : buf[rx[i]] = buf[rx[j]] => i = j
  BY Zenon DEF RxBufs
<1> HIDE DEF t, n
<1>4. ASSUME NEW i \in 1 .. Len(t)
      PROVE  t[i] = rx[i + 1] /\ i + 1 \in 1 .. n /\ 1 \in 1 .. n /\ i + 1 # 1
  <2>1. i \in 1 .. (n - 1) /\ i + 1 \in 1 .. n /\ 1 \in 1 .. n /\ i + 1 # 1
    BY <1>1
  <2> QED BY <1>1, <2>1, Zenon
<1>5. ASSUME NEW i \in 1 .. Len(t), NEW j \in 1 .. Len(t), buf[t[i]] = buf[t[j]]
      PROVE  i = j
  <2>1. buf[rx[i + 1]] = buf[rx[j + 1]]
    BY <1>4, <1>5
  <2>2. i + 1 = j + 1
    BY <1>3, <1>4, <2>1, Zenon
  <2> QED BY <2>2, SMTT(20)
<1>6. ASSUME NEW e \in Elements(t) PROVE buf[e] \in 1 .. NumRx /\ buf[e] # buf[rx[1]]
  <2>1. PICK i \in 1 .. Len(t) : t[i] = e
    BY <1>1, ElementsAre, Zenon
  <2>2. e = rx[i + 1] /\ e \in Elements(rx)
    BY <1>2, <1>4, <2>1
  <2>3. buf[rx[i + 1]] # buf[rx[1]]
    BY <1>3, <1>4, Zenon
  <2> QED BY <2>2, <2>3, Zenon DEF RxBufs
<1>7. RxBufs(t, buf, buf[rx[1]])
  BY <1>5, <1>6, Zenon DEF RxBufs
<1> QED BY <1>7, Zenon DEF t

\* The first descriptor, which the engine is done with, leaves the queue for
\* the pool (cpdma_process).
LEMMA ProcessInv ==
    ASSUME CpswTypeOK, NEW pool \in Seq(Descs), NEW qs \in [Channels -> Seq(Descs)],
           NEW at \in [Descs -> Places], Lists(pool, qs, at), Running(qs), Bufs(qs),
           cpdma_process, NEW ch, ch = drv.ch, NEW d, d = chan[drv.ch].head
    PROVE  \E pool2 \in Seq(Descs), qs2 \in [Channels -> Seq(Descs)], at2 \in [Descs -> Places] :
              (Lists(pool2, qs2, at2) /\ Running(qs2) /\ Bufs(qs2))'
<1> DEFINE q == qs[ch]
           t == Tail(q)
           qs2 == [qs EXCEPT ![ch] = t]
           at2 == [at EXCEPT ![d] = "pool"]
           pool2 == <<d>> \o pool
           r == [Blank EXCEPT !.next = free]
<1>0. /\ drv.pc = "process" /\ drv.pc # "idle" /\ d # Nil /\ ~desc[d].own
      /\ chan' = [chan EXCEPT ![ch].head = desc[d].next]
      /\ desc' = [desc EXCEPT ![d] = r] /\ free' = d
      /\ dma' = dma /\ hdp' = hdp /\ doubled' = doubled
  BY DEF cpdma_process
<1>d. IF drv.op = "send" THEN drv' = drv /\ held' = held ELSE drv' = NoCall /\ held' = desc[d].buf
  BY Zenon DEF cpdma_process
<1>r. r \in DescRecord /\ r.next = free /\ ~r.own /\ ~r.eoq
  <2>1. Blank \in DescRecord /\ ~Blank.own /\ ~Blank.eoq
    BY RecordsTyped DEF DescRecord, Blank
  <2>2. free \in DescOrNil
    BY Zenon DEF CpswTypeOK
  <2> HIDE DEF Blank
  <2> QED BY <2>1, <2>2, Zenon DEF DescRecord
<1>1. drv \in Calls /\ drv # NoCall /\ ch \in Channels
  BY <1>0, InCall, Zenon
<1>2. /\ Path(pool, free, Nx) /\ Inj(pool) /\ Placed(pool, qs, at, Taken) /\ Own \cap Eoq = {}
      /\ \A c2 \in Channels : ChanOK(qs[c2], chan[c2], hdp[c2], dma[c2], Nx, Own, Eoq)
      /\ OpsOK(drv, held)
      /\ ~doubled => RxBufs(qs["rx"], Buf, held) /\ NewBuf(qs["rx"], Buf, drv, held)
  BY <1>1, Zenon DEF Lists, Running, Bufs
<1>3. ChanOK(q, chan[ch], hdp[ch], dma[ch], Nx, Own, Eoq) /\ q \in Seq(Descs) /\ chan[ch].head = d
  BY <1>1, <1>2, Zenon
<1> HIDE DEF r
<1>4. /\ q # <<>> /\ q[1] = d /\ d \in Descs /\ Path(t, Nx[d], Nx) /\ Inj(t)
      /\ Elements(q) = Elements(t) \cup {d} /\ d \notin Elements(t)
  <2>1. Path(q, d, Nx) /\ Inj(q)
    BY <1>3, Zenon DEF ChanOK
  <2> QED BY ONLY <1>0, <2>1, Popped, Zenon
<1>5. t \in Seq(Descs)
  BY <1>4, Zenon DEF Path
<1>6. /\ Nx'[d] = free /\ \A e \in Descs : e # d => Nx'[e] = Nx[e] /\ Buf'[e] = Buf[e]
  BY <1>0, <1>r, <1>4, FieldsSet, Zenon
<1>7. Own' = Own \ {d} /\ Eoq' = Eoq \ {d}
  <2>1. Own' = (IF r.own THEN Own \cup {d} ELSE Own \ {d}) /\ Eoq' = (IF r.eoq THEN Eoq \cup {d} ELSE Eoq \ {d})
    BY <1>0, <1>r, <1>4, FieldsSet, Zenon
  <2> QED BY <1>r, <2>1, Zenon
<1>8. /\ chan'[ch].head = Nx[d] /\ chan'[ch].tail = chan[ch].tail
      /\ \A c2 \in Channels : c2 # ch => chan'[c2] = chan[c2]
  <2>1. Nx[d] = desc[d].next
    BY <1>4, Zenon DEF Nx
  <2> QED BY <1>0, <1>1, <2>1 DEF CpswTypeOK
<1>9. d \notin Own
  BY <1>0, Zenon DEF Own
<1>10. /\ qs2 \in [Channels -> Seq(Descs)] /\ qs2[ch] = t
       /\ \A c2 \in Channels : c2 # ch => qs2[c2] = qs[c2]
  BY <1>1, <1>5
<1>p. /\ d \notin Elements(pool) /\ d \notin Taken /\ at[d] = ch
      /\ \A c2 \in Channels : c2 # ch => d \notin Elements(qs[c2])
  <2>0. d \in Elements(q)
    BY <1>4, Zenon
  <2>1. Placed(pool, qs, at, Taken) /\ pool \in Seq(Descs) /\ qs \in [Channels -> Seq(Descs)]
    BY <1>2, Zenon
  <2>3. \A c2 \in Channels : \A x : x \in Elements(qs[c2]) => x \notin Elements(pool) /\ x \notin Taken
    BY ONLY <2>1, PlaceOf, Zenon
  <2>4. \A c2, c3 \in Channels : \A x : x \in Elements(qs[c2]) /\ x \in Elements(qs[c3]) => c2 = c3
    BY ONLY <2>1, PlaceOf, Zenon
  <2>5. at[d] = ch
    <3>1. Elements(qs[ch]) = {x \in Descs : at[x] = ch}
      BY <1>1, <2>1, Zenon DEF Placed
    <3> QED BY <2>0, <3>1 DEF q
  <2> QED BY <1>1, <2>0, <2>3, <2>4, <2>5, Zenon
<1>e. Elements(pool) \subseteq Descs /\ Elements(t) \subseteq Descs /\ \A c2 \in Channels : Elements(qs[c2]) \subseteq Descs
  <2>1. \A c2 \in Channels : qs[c2] \in Seq(Descs)
    BY Zenon
  <2> QED BY <1>5, <2>1, ElementsAre, Zenon
<1>11. pool2 \in Seq(Descs) /\ Path(pool2, d, Nx') /\ Inj(pool2) /\ Elements(pool2) = Elements(pool) \cup {d}
  <2>1. SameNext(Elements(pool), Nx, Nx')
    BY <1>e, <1>p, <1>6, Zenon DEF SameNext
  <2>2. Path(pool, free, Nx) /\ Inj(pool) /\ d \in Descs /\ d \notin Elements(pool) /\ Nx'[d] = free
    BY <1>2, <1>4, <1>6, <1>p, Zenon
  <2>3. Path(<<d>> \o pool, d, Nx')
    BY ONLY <2>1, <2>2, Pushed, Zenon
  <2>4. Inj(<<d>> \o pool)
    BY ONLY <2>1, <2>2, Pushed, Zenon
  <2>5. <<d>> \o pool \in Seq(Descs)
    BY <2>2
  <2>6. Elements(<<d>> \o pool) = Elements(pool) \cup {d}
    BY <2>2, ElementsPush, Zenon
  <2> QED BY <2>3, <2>4, <2>5, <2>6, Zenon DEF pool2
<1>q. Elements(q) = Elements(qs[ch])
  OBVIOUS
<1> HIDE DEF t, q, qs2, pool2
<1>12. ASSUME NEW c2 \in Channels
       PROVE  ChanOK(qs2[c2], chan'[c2], hdp'[c2], dma'[c2], Nx', Own', Eoq')
  <2>1. CASE c2 = ch
    <3>1. Same(t, Nx, Own, Eoq, Nx', Own', Eoq')
      BY <1>4, <1>6, <1>7, <1>e, Zenon DEF Same
    <3>2. chan[ch].head # Nil /\ chan[ch].head \notin Own /\ chan'[ch].head = Nx[chan[ch].head]
      BY <1>0, <1>3, <1>8, <1>9, ZenonT(40)
    <3>3. ChanOK(t, chan'[ch], hdp[ch], dma[ch], Nx', Own', Eoq')
      BY ONLY <1>3, <1>8, <3>1, <3>2, ChanPop DEF t
    <3> QED BY <1>0, <1>10, <2>1, <3>3, Zenon
  <2>2. CASE c2 # ch
    <3>1. Same(qs[c2], Nx, Own, Eoq, Nx', Own', Eoq')
      BY <1>e, <1>p, <1>6, <1>7, <2>2, Zenon DEF Same
    <3>2. ChanOK(qs[c2], chan[c2], hdp[c2], dma[c2], Nx', Own', Eoq')
      BY <1>2, <3>1, ChanFrame, Zenon
    <3> QED BY <1>0, <1>8, <1>10, <2>2, <3>2, Zenon
  <2> QED BY <2>1, <2>2, Zenon
<1>13. Taken = {} /\ Taken' = {}
  <2>1. drv'.pc = "process" \/ drv'.pc = "idle"
    BY <1>0, <1>d DEF NoCall
  <2> QED BY <1>0, <2>1 DEF Taken
<1>14. at2 \in [Descs -> Places] /\ Placed(pool2, qs2, at2, Taken')
  <2>1. /\ "pool" \in Places /\ ch # "pool" /\ ch # "none" /\ "pool" # "none" /\ "taken" # ch /\ "taken" # "pool"
        /\ \A c2 \in Channels : c2 # "pool"
    BY <1>1 DEF Channels, Places
  <2>2. (\A x \in Descs : at[x] = "none") \/ (\A x \in Descs : at[x] # "none")
    BY <1>2, Zenon DEF Placed
  <2>3. at2 = [at EXCEPT ![d] = "pool"]
    OBVIOUS
  <2> HIDE DEF at2
  <2>4. /\ at2 \in [Descs -> Places] /\ \A x \in Descs : at2[x] # "none"
        /\ In(at2, "pool") = In(at, "pool") \cup {d} /\ In(at2, ch) = In(at, ch) \ {d}
        /\ \A p : p # ch /\ p # "pool" => In(at2, p) = In(at, p)
    <3>1. MovesTo(at, d, ch, "pool", at2)
      BY <1>4, <1>p, <2>1, <2>2, <2>3, Zenon DEF MovesTo
    <3> QED BY ONLY <3>1, Moves
  <2>5. /\ Elements(pool) = In(at, "pool") /\ In(at, "taken") = {}
        /\ \A c2 \in Channels : Elements(qs[c2]) = In(at, c2)
    BY <1>2, <1>13, Zenon DEF Placed, In
  <2>6. ASSUME NEW c2 \in Channels PROVE Elements(qs2[c2]) = In(at2, c2)
    <3>1. CASE c2 = ch
      <4>1. Elements(q) = In(at, ch)
        BY <1>1, <1>q, <2>5, Zenon
      <4>2. Elements(t) = Elements(q) \ {d}
        BY <1>4, Zenon
      <4> QED BY <1>10, <2>4, <3>1, <4>1, <4>2, Zenon
    <3>2. CASE c2 # ch
      BY <1>10, <2>1, <2>4, <2>5, <3>2, Zenon
    <3> QED BY <3>1, <3>2, Zenon
  <2>7. Elements(pool2) = In(at2, "pool") /\ Taken' = In(at2, "taken")
    BY <1>11, <1>13, <2>1, <2>4, <2>5, Zenon
  <2> QED BY <2>4, <2>6, <2>7, Zenon DEF Placed, In
<1> HIDE DEF at2
<1>15. Own' \cap Eoq' = {}
  BY <1>2, <1>7, Zenon
<1>16. Lists(pool2, qs2, at2)'
  BY <1>0, <1>11, <1>12, <1>14, <1>15, Zenon DEF Lists
<1>17. Running(qs2)'
  <2>1. CASE drv.op = "send"
    <3>1. drv' = drv /\ held' = held
      BY <1>d, <2>1, Zenon
    <3>2. OpsOK(drv', held')
      BY <1>2, <3>1, Zenon
    <3>3. TakenOK(drv', Nx', Own', Eoq')
      BY <1>0, <3>1 DEF TakenOK
    <3>4. CallOK(qs2[drv'.ch], hdp'[drv'.ch], drv', Own', Eoq')
      BY <1>0, <3>1 DEF CallOK
    <3> QED BY <3>2, <3>3, <3>4, Zenon DEF Running
  <2>2. CASE drv.op # "send"
    BY <1>d, <2>2, Zenon DEF Running
  <2> QED BY <2>1, <2>2, Zenon
<1>18. Bufs(qs2)'
  <2> SUFFICES ASSUME ~doubled
               PROVE  RxBufs(qs2["rx"], Buf', held') /\ NewBuf(qs2["rx"], Buf', drv', held')
    BY <1>0, Zenon DEF Bufs
  <2>0. "rx" \in Channels /\ "tx" # "rx"
    BY DEF Channels
  <2>1. RxBufs(qs["rx"], Buf, held)
    BY <1>2, Zenon
  <2>2. drv'.op \notin {"init", "free"}
    <3>1. drv.op = "send" => drv'.op = "send"
      BY <1>d, ZenonT(40)
    <3>2. drv.op # "send" => drv'.op = "none"
      BY <1>d DEF NoCall
    <3> QED BY <3>1, <3>2
  <2>3. NewBuf(qs2["rx"], Buf', drv', held')
    BY <2>2, NoNewBuf, Zenon
  <2>4. CASE ch = "rx"
    <3>1. drv.op # "send"
      BY <1>2, <2>0, <2>4, Zenon DEF OpsOK
    <3>2. held' = Buf[q[1]]
      <4>1. Buf[d] = desc[d].buf
        BY <1>4, Zenon DEF Buf
      <4> QED BY <1>d, <1>4, <3>1, <4>1, Zenon
    <3>3. RxBufs(t, Buf, held')
      <4>1. RxBufs(q, Buf, held)
        BY <2>1, <2>4, Zenon DEF q
      <4>2. RxBufs(t, Buf, Buf[q[1]])
        BY <1>3, <1>4, <4>1, RxPop, Zenon DEF t
      <4> QED BY <3>2, <4>2, Zenon
    <3>4. SameBuf(t, Buf, Buf')
      BY <1>4, <1>6, <1>e, Zenon DEF SameBuf
    <3>5. RxBufs(t, Buf', held')
      BY <1>5, <3>3, <3>4, RxFrame, Zenon
    <3> QED BY <1>10, <2>3, <2>4, <3>5, <2>0, Zenon
  <2>5. CASE ch # "rx"
    <3>1. drv.op = "send"
      <4>1. drv.op \in {"init", "send", "recv", "free"}
        BY <1>0, InCall
      <4> QED BY <1>2, <2>5, <4>1 DEF OpsOK
    <3>2. held' = held
      BY <1>d, <3>1, Zenon
    <3>3. SameBuf(qs["rx"], Buf, Buf') /\ qs["rx"] \in Seq(Descs)
      BY <1>6, <1>e, <1>p, <2>0, <2>5, Zenon DEF SameBuf
    <3>4. RxBufs(qs["rx"], Buf', held)
      BY <2>1, <3>3, RxFrame, Zenon
    <3> QED BY <1>10, <2>0, <2>3, <2>5, <3>2, <3>4, Zenon
  <2> QED BY <2>4, <2>5, Zenon
<1> QED BY <1>10, <1>11, <1>14, <1>16, <1>17, <1>18, Zenon

\* A call begins with an access that needs nothing of the queues.
LEMMA CallBegins ==
    ASSUME NEW pool, NEW qs, NEW at, Lists(pool, qs, at), drv = NoCall, NEW c, drv' = c,
           desc' = desc, free' = free, chan' = chan, hdp' = hdp, dma' = dma,
           c.pc \in {"submit", "process"}, OpsOK(c, held')
    PROVE  /\ (Lists(pool, qs, at) /\ Running(qs))'
           /\ Buf' = Buf
<1>1. Taken = {} /\ Taken' = {}
  BY DEF Taken, NoCall
<1>2. Lists(pool, qs, at)' /\ Nx' = Nx /\ Buf' = Buf /\ Own' = Own /\ Eoq' = Eoq
  BY <1>1, ListsKept, Zenon
<1>3. CallOK(qs[c.ch], hdp'[c.ch], c, Own', Eoq') /\ TakenOK(c, Nx', Own', Eoq')
  BY DEF CallOK, TakenOK
<1>4. Running(qs)'
  BY <1>3, Zenon DEF Running
<1> QED BY <1>2, <1>4, Zenon

\* The operations that start with the queues as they are.
LEMMA OpsBegin ==
    ASSUME CpswTypeOK, NEW pool \in Seq(Descs), NEW qs \in [Channels -> Seq(Descs)],
           NEW at \in [Descs -> Places], Lists(pool, qs, at), Running(qs), Bufs(qs),
           _cpsw_send \/ _cpsw_recv \/ cpsw_eth_free_pkt
    PROVE  (Lists(pool, qs, at) /\ Running(qs) /\ Bufs(qs))'
<1>1. /\ drv = NoCall /\ desc' = desc /\ free' = free /\ chan' = chan /\ hdp' = hdp
      /\ dma' = dma /\ doubled' = doubled
  BY DEF _cpsw_send, _cpsw_recv, cpsw_eth_free_pkt, queues, stack
<1>2. CASE _cpsw_send
  <2> DEFINE c == Call("send", "process", "tx", TxPacket)
  <2>1. c.pc \in {"submit", "process"} /\ c.op = "send" /\ OpsOK(c, held')
    BY DEF Call, OpsOK
  <2> HIDE DEF c
  <2>2. drv' = c /\ held' = held
    BY <1>2 DEF _cpsw_send, stack, c
  <2>3. (Lists(pool, qs, at) /\ Running(qs))' /\ Buf' = Buf
    BY <1>1, <2>1, <2>2, CallBegins, Zenon
  <2>4. NewBuf(qs["rx"], Buf, c, held)
    BY <2>1, NoNewBuf
  <2>5. Bufs(qs)'
    BY <1>1, <2>2, <2>3, <2>4, Zenon DEF Bufs
  <2> QED BY <2>3, <2>5, Zenon
<1>3. CASE _cpsw_recv
  <2> DEFINE c == Call("recv", "process", "rx", Nil)
  <2>1. drv' = c /\ held' = held /\ held = Nil
    BY <1>3, Zenon DEF _cpsw_recv, stack
  <2>2. c.pc \in {"submit", "process"} /\ c.op = "recv" /\ OpsOK(c, held')
    BY <2>1 DEF Call, OpsOK
  <2> HIDE DEF c
  <2>3. (Lists(pool, qs, at) /\ Running(qs))' /\ Buf' = Buf
    BY <1>1, <2>1, <2>2, CallBegins, Zenon
  <2>4. NewBuf(qs["rx"], Buf, c, held)
    BY <2>2, NoNewBuf
  <2>5. Bufs(qs)'
    BY <1>1, <2>1, <2>3, <2>4, Zenon DEF Bufs
  <2> QED BY <2>3, <2>5, Zenon
<1>4. CASE cpsw_eth_free_pkt
  <2> DEFINE c == Call("free", "submit", "rx", held)
  <2>1. drv' = c /\ held' = Nil /\ held # Nil
    BY <1>4, Zenon DEF cpsw_eth_free_pkt
  <2>2. c.pc = "submit" /\ c.pc \in {"submit", "process"} /\ c.op = "free" /\ c.b = held /\ OpsOK(c, held')
    BY <2>1 DEF Call, OpsOK
  <2> HIDE DEF c
  <2>3. (Lists(pool, qs, at) /\ Running(qs))' /\ Buf' = Buf
    BY <1>1, <2>1, <2>2, CallBegins, Zenon
  <2>4. held \in 1 .. NumRx /\ \A x \in 1 .. NumRx : x # Nil
    BY <2>1, NumRxAssumption DEF CpswTypeOK, Buffers, Nil
  <2>5. ASSUME ~doubled
        PROVE  RxBufs(qs["rx"], Buf, Nil) /\ NewBuf(qs["rx"], Buf, c, Nil)
    <3>1. RxBufs(qs["rx"], Buf, held)
      BY <2>5, Zenon DEF Bufs
    <3>2. \A d \in Elements(qs["rx"]) : Buf[d] \in 1 .. NumRx /\ Buf[d] # held /\ Buf[d] # Nil
      BY <2>4, <3>1, Zenon DEF RxBufs
    <3>3. RxBufs(qs["rx"], Buf, Nil)
      BY <3>1, <3>2, Zenon DEF RxBufs
    <3>4. c.op # "init" /\ c.pc # "link"
      BY <2>2
    <3>5. NewBuf(qs["rx"], Buf, c, Nil)
      BY <2>2, <2>4, <3>2, <3>4, Zenon DEF NewBuf
    <3> QED BY <3>3, <3>5, Zenon
  <2>6. Bufs(qs)'
    BY <1>1, <2>1, <2>3, <2>5, Zenon DEF Bufs
  <2> QED BY <2>3, <2>6, Zenon
<1> QED BY <1>2, <1>3, <1>4, Zenon

\* The engine is stopped (_cpsw_halt).
LEMMA HaltInv ==
    ASSUME CpswTypeOK, NEW pool \in Seq(Descs), NEW qs \in [Channels -> Seq(Descs)],
           NEW at \in [Descs -> Places], Lists(pool, qs, at), Running(qs), Bufs(qs),
           _cpsw_halt
    PROVE  (Lists(pool, qs, at) /\ Running(qs) /\ Bufs(qs))'
<1>1. /\ drv = NoCall /\ drv' = drv /\ desc' = desc /\ free' = free /\ chan' = chan
      /\ doubled' = doubled /\ held' = held
      /\ hdp' = [ch \in Channels |-> Nil] /\ dma' = [ch \in Channels |-> DmaIdle]
  BY DEF _cpsw_halt
<1>2. Nx' = Nx /\ Buf' = Buf /\ Own' = Own /\ Eoq' = Eoq
  BY <1>1, FieldsKept, Zenon
<1>3. Taken' = Taken
  BY <1>1, Zenon DEF Taken
<1>4. ASSUME NEW ch \in Channels
      PROVE  ChanOK(qs[ch], chan[ch], hdp'[ch], dma'[ch], Nx, Own, Eoq)
  <2>1. ChanOK(qs[ch], chan[ch], hdp[ch], dma[ch], Nx, Own, Eoq)
    BY Zenon DEF Lists
  <2>2. hdp'[ch] = Nil /\ dma'[ch].desc = Nil
    BY <1>1 DEF DmaIdle
  <2>3. ChanOK(qs[ch], chan[ch], Nil, dma'[ch], Nx, Own, Eoq)
    BY <2>1, <2>2, ChanHalt, Zenon
  <2> QED BY <2>2, <2>3, Zenon
<1>5. Lists(pool, qs, at)'
  BY <1>1, <1>2, <1>3, <1>4, Zenon DEF Lists
<1>6. Running(qs)' /\ Bufs(qs)'
  BY <1>1, <1>2, Zenon DEF Running, Bufs
<1> QED BY <1>5, <1>6, Zenon

\* The device is started: the pool is filled, the queues are empty (_cpsw_init).
LEMMA StartInv ==
    ASSUME CpswTypeOK, _cpsw_init
    PROVE  \E pool2 \in Seq(Descs), qs2 \in [Channels -> Seq(Descs)], at2 \in [Descs -> Places] :
              (Lists(pool2, qs2, at2) /\ Running(qs2) /\ Bufs(qs2))'
<1> DEFINE n == 2 * NumRx
           pool == [k \in 1 .. n |-> k]
           qs == [ch \in Channels |-> <<>>]
           at == [d \in Descs |-> "pool"]
           c == Call("init", "submit", "rx", 1)
<1>0. /\ desc' = [d \in Descs |-> [Blank EXCEPT !.next = IF d = n THEN Nil ELSE d + 1]]
      /\ free' = 1 /\ chan' = [ch \in Channels |-> [head |-> Nil, tail |-> Nil]]
      /\ hdp' = [ch \in Channels |-> Nil] /\ dma' = [ch \in Channels |-> DmaIdle]
      /\ drv' = c /\ doubled' = (held # Nil) /\ held' = held
  BY DEF _cpsw_init
<1>1. n \in Nat /\ n >= 2 /\ Descs = 1 .. n /\ 1 \in 1 .. NumRx
  BY NumRxAssumption DEF Descs
<1>2. Own' = {} /\ Eoq' = {}
  BY <1>0 DEF Own, Eoq, Blank
<1>3. Nx' = [d \in Descs |-> IF d = n THEN Nil ELSE d + 1]
  BY <1>0 DEF Nx, Blank
<1> HIDE DEF n
<1>4. /\ pool \in Seq(Descs) /\ Len(pool) = n /\ pool # <<>> /\ \A k \in 1 .. n : pool[k] = k
  BY <1>1
<1>5. Path(pool, 1, Nx') /\ Inj(pool) /\ Elements(pool) = Descs
  <2>1. DOMAIN pool = 1 .. n
    OBVIOUS
  <2> HIDE DEF pool
  <2>2. ASSUME NEW k \in 1 .. Len(pool)
        PROVE  Nx'[pool[k]] = IF k = Len(pool) THEN Nil ELSE pool[k + 1]
    <3>1. k # n => k + 1 \in 1 .. n
      BY <1>1, <1>4
    <3>2. pool[k] = k /\ k \in Descs
      BY <1>1, <1>4
    <3> QED BY <1>3, <1>4, <3>1, <3>2
  <2>3. 1 = pool[1]
    BY <1>1, <1>4
  <2>4. Path(pool, 1, Nx')
    BY <1>4, <2>2, <2>3, Zenon DEF Path
  <2>5. Inj(pool)
    BY <1>4, Zenon DEF Inj
  <2>6. Elements(pool) = Descs
    BY <1>1, <1>4, <2>1 DEF Elements
  <2> QED BY <2>4, <2>5, <2>6, Zenon
<1>6. <<>> \in Seq(Descs) /\ Path(<<>>, Nil, Nx') /\ Inj(<<>>) /\ Elements(<<>>) = {} /\ Len(<<>>) = 0
  BY Empty
<1>7. qs \in [Channels -> Seq(Descs)] /\ at \in [Descs -> Places] /\ \A ch \in Channels : qs[ch] = <<>>
  BY <1>6, Zenon DEF Places
<1>8. c.pc = "submit" /\ c.op = "init" /\ c.b = 1 /\ c.i = 1 /\ c # NoCall /\ OpsOK(c, held')
  BY DEF Call, NoCall, OpsOK
<1> HIDE DEF c, pool
<1>9. Taken' = {}
  BY <1>0, <1>8 DEF Taken
<1>10. Placed(pool, qs, at, {})
  BY <1>5, <1>6, <1>7 DEF Placed, Channels
<1>11. ASSUME NEW ch \in Channels
       PROVE  ChanOK(<<>>, chan'[ch], hdp'[ch], dma'[ch], Nx', Own', Eoq')
  <2>1. chan'[ch].head = Nil /\ hdp'[ch] = Nil /\ dma'[ch].desc = Nil
    BY <1>0 DEF DmaIdle
  <2>2. Ordered(<<>>, Own', Nil)
    BY DEF Ordered
  <2> QED BY <1>6, <2>1, <2>2, Zenon DEF ChanOK, Fetched
<1>12. ASSUME held = Nil
       PROVE  RxBufs(<<>>, Buf', held') /\ NewBuf(<<>>, Buf', c, held')
  <2>1. c.pc # "link" /\ held' = Nil
    BY <1>0, <1>8, <1>12
  <2>2. NewBuf(<<>>, Buf', c, held')
    BY <1>1, <1>6, <1>8, <2>1, Zenon DEF NewBuf
  <2>3. RxBufs(<<>>, Buf', held')
    BY <1>6 DEF RxBufs
  <2> QED BY <2>2, <2>3, Zenon
<1> HIDE DEF qs, at
<1>13. "rx" \in Channels
  BY DEF Channels
<1>14. Lists(pool, qs, at)'
  BY <1>0, <1>2, <1>5, <1>7, <1>9, <1>10, <1>11, Zenon DEF Lists
<1>15. Running(qs)'
  <2>1. CallOK(qs[c.ch], hdp'[c.ch], c, Own', Eoq') /\ TakenOK(c, Nx', Own', Eoq')
    BY <1>8, Zenon DEF CallOK, TakenOK
  <2> QED BY <1>0, <1>8, <2>1, Zenon DEF Running
<1>16. Bufs(qs)'
  BY <1>0, <1>7, <1>12, <1>13, Zenon DEF Bufs
<1> QED BY <1>4, <1>7, <1>14, <1>15, <1>16, Zenon

-----------------------------------------------------------------------------
\* The lists of a state, and the proof that a step has some of them again.
HasLists ==
    \E pool \in Seq(Descs), qs \in [Channels -> Seq(Descs)], at \in [Descs -> Places] :
        Lists(pool, qs, at) /\ Running(qs) /\ Bufs(qs)

\* Every step of the driver, of the engine and of the stack keeps the invariant.
LEMMA CpswNextInv ==
    ASSUME CpswInv, [CpswNext]_cpsw_vars
    PROVE  CpswInv'
<1>1. CpswTypeOK
  BY Zenon DEF CpswInv
<1>2. PICK pool \in Seq(Descs), qs \in [Channels -> Seq(Descs)], at \in [Descs -> Places] :
          Lists(pool, qs, at) /\ Running(qs) /\ Bufs(qs)
  BY Zenon DEF CpswInv
<1>3. PICK ch : ch = drv.ch
  OBVIOUS
<1> SUFFICES CpswTypeOK' /\ HasLists'
  BY Zenon DEF CpswInv, HasLists
<1>k. (Lists(pool, qs, at) /\ Running(qs) /\ Bufs(qs))' => HasLists'
  BY Zenon DEF HasLists
<1>4. ASSUME NEW c \in Channels, dma_fetch(c) \/ dma_done(c) PROVE CpswTypeOK' /\ HasLists'
  <2>1. CpswTypeOK'
    BY <1>1, <1>4, DmaTyped, Zenon
  <2>2. CASE dma_fetch(c)
    BY <1>1, <1>2, <1>k, <2>1, <2>2, FetchInv, Zenon
  <2>3. CASE dma_done(c)
    BY <1>1, <1>2, <1>k, <2>1, <2>3, DoneInv, Zenon
  <2> QED BY <1>4, <2>2, <2>3, Zenon
<1>5. CASE submit_fails \/ cpdma_submit \/ submit_link \/ submit_eoq
  <2>1. CpswTypeOK'
    BY <1>1, <1>5, SubmitTyped, Zenon
  <2>2. CASE submit_fails
    BY <1>1, <1>2, <1>k, <2>1, <2>2, SubmitFailsInv, Zenon
  <2>3. CASE cpdma_submit
    <3>1. PICK d : d = free
      OBVIOUS
    <3>2. CASE chan[drv.ch].head = Nil
      <4>1. HasLists'
        BY <1>1, <1>2, <1>3, <2>3, <3>1, <3>2, SubmitStartsInv, Zenon DEF HasLists
      <4> QED BY <2>1, <4>1, Zenon
    <3>3. CASE chan[drv.ch].head # Nil
      <4>1. HasLists'
        BY <1>1, <1>2, <1>3, <2>3, <3>1, <3>3, SubmitFillsInv, Zenon DEF HasLists
      <4> QED BY <2>1, <4>1, Zenon
    <3> QED BY <3>2, <3>3, Zenon
  <2>4. CASE submit_link
    <3>1. PICK d : d = drv.d
      OBVIOUS
    <3>2. HasLists'
      BY <1>1, <1>2, <1>3, <2>4, <3>1, LinkInv, Zenon DEF HasLists
    <3> QED BY <2>1, <3>2, Zenon
  <2>5. CASE submit_eoq
    BY <1>1, <1>2, <1>3, <1>k, <2>1, <2>5, EoqInv, Zenon
  <2> QED BY <1>5, <2>2, <2>3, <2>4, <2>5, Zenon
<1>6. CASE process_empty \/ cpdma_process \/ process_owned \/ process_hdp \/ process_again
  <2>1. CpswTypeOK'
    BY <1>1, <1>6, ProcessTyped, Zenon
  <2>2. CASE process_empty
    BY <1>1, <1>2, <1>k, <2>1, <2>2, EmptyInv, Zenon
  <2>3. CASE cpdma_process
    <3>1. PICK d : d = chan[drv.ch].head
      OBVIOUS
    <3>2. HasLists'
      BY <1>1, <1>2, <1>3, <2>3, <3>1, ProcessInv, Zenon DEF HasLists
    <3> QED BY <2>1, <3>2, Zenon
  <2>4. CASE process_owned
    BY <1>1, <1>2, <1>k, <2>1, <2>4, OwnedInv, Zenon
  <2>5. CASE process_hdp
    BY <1>1, <1>2, <1>k, <2>1, <2>5, HdpInv, Zenon
  <2>6. CASE process_again
    BY <1>1, <1>2, <1>3, <1>k, <2>1, <2>6, AgainInv, Zenon
  <2> QED BY <1>6, <2>2, <2>3, <2>4, <2>5, <2>6, Zenon
<1>7. CASE _cpsw_init \/ _cpsw_halt \/ _cpsw_send \/ _cpsw_recv \/ cpsw_eth_free_pkt
  <2>1. CpswTypeOK'
    BY <1>1, <1>7, DeviceTyped, Zenon
  <2>2. CASE _cpsw_init
    <3>1. HasLists'
      BY <1>1, <2>2, StartInv, Zenon DEF HasLists
    <3> QED BY <2>1, <3>1, Zenon
  <2>3. CASE _cpsw_halt
    BY <1>1, <1>2, <1>k, <2>1, <2>3, HaltInv, Zenon
  <2>4. CASE _cpsw_send \/ _cpsw_recv \/ cpsw_eth_free_pkt
    BY <1>1, <1>2, <1>k, <2>1, <2>4, OpsBegin, Zenon
  <2> QED BY <1>7, <2>2, <2>3, <2>4, Zenon
<1>8. CASE UNCHANGED cpsw_vars
  <2>1. /\ active' = active /\ desc' = desc /\ free' = free /\ chan' = chan /\ hdp' = hdp
        /\ dma' = dma /\ drv' = drv /\ held' = held /\ doubled' = doubled
    BY <1>8 DEF cpsw_vars, queues, stack
  <2>2. CpswTypeOK'
    BY <1>1, <2>1, Zenon DEF CpswTypeOK
  <2>3. Taken' = Taken
    BY <2>1, Zenon DEF Taken
  <2>4. Lists(pool, qs, at)' /\ Nx' = Nx /\ Buf' = Buf /\ Own' = Own /\ Eoq' = Eoq
    BY <1>2, <2>1, <2>3, ListsKept, Zenon
  <2>5. Running(qs)' /\ Bufs(qs)'
    BY <1>2, <2>1, <2>4, Zenon DEF Running, Bufs
  <2> QED BY <1>k, <2>2, <2>4, <2>5, Zenon
<1> QED BY <1>4, <1>5, <1>6, <1>7, <1>8, Zenon DEF CpswNext, Access, Receive

\* The invariant of the queues of the Ethernet driver holds for every number of
\* receive buffers.
THEOREM CpswInvariant == CpswSpec => []CpswInv
<1>1. CpswInit => CpswInv
  BY CpswInitInv, Zenon
<1>2. CpswInv /\ [CpswNext]_cpsw_vars => CpswInv'
  BY CpswNextInv, Zenon
<1> QED BY <1>1, <1>2, PTL DEF CpswSpec


-----------------------------------------------------------------------------
(***************************************************************************)
(* List(first) is the path from first: the recursion of its definition is  *)
(* the one function that has the path's values, and a path has no more     *)
(* descriptors than there are.                                             *)
(***************************************************************************)

LOCAL INSTANCE FiniteSetTheorems

\* A non-empty set of numbers has a least one.
LEMMA LeastDesc ==
    ASSUME NEW S \in SUBSET Nat, S # {}
    PROVE  \E n \in S : \A m \in S : n <= m
<1>1. PICK n \in S : \A m \in S : ~(<<m, n>> \in OpToRel(<, Nat))
  BY NatLessThanWellFounded, WFMin, Zenon
<1>2. \A m \in S : ~(m < n)
  BY <1>1, Zenon DEF OpToRel
<1>3. \A m \in S : n <= m
  BY <1>2
<1> QED BY <1>3, Zenon

\* A list without repetition is no longer than the pool.
LEMMA PathShort ==
    ASSUME NEW s \in Seq(Descs), Inj(s)
    PROVE  Len(s) <= 2 * NumRx
<1>1. /\ Len(s) \in Nat /\ 2 * NumRx \in Nat /\ Descs = 1 .. (2 * NumRx)
      /\ 1 \in Int /\ Len(s) \in Int /\ 2 * NumRx \in Int
  BY NumRxAssumption, SMTT(20) DEF Descs
<1>2. IsFiniteSet(1 .. Len(s)) /\ Cardinality(1 .. Len(s)) = Len(s)
  <2>1. /\ IsFiniteSet(1 .. Len(s))
        /\ Cardinality(1 .. Len(s)) = IF 1 > Len(s) THEN 0 ELSE Len(s) - 1 + 1
    BY <1>1, FS_Interval, Zenon
  <2> QED BY <1>1, <2>1
<1>3. IsFiniteSet(Descs) /\ Cardinality(Descs) = 2 * NumRx
  <2>1. /\ IsFiniteSet(Descs)
        /\ Cardinality(Descs) = IF 1 > 2 * NumRx THEN 0 ELSE 2 * NumRx - 1 + 1
    BY <1>1, FS_Interval, Zenon
  <2> QED BY <1>1, <2>1
<1>4. s \in [1 .. Len(s) -> Elements(s)]
  BY <1>1 DEF Elements
<1>5. \A i \in 1 .. Len(s) : s[i] \in Elements(s)
  BY <1>4
<1>6. s \in Bijection(1 .. Len(s), Elements(s))
  <2>1. \A i, j \in 1 .. Len(s) : s[i] = s[j] => i = j
    BY Zenon DEF Inj
  <2>2. \A d \in Elements(s) : \E i \in 1 .. Len(s) : s[i] = d
    BY ElementsAre, Zenon
  <2>3. IsInjective(s)
    <3>1. DOMAIN s = 1 .. Len(s)
      BY <1>4, Zenon
    <3> QED BY <2>1, <3>1, Zenon DEF IsInjective
  <2> QED BY <1>4, <2>2, <2>3, Zenon DEF Bijection, Injection, Surjection
<1>7. IsFiniteSet(Elements(s)) /\ Cardinality(Elements(s)) = Len(s)
  BY <1>2, <1>6, FS_Bijection, Zenon DEF ExistsBijection
<1>8. Cardinality(Elements(s)) <= Cardinality(Descs)
  BY <1>3, ElementsAre, FS_Subset
<1> QED BY <1>3, <1>7, <1>8, Zenon

\* One more step along a list.
After(prev) == IF prev = Nil THEN Nil ELSE desc[prev].next

\* The equation of nth in List.
Solves(g, first) == g = [i \in Descs |-> IF i = 1 THEN first ELSE After(g[i - 1])]

\* It has one solution.
LEMMA OneSolution ==
    ASSUME NEW first, NEW g, NEW w, Solves(g, first), Solves(w, first)
    PROVE  g = w
<1> DEFINE D == {i \in Descs : g[i] # w[i]}
<1>1. D \in SUBSET Nat
  BY NumRxAssumption DEF Descs
<1>2. CASE D = {}
  <2>2. g = [i \in Descs |-> g[i]] /\ w = [i \in Descs |-> w[i]]
    BY DEF Solves
  <2>3. \A i \in Descs : g[i] = w[i]
    BY <1>2, Zenon
  <2>4. [i \in Descs |-> g[i]] = [i \in Descs |-> w[i]]
    BY <2>3, Zenon
  <2> QED BY <2>2, <2>4, Zenon
<1>3. CASE D # {}
  <2>1. PICK n \in D : \A m \in D : n <= m
    BY <1>1, <1>3, LeastDesc, Zenon
  <2>2. n \in Descs /\ g[n] # w[n]
    BY <2>1, Zenon
  <2>3. g[n] = (IF n = 1 THEN first ELSE After(g[n - 1])) /\ w[n] = (IF n = 1 THEN first ELSE After(w[n - 1]))
    BY <2>2, Zenon DEF Solves
  <2>4. n # 1
    BY <2>2, <2>3, Zenon
  <2>5. n - 1 \in Descs /\ ~(n <= n - 1)
    BY <2>2, <2>4, NumRxAssumption DEF Descs
  <2>6. g[n - 1] = w[n - 1]
    BY <2>1, <2>5, Zenon
  <2> QED BY <2>2, <2>3, <2>4, <2>6, Zenon
<1> QED BY <1>2, <1>3, Zenon

\* List follows the successors to the end.
LEMMA ListIs ==
    ASSUME NEW first, NEW s, Path(s, first, Nx), Inj(s)
    PROVE  List(first) = s
<1> DEFINE nth[i \in Descs] ==
               IF i = 1 THEN first
               ELSE LET prev == nth[i - 1] IN IF prev = Nil THEN Nil ELSE desc[prev].next
           w == [i \in Descs |-> IF i <= Len(s) THEN s[i] ELSE Nil]
<1>1. s \in Seq(Descs) /\ Len(s) \in Nat /\ Len(s) <= 2 * NumRx
  <2>1. s \in Seq(Descs)
    BY Zenon DEF Path
  <2> QED BY <2>1, PathShort
<1>2. /\ \A i \in Descs : i \in Nat /\ i >= 1 /\ (i # 1 => i - 1 \in Descs)
      /\ \A i \in Descs : i <= Len(s) <=> i \in 1 .. Len(s)
      /\ \A i \in 1 .. Len(s) : i \in Descs
  BY <1>1, NumRxAssumption DEF Descs
<1>3. \A i \in 1 .. Len(s) : s[i] \in Descs
  BY <1>1
<1>4. Solves(w, first)
  <2>1. ASSUME NEW i \in Descs
        PROVE  w[i] = IF i = 1 THEN first ELSE After(w[i - 1])
    <3>1. w[i] = IF i <= Len(s) THEN s[i] ELSE Nil
      BY Zenon
    <3>2. CASE i = 1
      <4>1. s = <<>> <=> ~(1 <= Len(s))
        BY <1>1
      <4> QED BY <3>1, <3>2, <4>1, Zenon DEF Path
    <3>3. CASE i # 1
      <4>1. w[i - 1] = IF i - 1 <= Len(s) THEN s[i - 1] ELSE Nil
        BY <1>2, <3>3, Zenon
      <4>2. CASE i - 1 <= Len(s)
        <5>1. i - 1 \in 1 .. Len(s) /\ (i - 1) + 1 = i /\ (i - 1 = Len(s) <=> ~(i <= Len(s)))
          BY <1>1, <1>2, <3>3, <4>2
        <5>2. Nx[s[i - 1]] = IF i - 1 = Len(s) THEN Nil ELSE s[(i - 1) + 1]
          BY <5>1, Zenon DEF Path
        <5>3. s[i - 1] \in Descs /\ s[i - 1] # Nil /\ Nx[s[i - 1]] = desc[s[i - 1]].next
          BY <1>3, <5>1, NilApart, Zenon DEF Nx
        <5>4. After(w[i - 1]) = Nx[s[i - 1]]
          BY <4>1, <4>2, <5>3, Zenon DEF After
        <5>5. w[i] = Nx[s[i - 1]]
          BY <3>1, <5>1, <5>2, Zenon
        <5> QED BY <3>3, <5>4, <5>5, Zenon
      <4>3. CASE ~(i - 1 <= Len(s))
        <5>1. ~(i <= Len(s))
          BY <1>1, <1>2, <4>3
        <5> QED BY <3>1, <3>3, <4>1, <4>3, <5>1, Zenon DEF After
      <4> QED BY <4>2, <4>3, Zenon
    <3> QED BY <3>2, <3>3, Zenon
  <2>2. [i \in Descs |-> w[i]] = [i \in Descs |-> IF i = 1 THEN first ELSE After(w[i - 1])]
    BY ONLY <2>1, Zenon
  <2>3. w = [i \in Descs |-> w[i]]
    OBVIOUS
  <2> HIDE DEF w
  <2> QED BY <2>2, <2>3, Zenon DEF Solves
<1>5. nth = CHOOSE g : Solves(g, first)
  BY DEF After, Solves
<1>6. List(first) = [i \in {j \in Descs : nth[j] # Nil} |-> nth[i]]
  BY DEF List
<1> HIDE DEF nth
<1>7. Solves(nth, first)
  BY <1>4, <1>5, Zenon
<1>8. nth = w
  <2> HIDE DEF w
  <2> QED BY <1>4, <1>7, OneSolution, Zenon
<1>9. {j \in Descs : w[j] # Nil} = 1 .. Len(s)
  BY <1>2, <1>3, NilApart, Zenon
<1>10. \A i \in 1 .. Len(s) : w[i] = s[i]
  BY <1>2, Zenon
<1>11. s = [i \in 1 .. Len(s) |-> s[i]]
  BY <1>1
<1> HIDE DEF w
<1>12. List(first) = [i \in 1 .. Len(s) |-> w[i]]
  BY <1>6, <1>8, <1>9, Zenon
<1>13. [i \in 1 .. Len(s) |-> w[i]] = [i \in 1 .. Len(s) |-> s[i]]
  BY ONLY <1>10, Zenon
<1> QED BY <1>11, <1>12, <1>13, Zenon

\* The lists that the properties follow are the ones of the invariant.
LEMMA QueueIs ==
    ASSUME NEW pool, NEW qs, NEW at, Lists(pool, qs, at)
    PROVE  List(free) = pool /\ \A ch \in Channels : Queue(ch) = qs[ch]
<1>1. List(free) = pool
  BY ListIs, Zenon DEF Lists
<1>2. ASSUME NEW ch \in Channels PROVE Queue(ch) = qs[ch]
  <2>1. Path(qs[ch], chan[ch].head, Nx) /\ Inj(qs[ch])
    BY Zenon DEF Lists, ChanOK
  <2> QED BY <2>1, ListIs, Zenon DEF Queue
<1> QED BY <1>1, <1>2, Zenon

\* The engine works through each queue in order and works on no descriptor
\* twice, however cpdma_submit, cpdma_process and the engine interleave.
THEOREM QueuesInOrder == CpswSpec => []InOrder
<1>1. ASSUME CpswInv PROVE InOrder
  <2>1. PICK pool \in Seq(Descs), qs \in [Channels -> Seq(Descs)], at \in [Descs -> Places] :
            Lists(pool, qs, at)
    BY <1>1, Zenon DEF CpswInv
  <2>2. ASSUME NEW ch \in Channels
        PROVE  LET q == Queue(ch)
               IN /\ \A i, j \in DOMAIN q : i < j /\ desc[q[i]].own => desc[q[j]].own
                  /\ hdp[ch] # Nil => \E i \in DOMAIN q :
                         /\ q[i] = hdp[ch] /\ desc[q[i]].own
                         /\ \A j \in 1 .. (i - 1) : ~desc[q[j]].own
                  /\ dma[ch].desc # Nil => dma[ch].desc = hdp[ch]
    <3> DEFINE q == Queue(ch)
    <3>1. q = qs[ch]
      BY <2>1, QueueIs, Zenon
    <3> HIDE DEF q
    <3>2. ChanOK(q, chan[ch], hdp[ch], dma[ch], Nx, Own, Eoq)
      BY <2>1, <3>1, Zenon DEF Lists
    <3>3. Ordered(q, Own, hdp[ch]) /\ Fetched(dma[ch], hdp[ch], Nx) /\ q \in Seq(Descs)
      BY <3>2, Zenon DEF ChanOK, Path
    <3>4. DOMAIN q = 1 .. Len(q) /\ Len(q) \in Nat /\ \A i \in 1 .. Len(q) : q[i] \in Descs
      BY <3>3, SMTT(20)
    <3>5. \A i \in DOMAIN q : q[i] \in Own <=> desc[q[i]].own
      BY <3>4 DEF Own
    <3>6. \A i, j \in DOMAIN q : i < j /\ desc[q[i]].own => desc[q[j]].own
      BY <3>3, <3>4, <3>5, Zenon DEF Ordered
    <3>7. ASSUME hdp[ch] # Nil
          PROVE  \E i \in DOMAIN q :
                      /\ q[i] = hdp[ch] /\ desc[q[i]].own
                      /\ \A j \in 1 .. (i - 1) : ~desc[q[j]].own
      <4>1. PICK i \in 1 .. Len(q) : /\ q[i] = hdp[ch] /\ hdp[ch] \in Own
                                     /\ \A j \in 1 .. (i - 1) : q[j] \notin Own
        BY <3>3, <3>7, Zenon DEF Ordered
      <4>2. \A j \in 1 .. (i - 1) : j \in DOMAIN q
        BY <3>4
      <4>3. /\ i \in DOMAIN q /\ desc[q[i]].own /\ \A j \in 1 .. (i - 1) : ~desc[q[j]].own
        BY <3>4, <3>5, <4>1, <4>2, Zenon
      <4> QED BY <4>1, <4>3, Zenon
    <3>8. dma[ch].desc # Nil => dma[ch].desc = hdp[ch]
      BY <3>3, Zenon DEF Fetched
    <3> QED BY <3>6, <3>7, <3>8, Zenon DEF q
  <2> QED BY <2>2, Zenon DEF InOrder
<1> QED BY <1>1, CpswInvariant, PTL

\* Two lists behind one another.
LEMMA ElementsCat ==
    ASSUME NEW s \in Seq(Descs), NEW t \in Seq(Descs)
    PROVE  /\ s \o t \in Seq(Descs)
           /\ Elements(s \o t) = Elements(s) \cup Elements(t)
<1> DEFINE u == s \o t
<1>1. /\ Len(s) \in Nat /\ Len(t) \in Nat /\ u \in Seq(Descs) /\ Len(u) = Len(s) + Len(t)
      /\ \A i \in 1 .. Len(s) : u[i] = s[i]
      /\ \A i \in 1 .. Len(t) : u[Len(s) + i] = t[i]
  OBVIOUS
<1> HIDE DEF u
<1>2. ASSUME NEW d \in Elements(u) PROVE d \in Elements(s) \cup Elements(t)
  <2>1. PICK i \in 1 .. Len(u) : u[i] = d
    BY <1>1, ElementsAre, Zenon
  <2>2. CASE i \in 1 .. Len(s)
    BY <1>1, <2>1, <2>2, ElementsAre, Zenon
  <2>3. CASE i \notin 1 .. Len(s)
    <3>1. i - Len(s) \in 1 .. Len(t) /\ Len(s) + (i - Len(s)) = i
      BY <1>1, <2>3
    <3>2. t[i - Len(s)] = d
      BY <1>1, <2>1, <3>1, Zenon
    <3> QED BY <3>1, <3>2, ElementsAre, Zenon
  <2> QED BY <2>2, <2>3, Zenon
<1>3. ASSUME NEW d \in Elements(s) PROVE d \in Elements(u)
  <2>1. PICK i \in 1 .. Len(s) : s[i] = d
    BY ElementsAre, Zenon
  <2>2. i \in 1 .. Len(u)
    BY <1>1
  <2> QED BY <1>1, <2>1, <2>2, ElementsAre, Zenon
<1>4. ASSUME NEW d \in Elements(t) PROVE d \in Elements(u)
  <2>1. PICK i \in 1 .. Len(t) : t[i] = d
    BY ElementsAre, Zenon
  <2>2. Len(s) + i \in 1 .. Len(u)
    BY <1>1
  <2> QED BY <1>1, <2>1, <2>2, ElementsAre, Zenon
<1> QED BY <1>1, <1>2, <1>3, <1>4, Zenon DEF u

\* Two lists with nothing in common.
LEMMA InjCat ==
    ASSUME NEW s \in Seq(Descs), NEW t \in Seq(Descs), Inj(s), Inj(t),
           Elements(s) \cap Elements(t) = {}
    PROVE  Inj(s \o t)
<1> DEFINE u == s \o t
<1>1. /\ Len(s) \in Nat /\ Len(t) \in Nat /\ Len(u) = Len(s) + Len(t)
      /\ \A i \in 1 .. Len(s) : u[i] = s[i]
      /\ \A i \in 1 .. Len(t) : u[Len(s) + i] = t[i]
  OBVIOUS
<1> HIDE DEF u
<1>2. ASSUME NEW i \in 1 .. Len(u)
      PROVE  \/ i \in 1 .. Len(s) /\ u[i] = s[i] /\ u[i] \in Elements(s)
             \/ i - Len(s) \in 1 .. Len(t) /\ u[i] = t[i - Len(s)] /\ u[i] \in Elements(t)
  <2>1. CASE i \in 1 .. Len(s)
    BY <1>1, <2>1, ElementsAre, Zenon
  <2>2. CASE i \notin 1 .. Len(s)
    <3>1. i - Len(s) \in 1 .. Len(t) /\ Len(s) + (i - Len(s)) = i
      BY <1>1, <2>2
    <3>2. u[i] = t[i - Len(s)]
      BY <1>1, <3>1, Zenon
    <3> QED BY <3>1, <3>2, ElementsAre, Zenon
  <2> QED BY <2>1, <2>2, Zenon
<1>3. ASSUME NEW i \in 1 .. Len(u), NEW j \in 1 .. Len(u), u[i] = u[j] PROVE i = j
  <2>1. \/ i \in 1 .. Len(s) /\ j \in 1 .. Len(s) /\ s[i] = s[j]
        \/ i - Len(s) \in 1 .. Len(t) /\ j - Len(s) \in 1 .. Len(t) /\ t[i - Len(s)] = t[j - Len(s)]
    BY <1>2, <1>3, Zenon
  <2>2. i = j \/ i - Len(s) = j - Len(s)
    BY <2>1, Zenon DEF Inj
  <2> QED BY <1>1, <2>2
<1>4. Inj(u)
  BY <1>3, Zenon DEF Inj
<1> QED BY <1>4, Zenon DEF u

\* No descriptor is lost and none is in two lists, whatever the channels take
\* from the pool and put back (cpdma_desc_alloc, cpdma_desc_free).
THEOREM DescriptorsAccounted == CpswSpec => []Accounted
<1>1. ASSUME CpswInv PROVE Accounted
  <2>1. PICK pool \in Seq(Descs), qs \in [Channels -> Seq(Descs)], at \in [Descs -> Places] :
            Lists(pool, qs, at)
    BY <1>1, Zenon DEF CpswInv
  <2> DEFINE rx == qs["rx"]
             tx == qs["tx"]
             all == pool \o rx \o tx
  <2>2. "rx" \in Channels /\ "tx" \in Channels /\ Channels = {"rx", "tx"}
    BY Zenon DEF Channels
  <2>3. List(free) = pool /\ Queue("rx") = rx /\ Queue("tx") = tx
    BY <2>1, <2>2, QueueIs, Zenon
  <2>4. /\ rx \in Seq(Descs) /\ tx \in Seq(Descs) /\ Inj(pool) /\ Inj(rx) /\ Inj(tx)
        /\ Path(pool, free, Nx) /\ Path(rx, chan["rx"].head, Nx) /\ Path(tx, chan["tx"].head, Nx)
        /\ Placed(pool, qs, at, Taken)
    BY <2>1, <2>2, Zenon DEF Lists, ChanOK
  <2>5. /\ Elements(pool) = {d \in Descs : at[d] = "pool"} /\ Taken = {d \in Descs : at[d] = "taken"}
        /\ Elements(rx) = {d \in Descs : at[d] = "rx"} /\ Elements(tx) = {d \in Descs : at[d] = "tx"}
        /\ (\A d \in Descs : at[d] = "none") \/ (\A d \in Descs : at[d] # "none")
    BY <2>2, <2>4, Zenon DEF Placed
  <2> HIDE DEF rx, tx
  <2> SUFFICES ASSUME free # Nil \/ (\E ch \in Channels : chan[ch].head # Nil)
               PROVE  /\ Elements(all) \cup Taken = Descs /\ Elements(all) \cap Taken = {}
                      /\ \A i, j \in DOMAIN all : all[i] = all[j] => i = j
    BY <2>3, Zenon DEF Accounted
  <2>6. \A d \in Descs : at[d] # "none"
    <3>1. pool # <<>> \/ rx # <<>> \/ tx # <<>>
      BY <2>2, <2>4, Zenon DEF Path
    <3>2. \A s \in Seq(Descs) : s # <<>> => s[1] \in Elements(s) /\ s[1] \in Descs
      <4>1. \A s \in Seq(Descs) : s # <<>> => 1 \in 1 .. Len(s)
        OBVIOUS
      <4> QED BY <4>1, ElementsAre
    <3>3. \E d \in Descs : d \in Elements(pool) \/ d \in Elements(rx) \/ d \in Elements(tx)
      BY <2>4, <3>1, <3>2, Zenon
    <3>4. PICK d \in Descs : at[d] \in {"pool", "rx", "tx"}
      BY <2>5, <3>3
    <3>5. at[d] # "none"
      BY <3>4, Zenon
    <3> QED BY <2>5, <3>5, Zenon
  <2>7. /\ Elements(pool) \cap Elements(rx) = {}
        /\ (Elements(pool) \cup Elements(rx)) \cap Elements(tx) = {}
    BY <2>5
  <2>8. /\ all \in Seq(Descs) /\ Inj(all)
        /\ Elements(all) = (Elements(pool) \cup Elements(rx)) \cup Elements(tx)
    <3> DEFINE pr == pool \o rx
    <3>1. pr \in Seq(Descs) /\ Elements(pr) = Elements(pool) \cup Elements(rx) /\ Inj(pr)
      BY <2>4, <2>7, ElementsCat, InjCat, Zenon
    <3> HIDE DEF pr
    <3>2. Elements(pr) \cap Elements(tx) = {}
      BY <2>7, <3>1, Zenon
    <3>3. /\ pr \o tx \in Seq(Descs) /\ Inj(pr \o tx)
          /\ Elements(pr \o tx) = Elements(pr) \cup Elements(tx)
      BY <2>4, <3>1, <3>2, ElementsCat, InjCat, Zenon
    <3>4. all = pr \o tx
      BY Zenon DEF pr
    <3> HIDE DEF all
    <3> QED BY <3>1, <3>3, <3>4, Zenon
  <2> HIDE DEF all
  <2>9. Elements(all) \cup Taken = Descs
    <3>1. \A d \in Descs : at[d] \in {"pool", "rx", "tx", "taken"}
      BY <2>6, Zenon DEF Places
    <3> QED BY <2>5, <2>8, <3>1
  <2>10. Elements(all) \cap Taken = {}
    BY <2>5, <2>8
  <2>11. DOMAIN all = 1 .. Len(all)
    BY <2>8
  <2> QED BY <2>8, <2>9, <2>10, <2>11, Zenon DEF Inj
<1> QED BY <1>1, CpswInvariant, PTL

\* The engine has every receive buffer once and not the one the stack works on,
\* unless the device is started while the stack holds one.
THEOREM BuffersGivenOnce == CpswSpec => []BuffersOnce
<1>1. ASSUME CpswInv PROVE BuffersOnce
  <2>1. PICK pool \in Seq(Descs), qs \in [Channels -> Seq(Descs)], at \in [Descs -> Places] :
            Lists(pool, qs, at) /\ Bufs(qs)
    BY <1>1, Zenon DEF CpswInv
  <2> DEFINE rx == qs["rx"]
  <2>2. "rx" \in Channels
    BY DEF Channels
  <2>3. Queue("rx") = rx /\ rx \in Seq(Descs) /\ Inj(rx)
    BY <2>1, <2>2, QueueIs, Zenon DEF Lists, ChanOK
  <2> SUFFICES ASSUME ~doubled
               PROVE  LET q == Queue("rx")
                      IN /\ held \notin RxBuffers
                         /\ \A i, j \in DOMAIN q : desc[q[i]].buf = desc[q[j]].buf => i = j
    BY Zenon DEF BuffersOnce
  <2>4. RxBufs(rx, Buf, held)
    BY <2>1, Zenon DEF Bufs
  <2> HIDE DEF rx
  <2>5. \A d \in Elements(rx) : d \in Descs /\ desc[d].buf = Buf[d]
    <3>1. Elements(rx) \subseteq Descs
      BY <2>3, ElementsAre, Zenon
    <3> QED BY <3>1 DEF Buf
  <2>6. RxBuffers = {Buf[d] : d \in Elements(rx)}
    BY <2>3, <2>5, Zenon DEF RxBuffers
  <2>7. held \notin RxBuffers
    BY <2>4, <2>6 DEF RxBufs
  <2>8. DOMAIN rx = 1 .. Len(rx) /\ \A i \in 1 .. Len(rx) : rx[i] \in Elements(rx)
    BY <2>3, SMTT(20) DEF Elements
  <2>9. \A i, j \in DOMAIN rx : desc[rx[i]].buf = desc[rx[j]].buf => i = j
    <3>1. \A i \in DOMAIN rx : desc[rx[i]].buf = Buf[rx[i]]
      BY <2>5, <2>8, Zenon
    <3>2. \A i, j \in DOMAIN rx : Buf[rx[i]] = Buf[rx[j]] => i = j
      BY <2>4, <2>8, Zenon DEF RxBufs
    <3> QED BY <3>1, <3>2
  <2> QED BY <2>3, <2>7, <2>9, Zenon
<1> QED BY <1>1, CpswInvariant, PTL
=============================================================================
