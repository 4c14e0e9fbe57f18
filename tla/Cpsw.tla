-------------------------------- MODULE Cpsw --------------------------------
(***************************************************************************)
(* The packet queues of the CPSW Ethernet driver (drivers/net/cpsw.c) and  *)
(* the DMA engine that runs beside it.                                     *)
(*                                                                         *)
(* The descriptors of both channels come from one pool.  A queue is a list *)
(* through hw_next from chan->head; the engine starts where the driver     *)
(* writes the channel's head descriptor pointer (hdp), goes on as long as  *)
(* hw_next leads somewhere, and stops with EOQ set where it does not.  The *)
(* driver appends to a queue the engine may be about to leave, so it looks *)
(* at EOQ after it appended, and at hdp whenever it meets a descriptor the *)
(* engine still owns.                                                      *)
(*                                                                         *)
(* Each access to a field the engine uses too is a step of its own.        *)
(***************************************************************************)
EXTENDS Integers, Sequences

CONSTANT NumRx    \* PKTBUFSRX: the receive buffers

ASSUME NumRxAssumption == NumRx \in Nat /\ NumRx >= 1

Descs == 1..(2 * NumRx)
Nil == 0
TxPacket == 0     \* stands for any packet that is sent
Channels == {"rx", "tx"}

VARIABLES
    active,   \* the device is started
    desc,     \* priv->descs
    free,     \* priv->desc_free
    chan,     \* priv->rx_chan, priv->tx_chan: head and tail
    hdp,      \* the engine's registers RXHDP and TXHDP
    dma,      \* the engine: the descriptor it works on, the successor it read
    drv,      \* the call of the driver that is in progress
    held,     \* the receive buffer net_process_received_packet works on
    inloop,   \* eth_rx is in its loop over received packets
    doubled   \* ghost: the device was started while a buffer was held

cpsw_vars == <<active, desc, free, chan, hdp, dma, drv, held, inloop, doubled>>
queues == <<desc, free, chan, hdp>>
stack == <<active, held, inloop, doubled>>

\* drv.op is the operation, drv.pc the next access of it, drv.ch the channel;
\* for a submission drv.b is the buffer, drv.d its descriptor and drv.prev
\* the one before; _cpsw_init has submitted the first drv.i buffers.
NoCall == [op |-> "none", pc |-> "idle"]
Call(op, pc, ch, b) ==
    [op |-> op, pc |-> pc, ch |-> ch, b |-> b, d |-> Nil, prev |-> Nil, i |-> 1]

\* A descriptor of the pool: cpdma_submit fills every field but hw_next.
Blank == [next |-> Nil, buf |-> TxPacket, own |-> FALSE, eoq |-> FALSE]

DmaIdle == [desc |-> Nil, next |-> Nil]

-----------------------------------------------------------------------------
(***************************************************************************)
(* The DMA engine (external).  It reads a descriptor when it comes to it,  *)
(* and writes it and hdp back when the packet was received or sent.        *)
(***************************************************************************)
dma_fetch(ch) ==
    /\ active /\ hdp[ch] # Nil /\ dma[ch].desc = Nil
    /\ dma' = [dma EXCEPT ![ch] = [desc |-> hdp[ch], next |-> desc[hdp[ch]].next]]
    /\ UNCHANGED <<queues, drv, stack>>

dma_done(ch) ==
    /\ dma[ch].desc # Nil
    /\ desc' = [desc EXCEPT ![dma[ch].desc].own = FALSE,
                            ![dma[ch].desc].eoq = (dma[ch].next = Nil)]
    /\ hdp' = [hdp EXCEPT ![ch] = dma[ch].next]
    /\ dma' = [dma EXCEPT ![ch] = DmaIdle]
    /\ UNCHANGED <<free, chan, drv, stack>>

-----------------------------------------------------------------------------
(***************************************************************************)
(* cpdma_submit.                                                           *)
(***************************************************************************)

\* What follows a submission: _cpsw_init goes on to the next buffer.
Submitted ==
    IF drv.op = "init" /\ drv.i < NumRx
    THEN [Call("init", "submit", "rx", drv.i + 1) EXCEPT !.i = drv.i + 1]
    ELSE NoCall

\* cpdma_desc_alloc fails: -ENOMEM.
submit_fails ==
    /\ drv.pc = "submit" /\ free = Nil
    /\ drv' = NoCall
    /\ UNCHANGED <<queues, dma, stack>>

\* A descriptor is taken and filled; the first one of the queue starts it.
cpdma_submit ==
    /\ drv.pc = "submit" /\ free # Nil
    /\ free' = desc[free].next
    /\ desc' = [desc EXCEPT ![free] = [next |-> Nil, buf |-> drv.b, own |-> TRUE, eoq |-> FALSE]]
    /\ IF chan[drv.ch].head = Nil
       THEN /\ chan' = [chan EXCEPT ![drv.ch] = [head |-> free, tail |-> free]]
            /\ hdp' = [hdp EXCEPT ![drv.ch] = free]
            /\ drv' = Submitted
       ELSE /\ drv' = [drv EXCEPT !.pc = "link", !.d = free]
            /\ UNCHANGED <<chan, hdp>>
    /\ UNCHANGED <<dma, stack>>

submit_link ==
    /\ drv.pc = "link"
    /\ desc' = [desc EXCEPT ![chan[drv.ch].tail].next = drv.d]
    /\ chan' = [chan EXCEPT ![drv.ch].tail = drv.d]
    /\ drv' = [drv EXCEPT !.pc = "eoq", !.prev = chan[drv.ch].tail]
    /\ UNCHANGED <<free, hdp, dma, stack>>

submit_eoq ==
    /\ drv.pc = "eoq"
    /\ hdp' = IF desc[drv.prev].eoq THEN [hdp EXCEPT ![drv.ch] = drv.d] ELSE hdp
    /\ drv' = Submitted
    /\ UNCHANGED <<desc, free, chan, dma, stack>>

-----------------------------------------------------------------------------
(***************************************************************************)
(* cpdma_process.                                                          *)
(***************************************************************************)

\* -ENOENT or -EBUSY: _cpsw_send goes on to submit its packet, eth_rx leaves
\* its loop.
NothingDone ==
    /\ drv' = IF drv.op = "send" THEN Call("send", "submit", "tx", TxPacket) ELSE NoCall
    /\ inloop' = IF drv.op = "recv" THEN FALSE ELSE inloop
    /\ UNCHANGED <<active, held, doubled>>

process_empty ==
    /\ drv.pc = "process" /\ chan[drv.ch].head = Nil
    /\ NothingDone
    /\ UNCHANGED <<queues, dma>>

\* Mutant: the descriptor does not go back to the pool.
ProcessLeaks ==
    /\ drv.pc = "process" /\ chan[drv.ch].head # Nil /\ ~desc[chan[drv.ch].head].own
    /\ LET d == chan[drv.ch].head
       IN /\ chan' = [chan EXCEPT ![drv.ch].head = desc[d].next]
          /\ IF drv.op = "send"
             THEN UNCHANGED <<drv, held, inloop>>
             ELSE drv' = NoCall /\ held' = desc[d].buf /\ inloop' = TRUE
    /\ UNCHANGED <<desc, free, hdp, dma, active, doubled>>

\* The first descriptor is done: it leaves the queue for the pool.  A sender
\* looks for more of them, a receiver has its packet.
cpdma_process ==
    /\ drv.pc = "process" /\ chan[drv.ch].head # Nil /\ ~desc[chan[drv.ch].head].own
    /\ LET d == chan[drv.ch].head
       IN /\ chan' = [chan EXCEPT ![drv.ch].head = desc[d].next]
          /\ desc' = [desc EXCEPT ![d] = [Blank EXCEPT !.next = free]]
          /\ free' = d
          /\ IF drv.op = "send"
             THEN UNCHANGED <<drv, held, inloop>>
             ELSE drv' = NoCall /\ held' = desc[d].buf /\ inloop' = TRUE
    /\ UNCHANGED <<hdp, dma, active, doubled>>

process_owned ==
    /\ drv.pc = "process" /\ chan[drv.ch].head # Nil /\ desc[chan[drv.ch].head].own
    /\ drv' = [drv EXCEPT !.pc = "hdp"]
    /\ UNCHANGED <<queues, dma, stack>>

\* Mutant: an engine that stopped is left alone.
HdpIgnored ==
    /\ drv.pc = "hdp"
    /\ NothingDone
    /\ UNCHANGED <<queues, dma>>

process_hdp ==
    /\ drv.pc = "hdp"
    /\ IF hdp[drv.ch] = Nil
       THEN drv' = [drv EXCEPT !.pc = "again"] /\ UNCHANGED stack
       ELSE NothingDone
    /\ UNCHANGED <<queues, dma>>

\* Mutant: OWNER is not read again after hdp.
AgainUnchecked ==
    /\ drv.pc = "again"
    /\ hdp' = [hdp EXCEPT ![drv.ch] = chan[drv.ch].head]
    /\ NothingDone
    /\ UNCHANGED <<desc, free, chan, dma>>

\* The engine stopped before a descriptor it owns, which was appended too
\* late: start it again.
process_again ==
    /\ drv.pc = "again"
    /\ LET d == chan[drv.ch].head
       IN hdp' = IF desc[d].own THEN [hdp EXCEPT ![drv.ch] = d] ELSE hdp
    /\ NothingDone
    /\ UNCHANGED <<desc, free, chan, dma>>

-----------------------------------------------------------------------------
(***************************************************************************)
(* The operations of the device.  net_loop starts and stops it; a handler  *)
(* that calls net_start_again does so while eth_rx holds the packet the    *)
(* handler is working on.                                                  *)
(***************************************************************************)

\* _cpsw_init: the engine is reset, the pool filled, and the receive buffers
\* are submitted one after another, with the engine running.
_cpsw_init ==
    /\ drv = NoCall /\ ~active
    /\ active' = TRUE
    /\ desc' = [d \in Descs |-> [Blank EXCEPT !.next = IF d = 2 * NumRx THEN Nil ELSE d + 1]]
    /\ free' = 1
    /\ chan' = [ch \in Channels |-> [head |-> Nil, tail |-> Nil]]
    /\ hdp' = [ch \in Channels |-> Nil] /\ dma' = [ch \in Channels |-> DmaIdle]
    /\ drv' = Call("init", "submit", "rx", 1)
    /\ doubled' = (held # Nil)
    /\ inloop' = (held # Nil)
    /\ UNCHANGED held

_cpsw_halt ==
    /\ drv = NoCall /\ active
    /\ active' = FALSE
    /\ hdp' = [ch \in Channels |-> Nil] /\ dma' = [ch \in Channels |-> DmaIdle]
    /\ inloop' = (held # Nil)
    /\ UNCHANGED <<desc, free, chan, drv, held, doubled>>

\* _cpsw_send: reap what was sent, then submit the packet.
_cpsw_send ==
    /\ drv = NoCall /\ active
    /\ drv' = Call("send", "process", "tx", TxPacket)
    /\ UNCHANGED <<queues, dma, stack>>

\* _cpsw_recv, called by eth_rx on an active device and again in its loop.
_cpsw_recv ==
    /\ drv = NoCall /\ held = Nil /\ (active \/ inloop)
    /\ drv' = Call("recv", "process", "rx", Nil)
    /\ UNCHANGED <<queues, dma, stack>>

\* Mutant: the first buffer is submitted whatever the packet was.
FreeFirst ==
    /\ drv = NoCall /\ held # Nil
    /\ drv' = Call("free", "submit", "rx", 1)
    /\ held' = Nil
    /\ UNCHANGED <<queues, dma, active, inloop, doubled>>

\* cpsw_eth_free_pkt: the stack is done with the packet.
cpsw_eth_free_pkt ==
    /\ drv = NoCall /\ held # Nil
    /\ drv' = Call("free", "submit", "rx", held)
    /\ held' = Nil
    /\ UNCHANGED <<queues, dma, active, inloop, doubled>>

-----------------------------------------------------------------------------
CpswInit ==
    /\ active = FALSE
    /\ desc = [d \in Descs |-> Blank]
    /\ free = Nil
    /\ chan = [ch \in Channels |-> [head |-> Nil, tail |-> Nil]]
    /\ hdp = [ch \in Channels |-> Nil] /\ dma = [ch \in Channels |-> DmaIdle]
    /\ drv = NoCall /\ held = Nil /\ inloop = FALSE /\ doubled = FALSE

Access ==
    \/ submit_fails \/ cpdma_submit \/ submit_link \/ submit_eoq
    \/ process_empty \/ cpdma_process \/ process_owned \/ process_hdp \/ process_again

Receive == _cpsw_recv \/ cpsw_eth_free_pkt

CpswNext ==
    \/ \E ch \in Channels : dma_fetch(ch) \/ dma_done(ch)
    \/ Access
    \/ _cpsw_init \/ _cpsw_halt \/ _cpsw_send
    \/ Receive

(***************************************************************************)
(* A call of the driver runs to its end.  A handler returns, and net_loop  *)
(* calls eth_rx in every turn, however many packets are sent in between;   *)
(* of the two parts of Receive only one is possible at a time.  Nothing is *)
(* assumed of the engine.                                                  *)
(***************************************************************************)
CpswFairness == WF_cpsw_vars(Access) /\ SF_cpsw_vars(Receive)

CpswSpec == CpswInit /\ [][CpswNext]_cpsw_vars /\ CpswFairness

-----------------------------------------------------------------------------
(***************************************************************************)
(* Properties.                                                             *)
(***************************************************************************)

\* The descriptors of a list, from its first one to the one that leads nowhere.
List(first) ==
    LET nth[i \in Descs] ==
            IF i = 1 THEN first
            ELSE LET prev == nth[i - 1] IN IF prev = Nil THEN Nil ELSE desc[prev].next
    IN [i \in {j \in Descs : nth[j] # Nil} |-> nth[i]]

Elements(s) == {s[i] : i \in DOMAIN s}
Queue(ch) == List(chan[ch].head)

\* The descriptor a submission has taken and not linked yet.
Taken == IF drv.pc = "link" THEN {drv.d} ELSE {}

\* Every descriptor is in the pool or in one queue, once, or in the hands of
\* cpdma_submit: none is lost and none used twice, although each channel
\* takes from the pool what the other one put there.
Accounted ==
    free # Nil \/ (\E ch \in Channels : chan[ch].head # Nil) =>
        LET all == List(free) \o Queue("rx") \o Queue("tx")
        IN /\ Elements(all) \cup Taken = Descs
           /\ Elements(all) \cap Taken = {}
           /\ \A i, j \in DOMAIN all : all[i] = all[j] => i = j

\* The engine works through each queue in order: what it is done with comes
\* before what it owns, hdp is the first one it owns, and it never works on a
\* descriptor a second time (the checks of EOQ and hdp that start it again).
InOrder ==
    \A ch \in Channels :
        LET q == Queue(ch)
        IN /\ \A i, j \in DOMAIN q : i < j /\ desc[q[i]].own => desc[q[j]].own
           /\ hdp[ch] # Nil => \E i \in DOMAIN q :
                  /\ q[i] = hdp[ch] /\ desc[q[i]].own
                  /\ \A j \in 1..(i - 1) : ~desc[q[j]].own
           /\ dma[ch].desc # Nil => dma[ch].desc = hdp[ch]

RxBuffers == {desc[d].buf : d \in Elements(Queue("rx"))}

\* "Give the driver an opportunity to manage its packet buffer memory when
\* the network stack is finished processing it" (include/net.h, free_pkt):
\* the engine is never given the buffer that the stack is processing.
StackOwnsPacket == held \notin RxBuffers

\* No buffer is in the receive queue twice, and none that the stack works on,
\* unless the device was started under the stack's hands.
BuffersOnce ==
    ~doubled =>
        LET q == Queue("rx")
        IN /\ held \notin RxBuffers
           /\ \A i, j \in DOMAIN q : desc[q[i]].buf = desc[q[j]].buf => i = j

Stopped == active /\ hdp["rx"] = Nil /\ \E d \in Elements(Queue("rx")) : desc[d].own

\* A receive queue that the engine left before its end is started again, or
\* the device is stopped: an append that came too late is not lost.
RxRestarts == Stopped ~> (hdp["rx"] # Nil \/ ~active)
=============================================================================
