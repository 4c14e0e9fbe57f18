--------------------------- MODULE NetLoopProofs ---------------------------
(***************************************************************************)
(* Proofs about NetLoop, for any number of devices, any settings of        *)
(* "netretry" and "ethrotate" and any number of retries.                   *)
(***************************************************************************)
EXTENDS NetLoop, WellFoundedInduction, TLAPS

InLoop == {"arp", "rx", "time", "check", "switch"}

\* While the loop turns with nothing decided, a timeout handler is set: the
\* turn of NeverStuck, from anywhere in it.
Waiting == pc \in InLoop /\ net_state = "CONTINUE" => time_handler # "none"

\* Before the first start of a command no handler is set, so that an early
\* return of net_loop leaves none.
CleanStart ==
    pc \in {"restart", "prereq"} /\ ~net_restarted =>
        time_handler = "none" /\ udp_handler = "none"

\* The failure net_loop returns with has stopped the device, or is reported as
\* the success of eth_init.
FailureStops == pc = "switch" /\ net_state = "FAIL" => active = {} \/ ret = "ok"

IInv == OnlyCurrentStarted /\ QuietAtPrompt /\ Waiting /\ CleanStart /\ FailureStops

\* What net_start_again may do, called from a handler, from net_check_prereq or
\* at the end of a turn: it leaves one device running at most, and goes on
\* waiting only with a timeout handler of its own.
LEMMA StartAgain ==
    ASSUME OnlyCurrentStarted, NEW up, NEW handler, net_start_again(up, handler)
    PROVE  /\ active' \subseteq {current'}
           /\ net_state' = "CONTINUE" =>
                  time_handler' = "start_again_timeout_handler"
           /\ Exhausted \/ ~EthInitOfNext(up).ok => active' = {}
<1>1. eth_halt(active) = {}
  BY DEF OnlyCurrentStarted, eth_halt
<1>2. CASE gives_up(handler)
  BY <1>1, <1>2 DEF gives_up
<1>3. CASE tries_again(EthInitOfNext(up), handler)
  <2> DEFINE init == EthInitOfNext(up)
  <2>1. active' = IF init.ok THEN eth_halt(active) \cup {init.current} ELSE eth_halt(active)
    BY <1>3 DEF tries_again
  <2>2. current' = init.current /\ ~Exhausted
    BY <1>3 DEF tries_again
  <2>3. net_state' = "CONTINUE" => time_handler' = "start_again_timeout_handler"
    BY <1>3 DEF tries_again
  <2> HIDE DEF init
  <2> QED BY <1>1, <2>1, <2>2, <2>3 DEF init
<1> QED BY <1>2, <1>3 DEF net_start_again

\* The initial state of NetLoop has the invariant.
LEMMA InitIInv == Init => IInv
BY DEF Init, IInv, OnlyCurrentStarted, QuietAtPrompt, Waiting, CleanStart, FailureStops, InLoop

\* Every step of net_loop, of its handlers and of the packets it receives keeps
\* the invariant.
LEMMA StepIInv == IInv /\ [Next]_vars => IInv'
<1> SUFFICES ASSUME IInv, [Next]_vars PROVE IInv'
  OBVIOUS
<1> USE DEF IInv, OnlyCurrentStarted, QuietAtPrompt, Waiting, CleanStart, FailureStops, InLoop
<1> USE DEF loop_vars, arp_vars, eth_vars, tftp_vars, handlers, env, history
<1>0. eth_halt(active) = {}
  BY DEF eth_halt
<1>1. CASE UNCHANGED vars
  BY <1>1 DEF vars
<1>2. ASSUME NEW p \in Protocols, NEW d \in Devices, NEW up \in SUBSET Devices,
             net_loop(p, d, up)
      PROVE  IInv'
  <2> DEFINE init == eth_init(d, up, first_failed, net_restart_wrap)
  <2>1. /\ pc = "prompt" /\ ~net_restarted' /\ UNCHANGED handlers
        /\ current' = init.current
        /\ active' = IF init.ok THEN eth_halt(active) \cup {init.current}
                     ELSE eth_halt(active)
        /\ pc' = IF init.ok THEN "restart" ELSE "prompt"
    BY <1>2 DEF net_loop
  <2> HIDE DEF init
  <2> QED BY <1>0, <2>1
<1>3. CASE arp_receive
  BY <1>0, <1>3 DEF arp_receive, Receiving
<1>4. CASE ping_receive
  BY <1>0, <1>4 DEF ping_receive, Receiving
<1>5. CASE udp_dropped
  BY <1>0, <1>5 DEF udp_dropped, TftpAnswer, Receiving
<1>6. CASE tftp_complete
  BY <1>0, <1>6 DEF tftp_complete, TftpAnswer, Receiving
<1>7. CASE tftp_error_not_retrying
  BY <1>0, <1>7 DEF tftp_error_not_retrying, TftpAnswer, Receiving
<1>8. CASE ctrlc
  BY <1>0, <1>8 DEF ctrlc, net_cleanup_loop
<1>9. CASE arp_timeout_check(arp_idle)
  BY <1>0, <1>9 DEF arp_timeout_check, arp_idle
<1>10. CASE arp_timeout_check(arp_not_due)
  BY <1>0, <1>10 DEF arp_timeout_check, arp_not_due
<1>11. CASE ArpDue
  BY <1>0, <1>11 DEF ArpDue, arp_timeout_check, arp_due
<1>12. CASE eth_rx_done
  BY <1>0, <1>12 DEF eth_rx_done
<1>13. CASE no_timeout
  BY <1>0, <1>13 DEF no_timeout
<1>14. CASE ping_timeout_handler
  BY <1>0, <1>14 DEF ping_timeout_handler, Timeout
<1>15. CASE start_again_timeout_handler
  BY <1>0, <1>15 DEF start_again_timeout_handler, Timeout
<1>16. CASE tftp_timeout_resend
  BY <1>0, <1>16 DEF tftp_timeout_resend, Timeout
<1>17. CASE switch_continue
  BY <1>0, <1>17 DEF switch_continue, Switch
<1>18. CASE switch_restart
  BY <1>0, <1>18 DEF switch_restart, Switch
<1>19. CASE switch_success
  BY <1>0, <1>19 DEF switch_success, Switch, net_cleanup_loop
<1>20. CASE switch_fail
  BY <1>0, <1>20 DEF switch_fail, Switch, net_cleanup_loop
<1>21. CASE net_loop_restart
  BY <1>0, <1>21 DEF net_loop_restart
<1>22. CASE not_configured
  BY <1>0, <1>22 DEF not_configured
<1>23. CASE ping_start
  BY <1>0, <1>23 DEF ping_start, Start
<1>24. CASE tftp_start
  BY <1>0, <1>24 DEF tftp_start, Start
<1>25. ASSUME NEW up \in SUBSET Devices, tftp_error(up) PROVE IInv'
  <2>1. net_start_again(up, time_handler)
    BY <1>25 DEF tftp_error, TftpAnswer, Receiving
  <2> QED BY <1>25, <2>1, StartAgain DEF tftp_error, TftpAnswer, Receiving
<1>26. ASSUME NEW up \in SUBSET Devices, tftp_timeout_restart(up) PROVE IInv'
  <2>1. net_start_again(up, "none")
    BY <1>26 DEF tftp_timeout_restart, Timeout
  <2> QED BY <1>26, <2>1, StartAgain DEF tftp_timeout_restart, Timeout
<1>27. ASSUME NEW up \in SUBSET Devices, net_loop_fail(up) PROVE IInv'
  <2>1. net_start_again(up, time_handler)
    BY <1>27 DEF net_loop_fail
  <2> QED BY <1>27, <2>1, StartAgain DEF net_loop_fail
<1>28. ASSUME NEW up \in SUBSET Devices, no_ethaddr(up) PROVE IInv'
  <2>1. net_start_again(up, time_handler)
    BY <1>28 DEF no_ethaddr
  <2> QED BY <1>28, <2>1, StartAgain DEF no_ethaddr
<1> QED
  BY <1>1, <1>2, <1>3, <1>4, <1>5, <1>6, <1>7, <1>8, <1>9, <1>10, <1>11, <1>12, <1>13, <1>14, <1>15, <1>16, <1>17, <1>18, <1>19, <1>20, <1>21, <1>22, <1>23, <1>24, <1>25, <1>26, <1>27, <1>28
     DEF Next, Command, Packet, Step, TimeoutDue

\* No device is left running behind the current one, for any number of
\* devices: eth_halt is called for a device before another takes its place.
THEOREM OneDeviceStarted == Spec => []OnlyCurrentStarted
<1> QED BY InitIInv, StepIInv, PTL DEF Spec, IInv

\* Whichever way net_loop ends, no handler is left, and no device runs but
\* after the failure that eth_init's result hides.
THEOREM QuietWhenDone == Spec => []QuietAtPrompt
<1> QED BY InitIInv, StepIInv, PTL DEF Spec, IInv

\* The loop never goes into another turn without a timeout to end the wait.
THEOREM AlwaysWaiting == Spec => []NeverStuck
<1>1. IInv => NeverStuck
  BY DEF IInv, Waiting, InLoop, NeverStuck
<1> QED BY <1>1, InitIInv, StepIInv, PTL DEF Spec

-----------------------------------------------------------------------------
(***************************************************************************)
(* Type correctness.  The timeouts of a transfer are counted up to the     *)
(* limit and once more, when the transfer is given up: the handler that    *)
(* counts is not set again but by tftp_start, which starts the count anew. *)
(***************************************************************************)

Counting == time_handler = "tftp_timeout_handler" => timeout_count <= tftp_timeout_count_max

TInv == TypeOK /\ Counting

\* The device eth_set_current_to_next names is a device.
LEMMA NextDeviceType == ASSUME NEW a \in Nat PROVE (a % NumDevices) + 1 \in Devices
BY NetLoopAssumption DEF Devices

\* A set of numbers that is not empty has a least one.
LEMMA LeastOfNat ==
    ASSUME NEW S, S \subseteq Nat, S # {} PROVE \E k \in S : \A j \in S : k <= j
<1>1. PICK k \in S : \A j \in S : ~(<<j, k>> \in OpToRel(<, Nat))
  BY NatLessThanWellFounded, WFMin
<1>2. \A j \in S : ~(j < k)
  BY <1>1 DEF OpToRel
<1> QED BY <1>2

\* eth_init leaves a device current and a flag, whichever devices start.
LEMMA EthInitType ==
    ASSUME TypeOK, NEW d \in Devices, NEW up, NEW f, NEW w \in BOOLEAN
    PROVE  /\ eth_init(d, up, f, w).current \in Devices
           /\ eth_init(d, up, f, w).wrap \in BOOLEAN
<1> DEFINE Dev(k) == ((d + k - 1) % NumDevices) + 1
           ups == {k \in 0 .. NumDevices - 1 : Dev(k) \in up /\ (ethrotate \/ k = 0)}
           steps == IF ~ethrotate THEN 0
                    ELSE IF ups = {} THEN NumDevices
                    ELSE CHOOSE k \in ups : \A j \in ups : k <= j
<1>1. steps \in Nat
  <2>1. CASE ~ethrotate \/ ups = {}
    BY <2>1, NetLoopAssumption
  <2>2. CASE ethrotate /\ ups # {}
    <3>1. ups \subseteq Nat
      OBVIOUS
    <3>2. PICK k \in ups : \A j \in ups : k <= j
      BY <2>2, <3>1, LeastOfNat
    <3>3. (CHOOSE i \in ups : \A j \in ups : i <= j) \in ups
      BY <3>2
    <3> QED BY <2>2, <3>1, <3>3
  <2> QED BY <2>1, <2>2
<1>2. eth_init(d, up, f, w).current = Dev(steps)
  BY DEF eth_init
<1>3. eth_init(d, up, f, w).wrap = (w \/ \E k \in 1 .. steps : Dev(k) = f)
  BY DEF eth_init
<1>4. d + steps - 1 \in Nat
  BY <1>1, NetLoopAssumption DEF Devices
<1>5. Dev(steps) \in Devices
  BY <1>4, NextDeviceType
<1> QED BY <1>2, <1>3, <1>5

\* net_start_again sets every variable within its type, and the timeout
\* handler of a transfer only when its caller had it set.
LEMMA StartAgainType ==
    ASSUME TypeOK, NEW up, NEW handler, net_start_again(up, handler)
    PROVE  /\ net_state' \in {net_state, "FAIL", "RESTART"}
           /\ net_try_count' \in 1 .. MaxTryCount
           /\ time_handler' \in {handler, "start_again_timeout_handler"}
           /\ udp_handler' \in {udp_handler, "none"}
           /\ current' \in Devices /\ active' \subseteq Devices
           /\ first_failed' \in Devices \cup {NoDevice}
           /\ net_restart_wrap' \in BOOLEAN
<1>1. /\ current \in Devices /\ active \subseteq Devices
      /\ first_failed \in Devices \cup {NoDevice} /\ net_restart_wrap \in BOOLEAN
      /\ net_try_count \in 1 .. MaxTryCount
  BY DEF TypeOK
<1>2. CASE gives_up(handler)
  BY <1>1, <1>2 DEF gives_up, eth_halt
<1>3. CASE tries_again(EthInitOfNext(up), handler)
  <2> DEFINE failed == IF ethrotate /\ ~net_restarted THEN current ELSE first_failed
             d == IF ethrotate THEN Next_device(current) ELSE current
             w == net_restart_wrap \/ (ethrotate /\ d = failed)
             init == EthInitOfNext(up)
  <2>1. d \in Devices
    <3>1. current \in Nat
      BY <1>1 DEF Devices
    <3> QED BY <1>1, <3>1, NextDeviceType DEF Next_device
  <2>2. w \in BOOLEAN
    BY <1>1
  <2>3. init = eth_init(d, up, failed, w)
    BY DEF EthInitOfNext
  <2> HIDE DEF d, w
  <2>4. init.current \in Devices
    BY <2>1, <2>2, <2>3, EthInitType
  <2>5. /\ current' = init.current /\ first_failed' = failed
        /\ active' \subseteq active \cup {init.current}
        /\ net_restart_wrap' = FALSE
    BY <1>3 DEF tries_again, eth_halt
  <2>6. net_try_count' \in 1 .. MaxTryCount
    BY <1>1, <1>3, NetLoopAssumption DEF tries_again
  <2>7. /\ net_state' \in {net_state, "FAIL", "RESTART"}
        /\ time_handler' \in {handler, "start_again_timeout_handler"}
        /\ udp_handler' \in {udp_handler, "none"}
    BY <1>3 DEF tries_again
  <2> QED BY <1>1, <2>4, <2>5, <2>6, <2>7
<1> QED BY <1>2, <1>3 DEF net_start_again

\* The initial state is well typed.
LEMMA InitTInv == Init => TInv
<1> SUFFICES ASSUME Init PROVE TInv
  OBVIOUS
<1>1. {net_restarted, net_dev_exists, timer_held, net_server_ethaddr, arp_waiting,
       net_restart_wrap, ethrotate, earned} \subseteq BOOLEAN
  BY NetLoopAssumption DEF Init
<1>2. /\ net_try_count \in 1 .. MaxTryCount
      /\ timeout_count \in 0 .. tftp_timeout_count_max + 1
      /\ arp_wait_try \in 0 .. ARP_TIMEOUT_COUNT
      /\ current \in Devices
  BY NetLoopAssumption DEF Init, Devices
<1> QED BY <1>1, <1>2 DEF Init, TInv, TypeOK, Counting

\* Every step of NetLoop keeps the types and the count of timeouts.
LEMMA StepTInv == TInv /\ [Next]_vars => TInv'
<1> SUFFICES ASSUME TInv, [Next]_vars PROVE TInv'
  OBVIOUS
<1> USE NetLoopAssumption DEF TInv, TypeOK, Counting
<1> USE DEF loop_vars, arp_vars, eth_vars, tftp_vars, handlers, env, history
<1>1. CASE UNCHANGED vars
  BY <1>1 DEF vars
<1>2. ASSUME NEW p \in Protocols, NEW d \in Devices, NEW up \in SUBSET Devices,
             net_loop(p, d, up)
      PROVE  TInv'
  <2> DEFINE init == eth_init(d, up, first_failed, net_restart_wrap)
  <2>1. init.current \in Devices /\ init.wrap \in BOOLEAN
    BY EthInitType
  <2> HIDE DEF init
  <2>2. active' \subseteq active \cup {init.current}
    BY <1>2 DEF net_loop, init, eth_halt
  <2>3. {net_restarted', net_dev_exists', timer_held', net_server_ethaddr', arp_waiting',
         net_restart_wrap', ethrotate', earned'} \subseteq BOOLEAN
    BY <1>2, <2>1 DEF net_loop, init
  <2>4. net_try_count' \in 1 .. MaxTryCount /\ current' \in Devices /\ active' \subseteq Devices
    BY <1>2, <2>1, <2>2 DEF net_loop, init
  <2>5. pc' \in {"restart", "prompt"} /\ ret' \in {"ok", "error"}
    BY <1>2 DEF net_loop
  <2> QED BY <1>2, <2>3, <2>4, <2>5 DEF net_loop
<1>3. CASE arp_receive
  BY <1>3 DEF arp_receive, Receiving, AnswerTo
<1>4. CASE ping_receive
  BY <1>4 DEF ping_receive, Receiving
<1>5. CASE udp_dropped
  BY <1>5 DEF udp_dropped, TftpAnswer, Receiving
<1>6. CASE tftp_complete
  BY <1>6 DEF tftp_complete, TftpAnswer, Receiving
<1>7. CASE tftp_error_not_retrying
  BY <1>7 DEF tftp_error_not_retrying, TftpAnswer, Receiving, eth_halt
<1>8. CASE ctrlc
  BY <1>8 DEF ctrlc, net_cleanup_loop, eth_halt
<1>9. CASE arp_timeout_check(arp_idle)
  BY <1>9 DEF arp_timeout_check, arp_idle
<1>10. CASE arp_timeout_check(arp_not_due)
  BY <1>10 DEF arp_timeout_check, arp_not_due
<1>11. CASE ArpDue
  BY <1>11 DEF ArpDue, arp_timeout_check, arp_due
<1>12. CASE eth_rx_done
  BY <1>12 DEF eth_rx_done
<1>13. CASE no_timeout
  BY <1>13 DEF no_timeout
<1>14. CASE ping_timeout_handler
  BY <1>14 DEF ping_timeout_handler, Timeout, eth_halt
<1>15. CASE start_again_timeout_handler
  BY <1>15 DEF start_again_timeout_handler, Timeout
<1>16. CASE tftp_timeout_resend
  <2>1. /\ timeout_count' \in 0 .. tftp_timeout_count_max + 1
        /\ timeout_count' <= tftp_timeout_count_max
    BY <1>16 DEF tftp_timeout_resend
  <2>2. /\ net_tx_packet' = "RRQ"
        /\ arp_waiting' \in {TRUE, arp_waiting}
        /\ arp_wait_try' \in {1, arp_wait_try}
    BY <1>16 DEF tftp_timeout_resend, net_send_udp_packet, arp_wait
  <2>3. arp_waiting' \in BOOLEAN
    BY <2>2
  <2>4. arp_wait_try' \in 0 .. ARP_TIMEOUT_COUNT
    BY <2>2
  <2>5. answers' \subseteq {"echo", "tftp"}
    BY <1>16 DEF tftp_timeout_resend, net_send_udp_packet, AnswerTo
  <2> QED BY <1>16, <2>1, <2>2, <2>3, <2>4, <2>5 DEF tftp_timeout_resend, Timeout
<1>17. CASE switch_continue
  BY <1>17 DEF switch_continue, Switch
<1>18. CASE switch_restart
  BY <1>18 DEF switch_restart, Switch
<1>19. CASE switch_success
  BY <1>19 DEF switch_success, Switch, net_cleanup_loop, eth_halt
<1>20. CASE switch_fail
  BY <1>20 DEF switch_fail, Switch, net_cleanup_loop
<1>21. CASE net_loop_restart
  BY <1>21 DEF net_loop_restart
<1>22. CASE not_configured
  BY <1>22 DEF not_configured, eth_halt
<1>23. CASE ping_start
  BY <1>23 DEF ping_start, Start, arp_wait
<1>24. CASE tftp_start
  <2>1. timeout_count' \in 0 .. tftp_timeout_count_max + 1
    BY <1>24 DEF tftp_start
  <2>2. timeout_count' <= tftp_timeout_count_max
    BY <1>24 DEF tftp_start
  <2>3. /\ net_tx_packet' \in {"none", "ECHO", "RRQ"} /\ arp_waiting' \in BOOLEAN
        /\ arp_wait_try' \in 0 .. ARP_TIMEOUT_COUNT
        /\ answers' \subseteq {"echo", "tftp"}
    BY <1>24 DEF tftp_start, arp_wait
  <2> QED BY <1>24, <2>1, <2>2, <2>3 DEF tftp_start, Start
<1>25. ASSUME NEW up \in SUBSET Devices, tftp_error(up) PROVE TInv'
  <2>1. net_start_again(up, time_handler)
    BY <1>25 DEF tftp_error, TftpAnswer
  <2> QED BY <1>25, <2>1, StartAgainType DEF tftp_error, TftpAnswer
<1>26. ASSUME NEW up \in SUBSET Devices, tftp_timeout_restart(up) PROVE TInv'
  <2>1. net_start_again(up, "none")
    BY <1>26 DEF tftp_timeout_restart, Timeout
  <2> QED BY <1>26, <2>1, StartAgainType DEF tftp_timeout_restart, Timeout
<1>27. ASSUME NEW up \in SUBSET Devices, net_loop_fail(up) PROVE TInv'
  <2>1. net_start_again(up, time_handler)
    BY <1>27 DEF net_loop_fail
  <2> QED BY <1>27, <2>1, StartAgainType DEF net_loop_fail
<1>28. ASSUME NEW up \in SUBSET Devices, no_ethaddr(up) PROVE TInv'
  <2>1. net_start_again(up, time_handler)
    BY <1>28 DEF no_ethaddr
  <2> QED BY <1>28, <2>1, StartAgainType DEF no_ethaddr
<1> QED
  BY <1>1, <1>2, <1>3, <1>4, <1>5, <1>6, <1>7, <1>8, <1>9, <1>10, <1>11, <1>12, <1>13, <1>14, <1>15, <1>16, <1>17, <1>18, <1>19, <1>20, <1>21, <1>22, <1>23, <1>24, <1>25, <1>26, <1>27, <1>28
     DEF Next, Command, Packet, Step, TimeoutDue

\* Every state of NetLoop is well typed: the counters of timeouts, ARP requests
\* and tries stay within their limits, and the current device is a device.
THEOREM NetTypeCorrect == Spec => []TypeOK
<1> QED BY InitTInv, StepTInv, PTL DEF Spec, TInv
============================================================================
