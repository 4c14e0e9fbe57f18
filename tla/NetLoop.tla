------------------------------ MODULE NetLoop ------------------------------
(***************************************************************************)
(* net_loop, the engine behind every network command: the retry machinery  *)
(* (net_start_again, the rotation over the Ethernet devices), the ARP wait, *)
(* the timeout handler, and the commands "ping" and "tftpboot" on top.     *)
(*                                                                         *)
(* One turn of the loop is walked in the code's order: arp_timeout_check,  *)
(* eth_rx with its batch of packets, ctrl-c, the timeout handler, then the *)
(* switch on net_state, where several of them may have set net_state.  The *)
(* module runs command after command, so that what one leaves behind (an   *)
(* ARP wait, a late answer, a static variable) meets the next.             *)
(*                                                                         *)
(* External: the other hosts, which answer at will what was sent to them,  *)
(* and the Ethernet drivers, whose start operation may fail.  What a TFTP  *)
(* transfer does between its first and its last block is module TftpGet.   *)
(***************************************************************************)
EXTENDS Integers, FiniteSets

CONSTANTS
    NumDevices,           \* Ethernet devices
    NoAddress,            \* the devices whose MAC address is not set
    Protocols,            \* the commands used: "PING" and "TFTPGET"
    NetRetry,             \* the values of "netretry": "no", "once", "yes", "2"
    EthRotate,            \* whether "ethrotate" may be on, may be off
    ARP_TIMEOUT_COUNT,
    tftp_timeout_count_max,
    MaxTryCount           \* bound: where net_try_count stops, for "yes"

Devices == 1 .. NumDevices
NoDevice == 0

ASSUME NetLoopAssumption ==
    /\ NumDevices \in Nat \ {0}
    /\ NoAddress \subseteq Devices
    /\ Protocols \subseteq {"PING", "TFTPGET"}
    /\ NetRetry \subseteq {"no", "once", "yes", "2"}
    /\ EthRotate \subseteq BOOLEAN
    /\ ARP_TIMEOUT_COUNT \in Nat \ {0}
    /\ tftp_timeout_count_max \in Nat
    /\ MaxTryCount \in Nat /\ MaxTryCount > 2

VARIABLES
    pc,                   \* where net_loop is; "prompt" when it does not run
    protocol,
    net_state,            \* "CONTINUE", "RESTART", "SUCCESS" or "FAIL"
    ret,                  \* what net_loop returns: "ok" is a value >= 0
    net_restarted, net_dev_exists, net_try_count,
    time_handler,         \* "none" or the handler's name
    timer_held,           \* the ARP wait moved time_start in this turn
    udp_handler,          \* "none" (dummy_handler) or "tftp_handler"
    timeout_count,        \* of tftp.c
    net_server_ethaddr,   \* whether the server's MAC address is known
    arp_waiting,          \* net_arp_wait_packet_ip is set
    arp_wait_try,
    net_tx_packet,        \* the packet last prepared for sending
    current, active,      \* the current device, the devices that are started
    first_failed, net_restart_wrap,
    netretry, ethrotate,  \* the environment variables
    answers,              \* external: the answers other hosts may still send
    earned,               \* history: the command got what it asked for
    tried                 \* history: the devices the command was started on

loop_vars == <<pc, protocol, ret, net_restarted, net_dev_exists, timer_held>>
arp_vars == <<arp_waiting, arp_wait_try, net_tx_packet>>
eth_vars == <<current, active, first_failed, net_restart_wrap>>
tftp_vars == <<timeout_count, net_server_ethaddr>>
handlers == <<time_handler, udp_handler>>
env == <<netretry, ethrotate>>
history == <<earned, tried>>
vars == <<loop_vars, net_state, net_try_count, handlers, tftp_vars, arp_vars,
          eth_vars, env, answers, history>>

------------------------------------------------------------------------------
(* Ethernet devices: net/eth-uclass.c and net/eth_common.c *)

\* eth_set_current_to_next goes through the devices in turn.
Next_device(d) == (d % NumDevices) + 1

\* Mutant of eth_halt: the device stays started.
HaltNothing(started) == started

eth_halt(started) == started \ {current}

\* eth_init, for the set up of the devices whose start operation succeeds:
\* from device d on, rotate until one starts or d is back.  Steps are the calls
\* of eth_try_another(0), each of which compares the device with first_failed.
eth_init(d, up, failed, wrap) ==
    LET Dev(k) == ((d + k - 1) % NumDevices) + 1
        ups == {k \in 0 .. NumDevices - 1 : Dev(k) \in up /\ (ethrotate \/ k = 0)}
        steps == IF ~ethrotate THEN 0
                 ELSE IF ups = {} THEN NumDevices
                 ELSE CHOOSE k \in ups : \A j \in ups : k <= j
    IN  [ok      |-> ups # {},
         current |-> Dev(steps),
         wrap    |-> wrap \/ \E k \in 1 .. steps : Dev(k) = failed]

\* What "netretry" says: tries in all, 0 and 1 both meaning a single one.
retrycnt == CASE netretry = "once" -> 1
              [] netretry = "2"    -> 2
              [] OTHER             -> 0

Exhausted == netretry # "yes" /\ net_try_count >= retrycnt

\* net_start_again, called with a timeout handler set: give up, or move to the
\* next device and start again, at once or, when all devices were tried, after
\* ten seconds.  The last case leaves net_state as it is, FAIL included.
gives_up(handler) ==
    /\ Exhausted
    /\ active' = eth_halt(active)
    /\ net_state' = "FAIL"
    /\ time_handler' = handler
    /\ UNCHANGED <<net_try_count, current, first_failed, net_restart_wrap, udp_handler>>

tries_again(init, handler) ==
    LET failed == IF ethrotate /\ ~net_restarted THEN current ELSE first_failed
    IN  /\ ~Exhausted
        /\ net_try_count' = IF net_try_count < MaxTryCount THEN net_try_count + 1
                            ELSE net_try_count
        /\ first_failed' = failed
        /\ current' = init.current
        /\ active' = IF init.ok THEN eth_halt(active) \cup {init.current}
                     ELSE eth_halt(active)
        /\ net_restart_wrap' = FALSE
        /\ IF init.wrap /\ net_dev_exists
           THEN /\ time_handler' = "start_again_timeout_handler"
                /\ udp_handler' = "none"
                /\ UNCHANGED net_state
           ELSE /\ net_state' = IF init.wrap THEN "FAIL" ELSE "RESTART"
                /\ time_handler' = handler
                /\ UNCHANGED udp_handler

\* The device eth_try_another moves to, and the eth_init that follows.
EthInitOfNext(up) ==
    LET failed == IF ethrotate /\ ~net_restarted THEN current ELSE first_failed
        d == IF ethrotate THEN Next_device(current) ELSE current
    IN  eth_init(d, up, failed, net_restart_wrap \/ (ethrotate /\ d = failed))

net_start_again(up, handler) ==
    gives_up(handler) \/ tries_again(EthInitOfNext(up), handler)

------------------------------------------------------------------------------
(* Sending, and the ARP wait: net/net.c and net/arp.c *)

\* What the network may bring after a packet has gone out on a started device.
AnswerTo(packet) ==
    IF active = {} THEN answers
    ELSE answers \cup {IF packet = "ECHO" THEN "echo" ELSE "tftp"}

\* A packet is prepared, and waits for the MAC address of its destination.
arp_wait(packet) ==
    /\ net_tx_packet' = packet
    /\ arp_waiting' = TRUE
    /\ arp_wait_try' = 1

\* net_send_udp_packet to the TFTP server.
net_send_udp_packet(packet) ==
    IF ~net_server_ethaddr
    THEN arp_wait(packet) /\ UNCHANGED answers
    ELSE /\ net_tx_packet' = packet
         /\ answers' = AnswerTo(packet)
         /\ UNCHANGED <<arp_waiting, arp_wait_try>>

\* arp_timeout_check, the first thing in a turn: while a packet waits for ARP the
\* timeout of the protocol is put off, and when ARP gives up the state is FAIL.
\* The wait itself is left in place.
arp_idle ==
    /\ pc = "arp" /\ ~arp_waiting
    /\ timer_held' = FALSE
    /\ UNCHANGED <<net_state, arp_wait_try>>

arp_not_due ==
    /\ pc = "arp" /\ arp_waiting
    /\ timer_held' = TRUE
    /\ UNCHANGED <<net_state, arp_wait_try>>

arp_due ==
    /\ pc = "arp" /\ arp_waiting
    /\ timer_held' = TRUE
    /\ IF arp_wait_try + 1 >= ARP_TIMEOUT_COUNT
       THEN arp_wait_try' = 0 /\ net_state' = "FAIL"
       ELSE arp_wait_try' = arp_wait_try + 1 /\ UNCHANGED net_state

arp_timeout_check(check) ==
    /\ check
    /\ pc' = "rx"
    /\ UNCHANGED <<protocol, ret, net_restarted, net_dev_exists, net_try_count,
                   handlers, tftp_vars, arp_waiting, net_tx_packet, eth_vars, env,
                   answers, history>>

------------------------------------------------------------------------------
(* eth_rx and the packets it hands over *)

Receiving == pc = "rx" /\ current \in active

\* A reply to our ARP request: the waiting packet goes out.
arp_receive ==
    /\ Receiving /\ arp_waiting
    /\ arp_waiting' = FALSE
    /\ net_server_ethaddr' = (net_server_ethaddr \/ net_tx_packet = "RRQ")
    /\ answers' = AnswerTo(net_tx_packet)
    /\ UNCHANGED <<loop_vars, net_state, net_try_count, handlers, timeout_count,
                   arp_wait_try, net_tx_packet, eth_vars, env, history>>

\* An echo reply from net_ping_ip is success, whatever the command is.
ping_receive ==
    /\ Receiving /\ "echo" \in answers
    /\ answers' = answers \ {"echo"}
    /\ net_state' = "SUCCESS"
    /\ earned' = (earned \/ protocol = "PING")
    /\ UNCHANGED <<loop_vars, net_try_count, handlers, tftp_vars, arp_vars,
                   eth_vars, env, tried>>

\* The last packet of a TFTP transfer: it goes to the UDP handler that is set.
TftpAnswer ==
    /\ Receiving /\ "tftp" \in answers
    /\ answers' = answers \ {"tftp"}

udp_dropped ==
    /\ TftpAnswer /\ udp_handler = "none"
    /\ UNCHANGED <<loop_vars, net_state, net_try_count, handlers, tftp_vars,
                   arp_vars, eth_vars, env, history>>

tftp_complete ==
    /\ TftpAnswer /\ udp_handler = "tftp_handler"
    /\ net_state' = "SUCCESS"
    /\ earned' = TRUE
    /\ UNCHANGED <<loop_vars, net_try_count, handlers, tftp_vars, arp_vars,
                   eth_vars, env, tried>>

tftp_error(up) ==
    /\ TftpAnswer /\ udp_handler = "tftp_handler"
    /\ net_start_again(up, time_handler)
    /\ UNCHANGED <<loop_vars, tftp_vars, arp_vars, env, history>>

tftp_error_not_retrying ==
    /\ TftpAnswer /\ udp_handler = "tftp_handler"
    /\ active' = eth_halt(active)
    /\ net_state' = "FAIL"
    /\ UNCHANGED <<loop_vars, net_try_count, handlers, tftp_vars, arp_vars,
                   current, first_failed, net_restart_wrap, env, history>>

eth_rx_done ==
    /\ pc = "rx"
    /\ pc' = "time"
    /\ UNCHANGED <<protocol, net_state, ret, net_restarted, net_dev_exists, timer_held,
                   net_try_count, handlers, tftp_vars, arp_vars, eth_vars, env,
                   answers, history>>

------------------------------------------------------------------------------
(* ctrl-c and the timeout handlers *)

\* Mutant of net_cleanup_loop: the UDP handler stays.
CleanupTimerOnly == time_handler' = "none" /\ UNCHANGED udp_handler

net_cleanup_loop == time_handler' = "none" /\ udp_handler' = "none"

ctrlc ==
    /\ pc = "time"
    /\ arp_waiting' = FALSE
    /\ net_cleanup_loop
    /\ active' = eth_halt(active)
    /\ ret' = "error"
    /\ pc' = "prompt"
    /\ UNCHANGED <<protocol, net_state, net_restarted, net_dev_exists, timer_held,
                   net_try_count, tftp_vars, arp_wait_try, net_tx_packet, current,
                   first_failed, net_restart_wrap, env, answers, history>>

no_timeout ==
    /\ pc = "time"
    /\ pc' = "check"
    /\ UNCHANGED <<protocol, net_state, ret, net_restarted, net_dev_exists, timer_held,
                   net_try_count, handlers, tftp_vars, arp_vars, eth_vars, env,
                   answers, history>>

\* time_handler is due: it is taken out, then called.
Timeout(handler) ==
    /\ pc = "time" /\ ~timer_held /\ time_handler = handler
    /\ pc' = "check"
    /\ UNCHANGED <<protocol, ret, net_restarted, net_dev_exists, timer_held, env, history>>

ping_timeout_handler ==
    /\ Timeout("ping_timeout_handler")
    /\ time_handler' = "none"
    /\ active' = eth_halt(active)
    /\ net_state' = "FAIL"
    /\ UNCHANGED <<net_try_count, udp_handler, tftp_vars, arp_vars, current,
                   first_failed, net_restart_wrap, answers>>

start_again_timeout_handler ==
    /\ Timeout("start_again_timeout_handler")
    /\ time_handler' = "none"
    /\ net_state' = "RESTART"
    /\ UNCHANGED <<net_try_count, udp_handler, tftp_vars, arp_vars, eth_vars, answers>>

\* Mutant of tftp_timeout_resend: the timeout is not set again.
ResendWithoutTimeout ==
    /\ Timeout("tftp_timeout_handler")
    /\ timeout_count + 1 <= tftp_timeout_count_max
    /\ timeout_count' = timeout_count + 1
    /\ time_handler' = "none"
    /\ net_send_udp_packet("RRQ")
    /\ UNCHANGED <<net_state, net_try_count, udp_handler, net_server_ethaddr, eth_vars>>

tftp_timeout_resend ==
    /\ Timeout("tftp_timeout_handler")
    /\ timeout_count + 1 <= tftp_timeout_count_max
    /\ timeout_count' = timeout_count + 1
    /\ net_send_udp_packet("RRQ")
    /\ UNCHANGED <<net_state, net_try_count, handlers, net_server_ethaddr, eth_vars>>

\* The handler is out when net_start_again runs, which may set another.
tftp_timeout_restart(up) ==
    /\ Timeout("tftp_timeout_handler")
    /\ timeout_count + 1 > tftp_timeout_count_max
    /\ timeout_count' = timeout_count + 1
    /\ net_start_again(up, "none")
    /\ UNCHANGED <<net_server_ethaddr, arp_vars, answers>>

------------------------------------------------------------------------------
(* net_loop *)

\* The end of a turn.  For FAIL, net_start_again decides what net_loop returns.
net_loop_fail(up) ==
    /\ pc = "check" /\ net_state = "FAIL"
    /\ net_start_again(up, time_handler)
    /\ ret' = IF ~Exhausted /\ EthInitOfNext(up).ok THEN "ok" ELSE "error"
    /\ pc' = "switch"
    /\ UNCHANGED <<protocol, net_restarted, net_dev_exists, timer_held, tftp_vars,
                   arp_vars, env, answers, history>>

Switch(state) ==
    /\ pc = "switch" \/ (pc = "check" /\ net_state # "FAIL")
    /\ net_state = state
    /\ UNCHANGED <<protocol, net_state, net_dev_exists, timer_held, net_try_count,
                   tftp_vars, arp_vars, current, first_failed, net_restart_wrap, env,
                   answers, history>>

switch_continue ==
    /\ Switch("CONTINUE")
    /\ pc' = "arp"
    /\ UNCHANGED <<ret, net_restarted, handlers, active>>

switch_restart ==
    /\ Switch("RESTART")
    /\ net_restarted' = TRUE
    /\ pc' = "restart"
    /\ UNCHANGED <<ret, handlers, active>>

switch_success ==
    /\ Switch("SUCCESS")
    /\ net_cleanup_loop
    /\ active' = eth_halt(active)
    /\ ret' = "ok"
    /\ pc' = "prompt"
    /\ UNCHANGED net_restarted

switch_fail ==
    /\ Switch("FAIL")
    /\ net_cleanup_loop
    /\ pc' = "prompt"
    /\ UNCHANGED <<ret, net_restarted, active>>

\* A command is given, with "ethact" naming device d: net_loop up to its restart
\* label.
net_loop(p, d, up) ==
    LET init == eth_init(d, up, first_failed, net_restart_wrap)
    IN  /\ pc = "prompt"
        /\ protocol' = p
        /\ net_restarted' = FALSE
        /\ net_dev_exists' = FALSE
        /\ net_try_count' = 1
        /\ current' = init.current
        /\ active' = IF init.ok THEN eth_halt(active) \cup {init.current}
                     ELSE eth_halt(active)
        /\ net_restart_wrap' = init.wrap
        /\ pc' = IF init.ok THEN "restart" ELSE "prompt"
        /\ ret' = IF init.ok THEN "ok" ELSE "error"
        /\ earned' = FALSE
        /\ tried' = {}
        /\ UNCHANGED <<net_state, timer_held, handlers, tftp_vars, arp_vars,
                       first_failed, env, answers>>

\* Mutant of net_loop_restart: a restart counts the tries from one again.
RestartCountsAnew ==
    /\ pc = "restart"
    /\ net_state' = "CONTINUE"
    /\ net_try_count' = 1
    /\ pc' = "prereq"
    /\ UNCHANGED <<protocol, ret, net_restarted, net_dev_exists, timer_held, handlers,
                   tftp_vars, arp_vars, eth_vars, env, answers, history>>

net_loop_restart ==
    /\ pc = "restart"
    /\ net_state' = "CONTINUE"
    /\ pc' = "prereq"
    /\ UNCHANGED <<protocol, ret, net_restarted, net_dev_exists, timer_held,
                   net_try_count, handlers, tftp_vars, arp_vars, eth_vars, env,
                   answers, history>>

\* net_check_prereq: an IP address the command needs is not set.  The variables
\* are the same after a restart, so it is found the first time or never.
not_configured ==
    /\ pc = "prereq" /\ ~net_restarted
    /\ active' = eth_halt(active)
    /\ ret' = "error"
    /\ pc' = "prompt"
    /\ UNCHANGED <<protocol, net_state, net_restarted, net_dev_exists, timer_held,
                   net_try_count, handlers, tftp_vars, arp_vars, current,
                   first_failed, net_restart_wrap, env, answers, history>>

\* net_check_prereq: no MAC address, so another device is tried.
no_ethaddr(up) ==
    /\ pc = "prereq" /\ current \in NoAddress
    /\ net_start_again(up, time_handler)
    /\ pc' = "arp"
    /\ UNCHANGED <<protocol, ret, net_restarted, net_dev_exists, timer_held, tftp_vars,
                   arp_vars, env, answers, history>>

Start(p) ==
    /\ pc = "prereq" /\ current \notin NoAddress /\ protocol = p
    /\ net_dev_exists' = TRUE
    /\ tried' = tried \cup {current}
    /\ pc' = "arp"
    /\ UNCHANGED <<protocol, net_state, ret, net_restarted, timer_held, net_try_count,
                   eth_vars, env, earned>>

ping_start ==
    /\ Start("PING")
    /\ time_handler' = "ping_timeout_handler"
    /\ arp_wait("ECHO")
    /\ UNCHANGED <<udp_handler, tftp_vars, answers>>

\* Mutant of tftp_start: the timeouts of the last try are still counted.
StartKeepsTimeoutCount ==
    /\ Start("TFTPGET")
    /\ time_handler' = "tftp_timeout_handler"
    /\ udp_handler' = "tftp_handler"
    /\ net_server_ethaddr' = FALSE
    /\ arp_wait("RRQ")
    /\ answers' = answers \ {"tftp"}
    /\ UNCHANGED timeout_count

\* Answers to an earlier tftp_start go to another port from now on.
tftp_start ==
    /\ Start("TFTPGET")
    /\ time_handler' = "tftp_timeout_handler"
    /\ udp_handler' = "tftp_handler"
    /\ timeout_count' = 0
    /\ net_server_ethaddr' = FALSE
    /\ arp_wait("RRQ")
    /\ answers' = answers \ {"tftp"}

------------------------------------------------------------------------------
\* Power-on: nothing is started, first_failed is a static variable.
Init ==
    /\ pc = "prompt"
    /\ protocol \in Protocols
    /\ net_state = "CONTINUE"
    /\ ret = "error"
    /\ net_restarted = FALSE /\ net_dev_exists = FALSE /\ net_try_count = 1
    /\ time_handler = "none" /\ timer_held = FALSE /\ udp_handler = "none"
    /\ timeout_count = 0 /\ net_server_ethaddr = FALSE
    /\ arp_waiting = FALSE /\ arp_wait_try = 0 /\ net_tx_packet = "none"
    /\ current = 1 /\ active = {}
    /\ first_failed = NoDevice /\ net_restart_wrap = FALSE
    /\ netretry \in NetRetry /\ ethrotate \in EthRotate
    /\ answers = {} /\ earned = FALSE /\ tried = {}

Command == \E p \in Protocols, d \in Devices, up \in SUBSET Devices : net_loop(p, d, up)

Packet ==
    \/ arp_receive
    \/ ping_receive
    \/ udp_dropped
    \/ tftp_complete
    \/ \E up \in SUBSET Devices : tftp_error(up)
    \/ tftp_error_not_retrying

ArpDue == arp_timeout_check(arp_due)

TimeoutDue ==
    \/ ping_timeout_handler
    \/ start_again_timeout_handler
    \/ tftp_timeout_resend
    \/ \E up \in SUBSET Devices : tftp_timeout_restart(up)

\* What net_loop does by itself, once it runs.
Step ==
    \/ arp_timeout_check(arp_idle)
    \/ arp_timeout_check(arp_not_due)
    \/ ArpDue
    \/ eth_rx_done
    \/ no_timeout
    \/ TimeoutDue
    \/ \E up \in SUBSET Devices : net_loop_fail(up)
    \/ switch_continue
    \/ switch_restart
    \/ switch_success
    \/ switch_fail
    \/ net_loop_restart
    \/ not_configured
    \/ \E up \in SUBSET Devices : no_ethaddr(up)
    \/ ping_start
    \/ tftp_start

Next == Command \/ Packet \/ ctrlc \/ Step

Spec == Init /\ [][Next]_vars

\* net_loop is the only thread, so it keeps turning; and time passes, so that a
\* check of the ARP timer or of the timeout that is made again and again, while
\* nothing moves its start, finds it due.  No packet needs to arrive.
Fairness == WF_vars(Step) /\ SF_vars(ArpDue) /\ SF_vars(TimeoutDue)

FairSpec == Spec /\ Fairness

------------------------------------------------------------------------------
(* Properties *)

TypeOK ==
    /\ pc \in {"prompt", "restart", "prereq", "arp", "rx", "time", "check", "switch"}
    /\ protocol \in Protocols
    /\ net_state \in {"CONTINUE", "RESTART", "SUCCESS", "FAIL"}
    /\ ret \in {"ok", "error"}
    /\ {net_restarted, net_dev_exists, timer_held, net_server_ethaddr, arp_waiting,
        net_restart_wrap, ethrotate, earned} \subseteq BOOLEAN
    /\ net_try_count \in 1 .. MaxTryCount
    /\ time_handler \in {"none", "ping_timeout_handler", "tftp_timeout_handler",
                         "start_again_timeout_handler"}
    /\ udp_handler \in {"none", "tftp_handler"}
    /\ timeout_count \in 0 .. tftp_timeout_count_max + 1
    /\ arp_wait_try \in 0 .. ARP_TIMEOUT_COUNT
    /\ net_tx_packet \in {"none", "ECHO", "RRQ"}
    /\ current \in Devices /\ active \subseteq Devices
    /\ first_failed \in Devices \cup {NoDevice}
    /\ netretry \in NetRetry
    /\ answers \subseteq {"echo", "tftp"}
    /\ tried \subseteq Devices

\* No device is left running behind the current one: whatever rotation,
\* "ethact" and failed starts do, eth_halt is called for a device before
\* another one takes its place.
OnlyCurrentStarted == active \subseteq {current}

\* Back at the prompt the Ethernet is stopped and no handler is left for the
\* next command to run into, whichever way net_loop ended.  The one exception
\* is the end in NETLOOP_FAIL after net_start_again has started a device.
QuietAtPrompt ==
    pc = "prompt" =>
        /\ time_handler = "none" /\ udp_handler = "none"
        /\ active = {} \/ (net_state = "FAIL" /\ ret = "ok")

\* The loop always has something to wait for: when it goes on, a timeout handler
\* is set, so that a silent network ends the command.
NeverStuck ==
    pc = "arp" /\ net_state = "CONTINUE" => time_handler # "none"

\* "netretry" bounds the work: net_loop returns, unless it is "yes".
Returns == (pc # "prompt" /\ netretry # "yes") ~> (pc = "prompt")

\* "host %s is alive": ping reports success only for a host that answered.
AliveMeansAnswered ==
    pc = "prompt" /\ protocol = "PING" /\ ret = "ok" => earned

\* tftpboot reports success only when the last block of the file has arrived.
LoadedMeansComplete ==
    pc = "prompt" /\ protocol = "TFTPGET" /\ ret = "ok" => earned

\* With "netretry" set to "once" an operation fails only when it has been tried
\* on all the network interfaces.
OnceTriesAll ==
    pc = "switch" /\ net_state = "FAIL" /\ netretry = "once" /\ ethrotate
        => tried = Devices

=============================================================================
