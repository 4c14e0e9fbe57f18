-------------------------------- MODULE Dhcp --------------------------------
(***************************************************************************)
(* The DHCP client (net/bootp.c with CONFIG_CMD_DHCP), as the command      *)
(* "dhcp" runs it in net_loop: broadcast a DHCPDISCOVER, answer the first  *)
(* reply with a DHCPREQUEST, take the address of the first DHCPACK.  Every *)
(* DHCPDISCOVER has an id of its own; a reply is taken when its id is one  *)
(* of the cache of ids, so that an answer which is slower than the retry   *)
(* timer is still of use.                                                  *)
(*                                                                         *)
(* External: the servers and a network that loses, repeats and reorders.   *)
(* A server has one address for this client, named like the server itself, *)
(* and holds its lease until it expires, which is longer than a command    *)
(* takes.  A BOOTP server answers a DHCPDISCOVER, without DHCP options.    *)
(*                                                                         *)
(* How long the retries go on is a free choice at each timeout.  An id is  *)
(* the time in ms plus bytes of the MAC address: here, one that no packet  *)
(* and no table still holds.                                               *)
(***************************************************************************)
EXTENDS Integers, FiniteSets, Sequences

CONSTANTS
    Servers,       \* the DHCP servers
    BootpServers,  \* the BOOTP servers
    None,          \* the address 0.0.0.0
    CacheSize,     \* CONFIG_BOOTP_ID_CACHE_SIZE
    UlongWords,    \* sizeof(ulong) / sizeof(u32)
    MaxId,         \* bound: ids are 1..MaxId, used again once forgotten
    MaxInFlight    \* bound: packets in the network at a time

Hosts == Servers \cup BootpServers
Ids == 1..MaxId
Slots == 0..(CacheSize - 1)

ASSUME DhcpAssumption ==
    /\ CacheSize \in Nat \ {0} /\ UlongWords \in 1..CacheSize
    /\ MaxId \in Nat /\ MaxId > 2 * CacheSize + MaxInFlight
    /\ MaxInFlight \in Nat
    /\ Servers \cap BootpServers = {} /\ None \notin Hosts

VARIABLES
    pc,             \* "prompt", "dhcp" or "bound": where the command is
    dhcp_state,     \* "INIT", "SELECTING", "REQUESTING" or "BOUND"
    bootp_ids, bootp_num_ids,
    dhcp_server_ip, \* the server named in a DHCPREQUEST
    net_ip,
    net,            \* external: the packets in the network
    leases,         \* external: the servers that hold a lease for us
    sent            \* ghost: the ids of the last CacheSize requests
                    \* since bootp_reset, the oldest first

client == <<pc, dhcp_state, bootp_ids, bootp_num_ids, dhcp_server_ip, net_ip>>
vars == <<client, net, leases, sent>>

\* Packets of the client, and of the servers.
Discover(id) == [type |-> "DISCOVER", id |-> id]
Request(id, server, addr) ==
    [type |-> "REQUEST", id |-> id, server |-> server, addr |-> addr]
Reply(type, id, from) == [type |-> type, id |-> id, from |-> from]

\* A packet that finds no room is lost.
Send(p) == IF Cardinality(net) < MaxInFlight THEN net \cup {p} ELSE net

-----------------------------------------------------------------------------
(***************************************************************************)
(* The cache of ids.                                                       *)
(***************************************************************************)

\* Mutant: a full cache is left as it is but for its last id.
AddIdNoShift(num, id) ==
    IF num >= CacheSize
    THEN /\ bootp_ids' = [bootp_ids EXCEPT ![num - 1] = id]
         /\ bootp_num_ids' = num
    ELSE /\ bootp_ids' = [bootp_ids EXCEPT ![num] = id]
         /\ bootp_num_ids' = num + 1

\* bootp_add_id, with num ids in the cache: all but the oldest are moved
\* down when it is full.  The ids are u32, the size that is subtracted is
\* that of a ulong.
bootp_add_id(num, id) ==
    IF num >= CacheSize
    THEN /\ bootp_ids' = [i \in Slots |->
                IF i = num - 1 THEN id
                ELSE IF i < CacheSize - UlongWords THEN bootp_ids[i + 1]
                ELSE bootp_ids[i]]
         /\ bootp_num_ids' = num
    ELSE /\ bootp_ids' = [bootp_ids EXCEPT ![num] = id]
         /\ bootp_num_ids' = num + 1

bootp_match_id(id) == \E i \in 0..(bootp_num_ids - 1) : bootp_ids[i] = id

-----------------------------------------------------------------------------
(***************************************************************************)
(* Requests.                                                               *)
(***************************************************************************)

Fresh == Ids \ ({p.id : p \in net} \cup {bootp_ids[i] : i \in Slots}
                  \cup {sent[i] : i \in DOMAIN sent})
NewId == CHOOSE id \in Fresh : TRUE

LastOf(s) == IF Len(s) > CacheSize THEN Tail(s) ELSE s

\* bootp_request, with num ids in the cache, those of the requests before.
bootp_request(num, before) ==
    /\ Fresh # {}
    /\ bootp_add_id(num, NewId)
    /\ net' = Send(Discover(NewId))
    /\ dhcp_state' = "SELECTING"
    /\ sent' = LastOf(Append(before, NewId))

\* Mutant: bootp_reset leaves the ids of the command before in the cache.
StartKeepsIds ==
    /\ bootp_request(bootp_num_ids, sent)
    /\ net_ip' = None
    /\ pc' = "dhcp"
    /\ UNCHANGED <<dhcp_server_ip, leases>>

\* net_loop starts, or starts again: bootp_reset, dhcp_request.
dhcp_start ==
    /\ bootp_request(0, <<>>)
    /\ net_ip' = None
    /\ pc' = "dhcp"
    /\ UNCHANGED <<dhcp_server_ip, leases>>

\* The command returns, whatever became of it.
Ends ==
    /\ pc' = "prompt"
    /\ UNCHANGED <<dhcp_state, bootp_ids, bootp_num_ids, dhcp_server_ip, net_ip,
                   net, leases, sent>>

do_dhcp == pc = "prompt" /\ dhcp_start

\* The timer is set in both states.  Ask again, or, when the time is up,
\* net_start_again.
bootp_timeout_handler ==
    /\ pc = "dhcp"
    /\ \/ /\ bootp_request(bootp_num_ids, sent)
          /\ UNCHANGED <<pc, dhcp_server_ip, net_ip, leases>>
       \/ dhcp_start
       \/ Ends

ctrlc == pc # "prompt" /\ Ends

-----------------------------------------------------------------------------
(***************************************************************************)
(* Replies.                                                                *)
(***************************************************************************)

Replies == {p \in net : p.type \in {"OFFER", "ACK", "BOOTREPLY"}}

\* check_reply_packet; the DHCPNAK, whose yiaddr is 0, ends there too.
Accepted(p) == pc = "dhcp" /\ p \in Replies /\ bootp_match_id(p.id)

\* dhcp_packet_process_options: the server identifier, if there are options.
ServerOf(p) == IF p.type = "BOOTREPLY" THEN dhcp_server_ip ELSE p.from

\* SELECTING: whatever the reply is, it is taken for a DHCPOFFER.
handler_selecting(p) ==
    /\ Accepted(p) /\ dhcp_state = "SELECTING"
    /\ dhcp_server_ip' = ServerOf(p)
    /\ dhcp_state' = "REQUESTING"
    /\ net' = Send(Request(p.id, dhcp_server_ip', p.from))
    /\ UNCHANGED <<pc, bootp_ids, bootp_num_ids, net_ip, leases, sent>>

\* REQUESTING: the first DHCPACK, of whichever server, ends the exchange.
handler_requesting(p) ==
    /\ Accepted(p) /\ dhcp_state = "REQUESTING" /\ p.type = "ACK"
    /\ dhcp_server_ip' = ServerOf(p)
    /\ net_ip' = p.from
    /\ dhcp_state' = "BOUND"
    /\ pc' = "bound"
    /\ UNCHANGED <<bootp_ids, bootp_num_ids, net, leases, sent>>

\* net_auto_load: the command ends, or a transfer does that may also start
\* everything again.
net_auto_load == pc = "bound" /\ (Ends \/ dhcp_start)

-----------------------------------------------------------------------------
(***************************************************************************)
(* External: the servers and the network.                                  *)
(***************************************************************************)

server_offer(s, p) ==
    /\ p.type = "DISCOVER" /\ Cardinality(net) < MaxInFlight
    /\ net' = net \cup {Reply(IF s \in Servers THEN "OFFER" ELSE "BOOTREPLY", p.id, s)}
    /\ UNCHANGED <<client, leases, sent>>

\* A server that is named and asked for its address, and may give it, does.
server_ack(p) ==
    /\ p.type = "REQUEST" /\ p.server \in Servers /\ p.addr = p.server
    /\ leases' = leases \cup {p.server}
    /\ net' = Send(Reply("ACK", p.id, p.server))
    /\ UNCHANGED <<client, sent>>

expire(s) ==
    /\ pc = "prompt" /\ s \in leases
    /\ leases' = leases \ {s}
    /\ UNCHANGED <<client, net, sent>>

lose(p) == net' = net \ {p} /\ UNCHANGED <<client, leases, sent>>

-----------------------------------------------------------------------------
Init ==
    /\ pc = "prompt" /\ dhcp_state = "INIT"
    /\ bootp_ids = [i \in Slots |-> 0] /\ bootp_num_ids = 0
    /\ dhcp_server_ip = None /\ net_ip = None
    /\ net = {} /\ leases = {} /\ sent = <<>>

Next ==
    \/ do_dhcp \/ bootp_timeout_handler \/ ctrlc \/ net_auto_load
    \/ \E p \in net :
          \/ handler_selecting(p) \/ handler_requesting(p)
          \/ server_ack(p) \/ lose(p)
          \/ \E s \in Hosts : server_offer(s, p)
    \/ \E s \in Servers : expire(s)

Spec == Init /\ [][Next]_vars

-----------------------------------------------------------------------------
(***************************************************************************)
(* Properties.                                                             *)
(***************************************************************************)

\* "Do not set the client IP, your IP, or server IP yet, since it hasn't been
\* ACK'ed by the server yet" (dhcp_send_request_packet): while a command runs
\* the client has no address but one whose server holds a lease for it, and
\* that server is the one it knows, whatever late or repeated answers of this
\* command, of an earlier one or of another server come in.
AddressGranted ==
    pc # "prompt" /\ net_ip # None => net_ip \in leases /\ dhcp_server_ip = net_ip

\* "In order to allow earlier responses to still be accepted after these
\* retransmissions, U-Boot's BOOTP client keeps a small cache of IDs" (README):
\* a reply to any of the last CacheSize requests is accepted.
LateAnswersAccepted == \A i \in DOMAIN sent : bootp_match_id(sent[i])
=============================================================================
