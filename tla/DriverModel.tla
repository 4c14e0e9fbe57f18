---------------------------- MODULE DriverModel ----------------------------
(***************************************************************************)
(* The life cycle of devices in the driver model: device_bind,             *)
(* device_probe, device_remove and device_unbind of drivers/core, which    *)
(* call each other along the device tree, with every callback of a driver  *)
(* or a uclass free to fail.                                               *)
(*                                                                         *)
(* The calls under way are a stack of frames, so that the state between    *)
(* two nested calls is visible.  A uclass's post_probe may itself probe    *)
(* children of the device, and fails when one of them does, as             *)
(* pci_uclass_post_probe does: device_probe is re-entered, and its code    *)
(* provides for that.                                                      *)
(***************************************************************************)
EXTENDS Integers, Sequences, FiniteSets

CONSTANTS
    Devices,              \* numbered, as the lists of children are
    Parent,               \* the parent of each device; NoParent for the root
    NoParent,
    Uclass,               \* the uclass of each device
    ReqSeq,               \* req_seq of each device, -1 for none
    DM_MAX_SEQ

Roots == {d \in Devices : Parent[d] = NoParent}

ASSUME DriverModelAssumption ==
    /\ Devices \subseteq Nat /\ IsFiniteSet(Devices)
    /\ NoParent \notin Devices
    /\ Parent \in [Devices -> Devices \cup {NoParent}]
    /\ \A d \in Devices : Parent[d] = NoParent \/ Parent[d] < d
    /\ Cardinality(Roots) = 1
    /\ ReqSeq \in [Devices -> {-1} \cup (0 .. DM_MAX_SEQ - 1)]
    /\ DM_MAX_SEQ \in Nat /\ DM_MAX_SEQ >= Cardinality(Devices)

VARIABLES
    bound,                \* the devices that exist
    platdata,             \* those whose platform data are allocated
    activated,            \* those with DM_FLAG_ACTIVATED
    priv,                 \* those whose private data are allocated
    seq,
    stack,                \* the calls under way, the innermost one last
    ret                   \* what the call that ended last has returned

data == <<bound, platdata, activated, priv, seq>>
vars == <<data, stack, ret>>

Children(d) == {c \in bound : Parent[c] = d}

------------------------------------------------------------------------------
(* Calls *)

Frame(fn, d) == [fn |-> fn, dev |-> d, at |-> "entry", todo |-> {}, saved |-> "ok"]

Top == stack[Len(stack)]

Running(fn, at) == stack # <<>> /\ Top.fn = fn /\ Top.at = at

\* The innermost call stands at label at, with children left to visit.
Going(at, todo, saved) ==
    [stack EXCEPT ![Len(stack)] = [@ EXCEPT !.at = at, !.todo = todo, !.saved = saved]]

goes(at) == stack' = Going(at, Top.todo, Top.saved)

calls(fn, d, at, todo) ==
    /\ stack' = Append(Going(at, todo, Top.saved), Frame(fn, d))
    /\ UNCHANGED ret

returns(result) ==
    /\ stack' = SubSeq(stack, 1, Len(stack) - 1)
    /\ ret' = result

------------------------------------------------------------------------------
(* device_probe *)

\* uclass_resolve_seq: the number asked for if it is free, or the first free one.
SeqsInUse(d) == {seq[e] : e \in {e \in bound : Uclass[e] = Uclass[d]}}

\* Mutant of uclass_resolve_seq: the number asked for is not looked up.
ResolveRequested(d) ==
    IF ReqSeq[d] # -1 THEN ReqSeq[d]
    ELSE CHOOSE s \in 0 .. DM_MAX_SEQ : s \notin SeqsInUse(d)

uclass_resolve_seq(d) ==
    IF ReqSeq[d] # -1 /\ ReqSeq[d] \notin SeqsInUse(d) THEN ReqSeq[d]
    ELSE CHOOSE s \in 0 .. DM_MAX_SEQ :
            /\ s \notin SeqsInUse(d) \/ s = DM_MAX_SEQ
            /\ \A t \in 0 .. s - 1 : t \in SeqsInUse(d)

\* Mutant of fail: the data are not freed.
FailKeepsData ==
    /\ activated' = activated \ {Top.dev}
    /\ seq' = [seq EXCEPT ![Top.dev] = -1]
    /\ returns("error")
    /\ UNCHANGED <<bound, platdata, priv>>

\* The "fail" label: no longer activated, no sequence number, data freed.
fail ==
    /\ activated' = activated \ {Top.dev}
    /\ seq' = [seq EXCEPT ![Top.dev] = -1]
    /\ priv' = priv \ {Top.dev}
    /\ returns("error")
    /\ UNCHANGED <<bound, platdata>>

probe_entry_active ==
    /\ Running("device_probe", "entry")
    /\ Top.dev \in activated
    /\ returns("ok")
    /\ UNCHANGED data

probe_entry_nomem ==
    /\ Running("device_probe", "entry")
    /\ Top.dev \notin activated
    /\ fail

\* Mutant of probe_entry: the parent is not probed.
ProbeWithoutParent ==
    /\ Running("device_probe", "entry")
    /\ Top.dev \notin activated
    /\ priv' = priv \cup {Top.dev}
    /\ stack' = Going("activate", {}, "ok") /\ ret' = "ok"
    /\ UNCHANGED <<bound, platdata, activated, seq>>

\* Private data are allocated unless a re-entered call has done it; then the
\* parent is probed.
probe_entry ==
    /\ Running("device_probe", "entry")
    /\ Top.dev \notin activated
    /\ priv' = priv \cup {Top.dev}
    /\ IF Top.dev \in Roots
       THEN stack' = Going("activate", {}, "ok") /\ ret' = "ok"
       ELSE calls("device_probe", Parent[Top.dev], "activate", {})
    /\ UNCHANGED <<bound, platdata, activated, seq>>

probe_parent_failed ==
    /\ Running("device_probe", "activate") /\ ret = "error"
    /\ fail

\* Probed during the call for its parent.
probe_done_meanwhile ==
    /\ Running("device_probe", "activate") /\ ret = "ok"
    /\ Top.dev \in activated
    /\ returns("ok")
    /\ UNCHANGED data

\* Mutant of probe_activate: flag and number are not set before the callbacks.
ActivateLate ==
    /\ Running("device_probe", "activate") /\ ret = "ok"
    /\ Top.dev \notin activated
    /\ goes("post_probe")
    /\ UNCHANGED <<data, ret>>

\* The sequence number, the flag, and the callbacks up to the driver's probe,
\* one of which may fail.
probe_activate ==
    /\ Running("device_probe", "activate") /\ ret = "ok"
    /\ Top.dev \notin activated
    /\ seq' = [seq EXCEPT ![Top.dev] = uclass_resolve_seq(Top.dev)]
    /\ activated' = activated \cup {Top.dev}
    /\ goes("post_probe")
    /\ UNCHANGED <<bound, platdata, priv, ret>>

probe_callback_failed ==
    /\ Running("device_probe", "activate") /\ ret = "ok"
    /\ Top.dev \notin activated
    /\ fail

\* uclass_post_probe_device, at the end of device_probe and on the error path of
\* device_remove: it may probe children, and fails if one of them fails.
PostProbing == Running("device_probe", "post_probe") \/ Running("device_remove", "post_probe")

post_probe_child ==
    /\ PostProbing
    /\ \E c \in Children(Top.dev) : calls("device_probe", c, "post_probe_child", {})
    /\ UNCHANGED data

PostProbedChild ==
    \/ Running("device_probe", "post_probe_child")
    \/ Running("device_remove", "post_probe_child")

post_probe_child_ok ==
    /\ PostProbedChild /\ ret = "ok"
    /\ goes("post_probe")
    /\ UNCHANGED <<data, ret>>

\* In device_remove the result of post_probe replaces the error it is there for.
post_probe_ok ==
    /\ PostProbing
    /\ returns("ok")
    /\ UNCHANGED data

post_probe_failed ==
    /\ PostProbing \/ (PostProbedChild /\ ret = "error")
    /\ IF Top.fn = "device_probe"
       THEN calls("device_remove", Top.dev, "undo", {})
       ELSE returns("error")
    /\ UNCHANGED data

\* The "fail_uclass" label: device_remove was called, then everything is undone
\* whatever it has returned.
probe_undone ==
    /\ Running("device_probe", "undo")
    /\ fail

------------------------------------------------------------------------------
(* device_remove *)

remove_entry ==
    /\ Running("device_remove", "entry")
    /\ \/ Top.dev \notin activated /\ returns("ok")
       \/ Top.dev \in activated /\ returns("error")        \* pre_remove fails
       \/ /\ Top.dev \in activated
          /\ stack' = Going("children", Children(Top.dev), "ok")
          /\ ret' = "ok"
    /\ UNCHANGED data

\* device_chld_remove: one child after the other, until one fails.
remove_child ==
    /\ Running("device_remove", "children") /\ ret = "ok"
    /\ \E c \in Top.todo :
        /\ \A e \in Top.todo : c <= e
        /\ calls("device_remove", c, "children", Top.todo \ {c})
    /\ UNCHANGED data

remove_child_failed ==
    /\ Running("device_remove", "children") /\ ret = "error"
    /\ goes("post_probe")
    /\ UNCHANGED <<data, ret>>

\* The driver's remove is called, and the device is given up; child_post_remove
\* may fail, which changes the result only.
remove_device ==
    /\ Running("device_remove", "children") /\ ret = "ok"
    /\ Top.todo = {}
    /\ activated' = activated \ {Top.dev}
    /\ seq' = [seq EXCEPT ![Top.dev] = -1]
    /\ priv' = priv \ {Top.dev}
    /\ returns("ok") \/ (Top.dev \notin Roots /\ returns("error"))
    /\ UNCHANGED <<bound, platdata>>

remove_failed ==
    /\ Running("device_remove", "children") /\ ret = "ok"
    /\ Top.todo = {}
    /\ goes("post_probe")
    /\ UNCHANGED <<data, ret>>

------------------------------------------------------------------------------
(* device_unbind and device_bind *)

\* Refused, or the driver's unbind fails.
unbind_refused ==
    /\ Running("device_unbind", "entry")
    /\ returns("error")
    /\ UNCHANGED data

\* Mutant of unbind_entry: an active device is not refused.
UnbindActive ==
    /\ Running("device_unbind", "entry")
    /\ stack' = Going("children", Children(Top.dev), "ok")
    /\ ret' = "ok"
    /\ UNCHANGED data

unbind_entry ==
    /\ Running("device_unbind", "entry")
    /\ Top.dev \notin activated
    /\ stack' = Going("children", Children(Top.dev), "ok")
    /\ ret' = "ok"
    /\ UNCHANGED data

\* Mutant of SavedRet: the last result counts.
LastRet == ret

\* device_chld_unbind goes on after an error, and keeps the first one.
SavedRet == IF ret = "error" THEN "error" ELSE Top.saved

unbind_child ==
    /\ Running("device_unbind", "children")
    /\ \E c \in Top.todo :
        /\ \A e \in Top.todo : c <= e
        /\ stack' = Append(Going("children", Top.todo \ {c}, SavedRet),
                           Frame("device_unbind", c))
    /\ UNCHANGED <<data, ret>>

unbind_children_failed ==
    /\ Running("device_unbind", "children")
    /\ Top.todo = {} /\ SavedRet = "error"
    /\ returns("error")
    /\ UNCHANGED data

\* Platform data are freed before pre_unbind of the uclass may still refuse.
unbind_device ==
    /\ Running("device_unbind", "children")
    /\ Top.todo = {} /\ SavedRet = "ok"
    /\ platdata' = platdata \ {Top.dev}
    /\ \/ bound' = bound \ {Top.dev} /\ returns("ok")
       \/ UNCHANGED bound /\ returns("error")
    /\ UNCHANGED <<activated, priv, seq>>

\* device_bind; when it fails everything it has done is undone.
device_bind(d) ==
    /\ stack = <<>>
    /\ d \notin bound /\ Parent[d] \in bound \cup {NoParent}
    /\ \/ /\ bound' = bound \cup {d}
          /\ platdata' = platdata \cup {d}
          /\ ret' = "ok"
       \/ ret' = "error" /\ UNCHANGED <<bound, platdata>>
    /\ UNCHANGED <<activated, priv, seq, stack>>

call(fn, d) ==
    /\ stack = <<>>
    /\ d \in bound
    /\ stack' = <<Frame(fn, d)>>
    /\ UNCHANGED <<data, ret>>

------------------------------------------------------------------------------
\* dm_init: the root device is bound and probed.
Init ==
    /\ bound = Roots /\ platdata = Roots
    /\ activated = Roots /\ priv = Roots
    /\ seq = [d \in Devices |-> IF d \in Roots THEN 0 ELSE -1]
    /\ stack = <<>> /\ ret = "ok"

Probe ==
    \/ probe_entry_active
    \/ probe_entry_nomem
    \/ probe_entry
    \/ probe_parent_failed
    \/ probe_done_meanwhile
    \/ probe_activate
    \/ probe_callback_failed
    \/ post_probe_child
    \/ post_probe_child_ok
    \/ post_probe_ok
    \/ post_probe_failed
    \/ probe_undone

Remove ==
    \/ remove_entry
    \/ remove_child
    \/ remove_child_failed
    \/ remove_device
    \/ remove_failed

Unbind ==
    \/ unbind_refused
    \/ unbind_entry
    \/ unbind_child
    \/ unbind_children_failed
    \/ unbind_device

Next ==
    \/ \E d \in Devices : device_bind(d)
    \/ \E d \in Devices, fn \in {"device_probe", "device_remove", "device_unbind"} :
            call(fn, d)
    \/ Probe \/ Remove \/ Unbind

Spec == Init /\ [][Next]_vars

------------------------------------------------------------------------------
(* Properties *)

\* No device is freed while it is active: what is activated or has private data
\* is bound.
TypeOK ==
    /\ bound \subseteq Devices
    /\ platdata \subseteq bound
    /\ activated \subseteq bound
    /\ priv \subseteq bound
    /\ seq \in [Devices -> -1 .. DM_MAX_SEQ - 1]
    /\ ret \in {"ok", "error"}
    /\ \A i \in 1 .. Len(stack) : stack[i].dev \in bound

\* A device's data are there as long as it is active, in every state of a nested
\* or re-entered call; and once all calls have returned an inactive device holds
\* none.
DataWhileActive ==
    /\ activated \subseteq priv
    /\ stack = <<>> => priv = activated

\* A sequence number names one device: the active devices of a uclass have
\* different ones, and an inactive device has none.
SeqNamesOne ==
    /\ \A d \in Devices : seq[d] # -1 <=> d \in activated
    /\ \A d, e \in activated :
           d # e /\ Uclass[d] = Uclass[e] => seq[d] # seq[e]

\* The children of a device are destroyed before it is, also when unbinding some
\* of them fails.
NoOrphans == \A d \in bound \ Roots : Parent[d] \in bound

\* A parent probed from its child that probes the child in turn does not recur
\* further: no device has more than two device_probe calls under way that have
\* not found it active.
ReentryBounded ==
    \A d \in Devices :
        Cardinality({i \in 1 .. Len(stack) :
            /\ stack[i].fn = "device_probe" /\ stack[i].dev = d
            /\ stack[i].at # "entry"}) <= 2

\* A device is activated only when its parent is active.
ParentFirst ==
    [][\A d \in activated' \ activated : d \in Roots \/ Parent[d] \in activated]_vars

\* "It is not permitted to have an active child device with a non-active
\* parent": true when no call is under way.
ActiveChain ==
    stack = <<>> => \A d \in activated \ Roots : Parent[d] \in activated
=============================================================================
