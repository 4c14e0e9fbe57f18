------------------------- MODULE DriverModelProofs -------------------------
(***************************************************************************)
(* Proofs about DriverModel, for any tree of devices, any uclasses and any *)
(* requested sequence numbers: the inductive invariant, which is about the *)
(* whole stack of calls; how calling, going on and returning keep its      *)
(* structure; that each step keeps it, those that leave the devices alone, *)
(* those that activate a device or give it up, and those of device_unbind; *)
(* and the theorems.                                                       *)
(*                                                                         *)
(* Linked says which call each frame waits for.  A call that descends (it  *)
(* probes or removes children) has an active device, and everything above  *)
(* it on the stack is below that device in the tree, but for a device_probe *)
(* that finds it active (DescendsActive, StaysBelow): nothing takes the    *)
(* device from under it.  A frame that waits for its parent and has lost   *)
(* its data is sure to be told of an error (LostIsTold), as every call     *)
(* between it and the loss hands the error on.                             *)
(***************************************************************************)
EXTENDS DriverModel, TLAPS

Labels == [device_probe  |-> {"entry", "activate", "post_probe", "post_probe_child", "undo"},
           device_remove |-> {"entry", "children", "post_probe", "post_probe_child"},
           device_unbind |-> {"entry", "children"}]

AllLabels == {"entry", "activate", "children", "post_probe", "post_probe_child", "undo"}

Frames == [fn : {"device_probe", "device_remove", "device_unbind"},
           dev : Devices,
           at : AllLabels,
           todo : SUBSET Devices,
           saved : {"ok", "error"}]

\* The devices strictly below p in the tree.
Below(p) ==
    {x \in Devices : \A S \in SUBSET Devices :
        (\A y \in Devices : Parent[y] \in S \cup {p} => y \in S) => x \in S}

\* Call f waits for call g.
Linked(f, g) ==
    \/ /\ f.fn = "device_probe" /\ f.at = "activate" /\ f.dev \notin Roots
       /\ g.fn = "device_probe" /\ g.dev = Parent[f.dev]
    \/ /\ f.fn \in {"device_probe", "device_remove"} /\ f.at = "post_probe_child"
       /\ g.fn = "device_probe" /\ Parent[g.dev] = f.dev
    \/ /\ f.fn = "device_probe" /\ f.at = "undo"
       /\ g.fn = "device_remove" /\ g.dev = f.dev
    \/ /\ f.fn \in {"device_remove", "device_unbind"} /\ f.at = "children"
       /\ g.fn = f.fn /\ Parent[g.dev] = f.dev /\ g.dev \notin f.todo

StackOK ==
    /\ stack \in Seq(Frames)
    /\ \A i \in 1 .. Len(stack) : stack[i].at \in Labels[stack[i].fn]
    /\ \A i \in 1 .. Len(stack) - 1 : Linked(stack[i], stack[i + 1])

\* Only device_unbind is called from device_unbind, and for a child.
UnbindAlone ==
    \A i, j \in 1 .. Len(stack) :
        stack[i].fn = "device_unbind" =>
            /\ stack[j].fn = "device_unbind"
            /\ i < j => stack[i].dev < stack[j].dev

Descends(f) ==
    \/ f.fn = "device_probe" /\ f.at \in {"post_probe", "post_probe_child"}
    \/ f.fn = "device_remove" /\ f.at \in {"children", "post_probe", "post_probe_child"}

Activating(f) == f.fn = "device_probe" /\ f.at = "activate"

DescendsActive ==
    \A i \in 1 .. Len(stack) : Descends(stack[i]) => stack[i].dev \in activated

StaysBelow ==
    \A i, j \in 1 .. Len(stack) :
        i < j /\ Descends(stack[i]) =>
            \/ stack[j].dev \in Below(stack[i].dev)
            \/ /\ j = Len(stack) /\ stack[j].dev = stack[i].dev
               /\ stack[j].fn = "device_probe" /\ stack[j].at = "entry"

\* A call that waits for the parent of d is followed by one for d, or for a
\* device below, only through a call that descends from the parent.
EnteredFromParent ==
    \A i, j \in 1 .. Len(stack) :
        /\ i < j /\ Activating(stack[i])
        /\ stack[j].dev \in Below(stack[i].dev) \cup {stack[i].dev}
        => \E k \in 1 .. Len(stack) :
              /\ i < k /\ k < j /\ Descends(stack[k])
              /\ stack[k].dev = Parent[stack[i].dev]

Structure == StackOK /\ UnbindAlone /\ StaysBelow /\ EnteredFromParent

\* From frame i on every call hands on an error, and one is on its way.
HandsOn(f) == f.fn = "device_probe" /\ f.at \in {"activate", "post_probe_child"}

Told(i) ==
    \E m \in i + 1 .. Len(stack) + 1 :
        /\ \A l \in i .. m - 1 : HandsOn(stack[l])
        /\ IF m = Len(stack) + 1 THEN ret = "error"
           ELSE stack[m].fn = "device_probe" /\ stack[m].at = "undo"

LostIsTold ==
    \A i \in 1 .. Len(stack) :
        Activating(stack[i]) /\ stack[i].dev \notin priv => Told(i)

\* Data without a device in use belong to a call that is about to use them.
DataIsAwaited ==
    \A d \in priv \ activated :
        \E i \in 1 .. Len(stack) : Activating(stack[i]) /\ stack[i].dev = d

\* What a device_probe that waited for the parent may rely on.
ParentReady ==
    stack # <<>> /\ Activating(Top) /\ ret = "ok" /\ Top.dev \notin Roots =>
        Parent[Top.dev] \in activated

\* The children device_unbind has not dealt with are on its list, or it knows
\* that unbinding one of them failed.
Unbinding(f) == f.fn = "device_unbind" /\ f.at = "children"

UnbindCounts ==
    \A i \in 1 .. Len(stack) : Unbinding(stack[i]) =>
        /\ stack[i].dev \notin activated
        /\ \A c \in Children(stack[i].dev) :
              \/ c \in stack[i].todo \/ stack[i].saved = "error"
              \/ IF i = Len(stack) THEN ret = "error" ELSE c = stack[i + 1].dev

\* The lists of children hold children.
TodoOK ==
    \A i \in 1 .. Len(stack) : \A c \in stack[i].todo :
        c \in bound /\ Parent[c] = stack[i].dev

Calls == Structure /\ DescendsActive
Data == LostIsTold /\ DataIsAwaited /\ activated \subseteq priv
Tree == NoOrphans /\ UnbindCounts /\ TodoOK

IInv == TypeOK /\ Calls /\ Data /\ Tree /\ ParentReady /\ SeqNamesOne

------------------------------------------------------------------------------
(* The tree *)

\* The children of p are below p, and so are the children of what is below.
LEMMA BelowChild ==
    ASSUME NEW p \in Devices, NEW x \in Devices, Parent[x] \in Below(p) \cup {p}
    PROVE  x \in Below(p)
BY Zenon DEF Below

\* The way up from below p leads to p.
LEMMA BelowParent ==
    ASSUME NEW p \in Devices, NEW x \in Below(p)
    PROVE  Parent[x] \in Below(p) \cup {p}
<1> DEFINE S == {y \in Below(p) : Parent[y] \in Below(p) \cup {p}}
<1>1. S \in SUBSET Devices
  BY Zenon DEF Below
<1>2. ASSUME NEW y \in Devices, Parent[y] \in S \cup {p} PROVE y \in S
  BY <1>2, BelowChild, Zenon
<1>3. x \in S
  <2> HIDE DEF S
  <2> QED BY <1>1, <1>2, Zenon DEF Below
<1> QED BY <1>3, Zenon

\* What is below p has a greater number; p is not below itself.
LEMMA BelowGreater ==
    ASSUME NEW p \in Devices, NEW x \in Below(p)
    PROVE  x \in Devices /\ p < x
<1> DEFINE S == {y \in Devices : p < y}
<1>1. S \in SUBSET Devices
  BY Zenon
<1>2. ASSUME NEW y \in Devices, Parent[y] \in S \cup {p} PROVE y \in S
  <2>1. p \in Nat /\ y \in Nat
    BY DriverModelAssumption, Zenon
  <2>2. Parent[y] \in Devices
    BY <1>2, Zenon
  <2>3. Parent[y] \in Nat /\ Parent[y] < y
    BY <2>2, DriverModelAssumption, Zenon
  <2>4. p = Parent[y] \/ p < Parent[y]
    BY <1>2, Zenon
  <2> QED BY <2>1, <2>3, <2>4
<1>3. x \in S
  <2> HIDE DEF S
  <2> QED BY <1>1, <1>2, Zenon DEF Below
<1> QED BY <1>3, Zenon

\* A device that is not a root has a parent, with a smaller number.
LEMMA ParentIs ==
    ASSUME NEW d \in Devices
    PROVE  /\ d \in Nat
           /\ d \notin Roots => Parent[d] \in Devices /\ Parent[d] < d
           /\ Parent[d] \in Devices => d \notin Roots /\ Parent[d] < d
BY DriverModelAssumption, Zenon DEF Roots

------------------------------------------------------------------------------
(* The three things a step does to the stack *)

Kept(m) == \A i \in 1 .. m : stack'[i] = stack[i]

Moves(f) ==
    /\ stack' \in Seq(Frames) /\ Len(stack') = Len(stack)
    /\ Kept(Len(stack) - 1) /\ stack'[Len(stack)] = f

Pushes(f, g) ==
    /\ stack' \in Seq(Frames) /\ Len(stack') = Len(stack) + 1
    /\ Kept(Len(stack) - 1) /\ stack'[Len(stack)] = f /\ stack'[Len(stack) + 1] = g

Pops ==
    /\ stack' \in Seq(Frames) /\ Len(stack') = Len(stack) - 1
    /\ Kept(Len(stack) - 1)

\* The innermost call, at another label.
TopAt(at, todo, saved) ==
    [fn |-> Top.fn, dev |-> Top.dev, at |-> at, todo |-> todo, saved |-> saved]

\* Replacing the last element of a sequence of frames.
LEMMA ReplaceLast ==
    ASSUME NEW s \in Seq(Frames), s # <<>>, NEW f \in Frames
    PROVE  LET t == [s EXCEPT ![Len(s)] = f]
           IN /\ t \in Seq(Frames) /\ Len(t) = Len(s) /\ t[Len(s)] = f
              /\ \A i \in 1 .. Len(s) - 1 : t[i] = s[i]
BY SMTT(30)

\* The innermost call is a frame.
LEMMA TopIsFrame ==
    ASSUME StackOK, stack # <<>>
    PROVE  /\ Len(stack) \in Nat /\ Len(stack) >= 1
           /\ Top \in Frames /\ Top = stack[Len(stack)]
BY DEF StackOK, Top

\* A frame at another label.
LEMMA FrameExcept ==
    ASSUME NEW r \in Frames, NEW at \in AllLabels, NEW todo \in SUBSET Devices,
           NEW saved \in {"ok", "error"}
    PROVE  [r EXCEPT !.at = at, !.todo = todo, !.saved = saved]
             = [fn |-> r.fn, dev |-> r.dev, at |-> at, todo |-> todo, saved |-> saved]
<1> DEFINE q == [r EXCEPT !.at = at, !.todo = todo, !.saved = saved]
<1>1. q \in Frames
  BY Zenon DEF Frames, AllLabels
<1>2. q.fn = r.fn /\ q.dev = r.dev /\ q.at = at /\ q.todo = todo /\ q.saved = saved
  BY Zenon DEF Frames
<1> HIDE DEF q
<1>3. q = [fn |-> r.fn, dev |-> r.dev, at |-> at, todo |-> todo, saved |-> saved]
  BY <1>1, <1>2, Zenon DEF Frames
<1> QED BY <1>3, Zenon DEF q

\* The frame of a new call.
LEMMA NewFrame ==
    ASSUME NEW fn \in {"device_probe", "device_remove", "device_unbind"}, NEW d \in Devices
    PROVE  /\ Frame(fn, d) \in Frames
           /\ Frame(fn, d).fn = fn /\ Frame(fn, d).dev = d /\ Frame(fn, d).at = "entry"
           /\ Frame(fn, d).todo = {}
<1>1. "entry" \in AllLabels
  BY Zenon DEF AllLabels
<1>2. Frame(fn, d) \in Frames
  BY <1>1, Zenon DEF Frame, Frames
<1> QED BY <1>2, Zenon DEF Frame

\* The fields of the innermost call, at another label.
LEMMA TopAtIs ==
    ASSUME Top \in Frames, NEW at \in AllLabels,
           NEW todo \in SUBSET Devices, NEW saved \in {"ok", "error"}
    PROVE  /\ TopAt(at, todo, saved) \in Frames
           /\ TopAt(at, todo, saved).fn = Top.fn /\ TopAt(at, todo, saved).dev = Top.dev
           /\ TopAt(at, todo, saved).at = at /\ TopAt(at, todo, saved).todo = todo
           /\ TopAt(at, todo, saved).saved = saved
<1>1. TopAt(at, todo, saved) \in Frames
  BY Zenon DEF TopAt, Frames
<1> QED BY <1>1, Zenon DEF TopAt

\* What Going does is to replace the innermost call.
LEMMA GoingIs ==
    ASSUME StackOK, stack # <<>>,
           NEW at \in AllLabels,
           NEW todo \in SUBSET Devices, NEW saved \in {"ok", "error"}
    PROVE  /\ TopAt(at, todo, saved) \in Frames
           /\ Going(at, todo, saved) = [stack EXCEPT ![Len(stack)] = TopAt(at, todo, saved)]
<1>1. Top \in Frames /\ Top = stack[Len(stack)]
  BY TopIsFrame, Zenon
<1>2. TopAt(at, todo, saved) \in Frames
  BY <1>1, TopAtIs, Zenon
<1>3. [stack[Len(stack)] EXCEPT !.at = at, !.todo = todo, !.saved = saved] = TopAt(at, todo, saved)
  <2> DEFINE r == stack[Len(stack)]
  <2>1. r \in Frames /\ Top = r
    BY <1>1, Zenon
  <2> HIDE DEF r
  <2>2. [r EXCEPT !.at = at, !.todo = todo, !.saved = saved]
          = [fn |-> r.fn, dev |-> r.dev, at |-> at, todo |-> todo, saved |-> saved]
    BY <2>1, FrameExcept, ZenonT(30)
  <2> QED BY <2>1, <2>2, Zenon DEF TopAt, r
<1> QED BY <1>2, <1>3, Zenon DEF Going

\* A call goes on to another label.
LEMMA GoingMoves ==
    ASSUME StackOK, stack # <<>>,
           NEW at \in AllLabels,
           NEW todo \in SUBSET Devices, NEW saved \in {"ok", "error"},
           stack' = Going(at, todo, saved)
    PROVE  Moves(TopAt(at, todo, saved))
<1> DEFINE f == TopAt(at, todo, saved)
<1>1. f \in Frames /\ stack' = [stack EXCEPT ![Len(stack)] = f]
  BY GoingIs, Zenon
<1>2. stack \in Seq(Frames)
  BY Zenon DEF StackOK
<1> HIDE DEF f
<1>3. Moves(f)
  BY <1>1, <1>2, ReplaceLast DEF Moves, Kept
<1> QED BY <1>3, Zenon DEF f

\* Appending to a sequence of frames.
LEMMA AppendFrame ==
    ASSUME NEW s \in Seq(Frames), NEW f \in Frames
    PROVE  /\ Append(s, f) \in Seq(Frames) /\ Len(Append(s, f)) = Len(s) + 1
           /\ Append(s, f)[Len(s) + 1] = f
           /\ \A i \in 1 .. Len(s) : Append(s, f)[i] = s[i]
OBVIOUS

\* A call calls another function.
LEMMA CallPushes ==
    ASSUME StackOK, stack # <<>>,
           NEW at \in AllLabels,
           NEW todo \in SUBSET Devices, NEW saved \in {"ok", "error"},
           NEW fn \in {"device_probe", "device_remove", "device_unbind"}, NEW d \in Devices,
           stack' = Append(Going(at, todo, saved), Frame(fn, d))
    PROVE  Pushes(TopAt(at, todo, saved), Frame(fn, d))
<1> DEFINE f == TopAt(at, todo, saved)
           g == Frame(fn, d)
           s == [stack EXCEPT ![Len(stack)] = f]
<1>1. f \in Frames /\ stack' = Append(s, g)
  BY GoingIs, Zenon
<1>2. g \in Frames
  BY NewFrame, Zenon
<1>3. stack \in Seq(Frames) /\ Len(stack) \in Nat /\ Len(stack) >= 1
  BY TopIsFrame, Zenon DEF StackOK
<1> HIDE DEF f, g
<1>4. /\ s \in Seq(Frames) /\ Len(s) = Len(stack) /\ s[Len(stack)] = f
      /\ \A i \in 1 .. Len(stack) - 1 : s[i] = stack[i]
  BY <1>1, <1>3, ReplaceLast, Zenon
<1> HIDE DEF s
<1>5. Pushes(f, g)
  BY <1>1, <1>2, <1>3, <1>4, AppendFrame DEF Pushes, Kept
<1> QED BY <1>5, Zenon DEF f, g

\* The beginning of a sequence of frames.
LEMMA PrefixOfFrames ==
    ASSUME NEW s \in Seq(Frames), NEW k \in Int, k >= 0, k <= Len(s)
    PROVE  /\ SubSeq(s, 1, k) \in Seq(Frames)
           /\ Len(SubSeq(s, 1, k)) = k
           /\ \A i \in 1 .. k : SubSeq(s, 1, k)[i] = s[i]
<1>1. SubSeq(s, 1, k) \in Seq(Frames)
  OBVIOUS
<1>2. Len(SubSeq(s, 1, k)) = k
  OBVIOUS
<1>3. \A i \in 1 .. k : SubSeq(s, 1, k)[i] = s[i]
  OBVIOUS
<1> QED BY <1>1, <1>2, <1>3, Zenon

\* A call returns.
LEMMA ReturnPops ==
    ASSUME StackOK, stack # <<>>, stack' = SubSeq(stack, 1, Len(stack) - 1)
    PROVE  Pops
<1>1. stack \in Seq(Frames) /\ Len(stack) \in Nat /\ Len(stack) >= 1
  BY TopIsFrame, Zenon DEF StackOK
<1> DEFINE k == Len(stack) - 1
<1>2. k \in Int /\ k >= 0 /\ k <= Len(stack)
  BY <1>1
<1>3. stack' = SubSeq(stack, 1, k)
  BY Zenon
<1> HIDE DEF k
<1>4. stack' \in Seq(Frames) /\ Len(stack') = k /\ Kept(k)
  BY <1>1, <1>2, <1>3, PrefixOfFrames DEF Kept
<1> QED BY <1>4, Zenon DEF Pops, k

------------------------------------------------------------------------------
(* What the three do to the structure of the stack *)

\* What the innermost call needs to be to go on: it is not one that finds its
\* device active.
NotFoundActive == ~(Top.fn = "device_probe" /\ Top.at = "entry" /\ Top.dev \in activated)

\* Returning leaves the calls below as they are.
LEMMA PopKeeps ==
    ASSUME Structure, stack # <<>>, Pops
    PROVE  Structure'
<1>1. Len(stack) \in Nat /\ Len(stack') \in Nat /\ Len(stack') = Len(stack) - 1
  BY TopIsFrame DEF Structure, Pops
<1>2. \A i \in 1 .. Len(stack') : i \in 1 .. Len(stack) /\ i # Len(stack) /\ stack'[i] = stack[i]
  BY <1>1 DEF Pops, Kept
<1>3. StackOK'
  <2>1. \A i \in 1 .. Len(stack') : stack'[i].at \in Labels[stack'[i].fn]
    BY <1>2, Zenon DEF Structure, StackOK
  <2>2. ASSUME NEW i \in 1 .. Len(stack') - 1 PROVE Linked(stack'[i], stack'[i + 1])
    <3>1. i \in 1 .. Len(stack) - 1 /\ i \in 1 .. Len(stack') /\ i + 1 \in 1 .. Len(stack')
      BY <1>1
    <3>2. stack'[i] = stack[i] /\ stack'[i + 1] = stack[i + 1]
      BY <1>2, <3>1, Zenon
    <3> QED BY <3>1, <3>2, Zenon DEF Structure, StackOK
  <2> QED BY <2>1, <2>2, Zenon DEF StackOK, Pops
<1>4. UnbindAlone'
  BY <1>2, Zenon DEF Structure, UnbindAlone
<1>5. StaysBelow'
  BY <1>2, Zenon DEF Structure, StaysBelow
<1>6. EnteredFromParent'
  <2> SUFFICES ASSUME NEW i \in 1 .. Len(stack'), NEW j \in 1 .. Len(stack'),
                      i < j, Activating(stack[i]),
                      stack[j].dev \in Below(stack[i].dev) \cup {stack[i].dev}
               PROVE  \E k \in 1 .. Len(stack') :
                         /\ i < k /\ k < j /\ Descends(stack'[k])
                         /\ stack'[k].dev = Parent[stack[i].dev]
    BY <1>2 DEF EnteredFromParent
  <2>1. PICK k \in 1 .. Len(stack) :
                         /\ i < k /\ k < j /\ Descends(stack[k])
                         /\ stack[k].dev = Parent[stack[i].dev]
    BY <1>2, Zenon DEF Structure, EnteredFromParent
  <2>2. k \in 1 .. Len(stack')
    BY <1>1, <2>1
  <2> QED BY <2>1, <2>2, <1>2, Zenon
<1> QED BY <1>3, <1>4, <1>5, <1>6, Zenon DEF Structure

\* Going on to another label, with nothing above, keeps the structure.
LEMMA MoveKeeps ==
    ASSUME Structure, DescendsActive, stack # <<>>, NotFoundActive,
           NEW f \in Frames, Moves(f), f.fn = Top.fn, f.dev = Top.dev, f.at \in Labels[f.fn]
    PROVE  Structure'
<1> DEFINE n == Len(stack)
<1>1. n \in Nat /\ n >= 1 /\ Len(stack') = n /\ Top = stack[n] /\ stack'[n] = f
  BY TopIsFrame, Zenon DEF Structure, Moves
<1>2. \A i \in 1 .. n : i # n => i \in 1 .. n - 1 /\ stack'[i] = stack[i]
  BY <1>1 DEF Moves, Kept
<1>3. \A i \in 1 .. n : stack'[i].fn = stack[i].fn /\ stack'[i].dev = stack[i].dev
  BY <1>1, <1>2, Zenon
<1> HIDE DEF n
<1>4. StackOK'
  <2>1. \A i \in 1 .. n : stack'[i].at \in Labels[stack'[i].fn]
    BY <1>1, <1>2, Zenon DEF Structure, StackOK, n
  <2>2. ASSUME NEW i \in 1 .. n - 1 PROVE Linked(stack'[i], stack'[i + 1])
    <3>1. i \in 1 .. n /\ i # n /\ i + 1 \in 1 .. n
      BY <1>1
    <3>2. /\ stack'[i] = stack[i] /\ stack'[i + 1].fn = stack[i + 1].fn
          /\ stack'[i + 1].dev = stack[i + 1].dev
      BY <1>2, <1>3, <3>1, Zenon
    <3>3. Linked(stack[i], stack[i + 1])
      BY Zenon DEF Structure, StackOK, n
    <3> QED BY <3>2, <3>3, Zenon DEF Linked
  <2> QED BY <1>1, <2>1, <2>2, Zenon DEF StackOK, Moves
<1>5. UnbindAlone'
  BY <1>1, <1>3, Zenon DEF Structure, UnbindAlone, n
<1>6. StaysBelow'
  <2> SUFFICES ASSUME NEW i \in 1 .. n, NEW j \in 1 .. n, i < j, Descends(stack'[i])
               PROVE  stack'[j].dev \in Below(stack'[i].dev)
    BY <1>1, Zenon DEF StaysBelow
  <2>1. i # n /\ stack'[i] = stack[i]
    BY <1>1, <1>2
  <2>2. stack[i].dev \in activated
    BY <2>1, Zenon DEF DescendsActive, n
  <2>3. ~(/\ j = n /\ stack[j].dev = stack[i].dev
          /\ stack[j].fn = "device_probe" /\ stack[j].at = "entry")
    BY <1>1, <2>2, Zenon DEF NotFoundActive
  <2>4. stack[j].dev \in Below(stack[i].dev)
    BY <2>1, <2>3, Zenon DEF Structure, StaysBelow, n
  <2> QED BY <1>3, <2>1, <2>4, Zenon
<1>7. EnteredFromParent'
  <2> SUFFICES ASSUME NEW i \in 1 .. n, NEW j \in 1 .. n, i < j, Activating(stack'[i]),
                      stack'[j].dev \in Below(stack'[i].dev) \cup {stack'[i].dev}
               PROVE  \E k \in 1 .. n :
                         /\ i < k /\ k < j /\ Descends(stack'[k])
                         /\ stack'[k].dev = Parent[stack'[i].dev]
    BY <1>1, Zenon DEF EnteredFromParent
  <2>1. i # n /\ stack'[i] = stack[i] /\ stack'[j].dev = stack[j].dev
    BY <1>1, <1>2, <1>3
  <2>2. PICK k \in 1 .. n : /\ i < k /\ k < j /\ Descends(stack[k])
                            /\ stack[k].dev = Parent[stack[i].dev]
    BY <2>1, Zenon DEF Structure, EnteredFromParent, n
  <2>3. k # n
    BY <1>1, <2>2
  <2> QED BY <1>2, <2>1, <2>2, <2>3, Zenon
<1> QED BY <1>4, <1>5, <1>6, <1>7, Zenon DEF Structure

\* A call that makes the call it is meant to make keeps the structure.
LEMMA PushKeeps ==
    ASSUME Structure, DescendsActive, stack # <<>>, NotFoundActive,
           NEW f \in Frames, NEW g \in Frames, Pushes(f, g),
           f.fn = Top.fn, f.dev = Top.dev, f.at \in Labels[f.fn],
           g.at = "entry", Linked(f, g)
    PROVE  Structure'
<1> DEFINE n == Len(stack)
<1>1. /\ n \in Nat /\ n >= 1 /\ Len(stack') = n + 1 /\ Top = stack[n]
      /\ stack'[n] = f /\ stack'[n + 1] = g
  BY TopIsFrame, Zenon DEF Structure, Pushes
<1>2. \A i \in 1 .. n : i # n => i \in 1 .. n - 1 /\ stack'[i] = stack[i]
  BY <1>1 DEF Pushes, Kept
<1>3. \A i \in 1 .. n : stack'[i].fn = stack[i].fn /\ stack'[i].dev = stack[i].dev
  BY <1>1, <1>2, Zenon
<1>4. \A i \in 1 .. n + 1 : i \in 1 .. n \/ i = n + 1
  BY <1>1
<1>5. \A i \in 1 .. n : stack[i].dev \in Devices
  <2>1. \A i \in 1 .. n : stack[i] \in Frames
    BY DEF Structure, StackOK
  <2> QED BY <2>1, Zenon DEF Frames
<1>6. f.dev \in Devices /\ g.dev \in Devices
  BY Zenon DEF Frames
<1> HIDE DEF n
<1>7. StackOK'
  <2>1. \A i \in 1 .. n + 1 : stack'[i].at \in Labels[stack'[i].fn]
    <3>1. g.at \in Labels[g.fn]
      BY DEF Labels, Frames
    <3>2. \A i \in 1 .. n : stack'[i].at \in Labels[stack'[i].fn]
      BY <1>1, <1>2, Zenon DEF Structure, StackOK, n
    <3> QED BY <1>1, <1>4, <3>1, <3>2, Zenon
  <2>2. ASSUME NEW i \in 1 .. n, i # n PROVE Linked(stack'[i], stack'[i + 1])
    <3>1. i + 1 \in 1 .. n /\ i \in 1 .. n - 1
      BY <1>1, <2>2
    <3>2. /\ stack'[i] = stack[i] /\ stack'[i + 1].fn = stack[i + 1].fn
          /\ stack'[i + 1].dev = stack[i + 1].dev
      BY <1>2, <1>3, <2>2, <3>1, Zenon
    <3>3. Linked(stack[i], stack[i + 1])
      BY <3>1, Zenon DEF Structure, StackOK, n
    <3> QED BY <3>2, <3>3, Zenon DEF Linked
  <2>3. \A i \in 1 .. n : Linked(stack'[i], stack'[i + 1])
    BY <1>1, <2>2, Zenon
  <2>4. (n + 1) - 1 = n
    BY <1>1
  <2> QED BY <1>1, <2>1, <2>3, <2>4, Zenon DEF StackOK, Pushes
<1>8. UnbindAlone'
  <2>1. f.fn = "device_unbind" <=> g.fn = "device_unbind"
    BY Zenon DEF Linked
  <2>2. f.fn = "device_unbind" => f.dev < g.dev
    <3> SUFFICES ASSUME f.fn = "device_unbind" PROVE f.dev < g.dev
      BY Zenon
    <3>1. Parent[g.dev] = f.dev
      BY Zenon DEF Linked
    <3> QED BY <1>6, <3>1, ParentIs, Zenon
  <2>3. \A i \in 1 .. n : stack[i].fn = "device_unbind" <=> f.fn = "device_unbind"
    BY <1>1 DEF Structure, UnbindAlone, n
  <2>4. \A i \in 1 .. n : f.fn = "device_unbind" /\ i # n => stack[i].dev < f.dev
    BY <1>1, <2>3 DEF Structure, UnbindAlone, n
  <2>5. \A i \in 1 .. n : f.fn = "device_unbind" => stack[i].dev < g.dev
    <3>1. \A d \in Devices : d \in Nat
      BY ParentIs, Zenon
    <3> QED BY <1>1, <1>5, <1>6, <2>2, <2>4, <3>1
  <2>6. ASSUME NEW i \in 1 .. n + 1, NEW j \in 1 .. n + 1, stack'[i].fn = "device_unbind"
        PROVE  stack'[j].fn = "device_unbind"
    BY <1>1, <1>3, <1>4, <2>1, <2>3, <2>6, Zenon
  <2>7. ASSUME NEW i \in 1 .. n + 1, NEW j \in 1 .. n + 1, stack'[i].fn = "device_unbind", i < j
        PROVE  stack'[i].dev < stack'[j].dev
    <3>1. i \in 1 .. n
      BY <1>1, <2>7
    <3>2. f.fn = "device_unbind" /\ stack[i].fn = "device_unbind"
      BY <1>3, <2>3, <2>7, <3>1, Zenon
    <3>3. CASE j = n + 1
      BY <1>1, <1>3, <2>5, <3>1, <3>2, <3>3, Zenon
    <3>4. CASE j \in 1 .. n
      BY <1>3, <2>7, <3>1, <3>2, <3>4, Zenon DEF Structure, UnbindAlone, n
    <3> QED BY <1>4, <3>3, <3>4, Zenon
  <2> QED BY <1>1, <2>6, <2>7, Zenon DEF UnbindAlone
<1>9. StaysBelow'
  <2> SUFFICES ASSUME NEW i \in 1 .. n + 1, NEW j \in 1 .. n + 1, i < j, Descends(stack'[i])
               PROVE  \/ stack'[j].dev \in Below(stack'[i].dev)
                      \/ /\ j = n + 1 /\ stack'[j].dev = stack'[i].dev
                         /\ stack'[j].fn = "device_probe" /\ stack'[j].at = "entry"
    BY <1>1, ZenonT(30) DEF StaysBelow
  <2>1. i \in 1 .. n
    BY <1>1
  <2>2. ASSUME NEW l \in 1 .. n, i < l PROVE stack[l].dev \in Below(stack[i].dev) /\ stack'[i] = stack[i]
    <3>1. i # n /\ stack'[i] = stack[i]
      BY <1>1, <1>2, <2>1, <2>2
    <3>2. stack[i].dev \in activated
      BY <2>1, <3>1, Zenon DEF DescendsActive, n
    <3>3. ~(/\ l = n /\ stack[l].dev = stack[i].dev
            /\ stack[l].fn = "device_probe" /\ stack[l].at = "entry")
      BY <1>1, <3>2, Zenon DEF NotFoundActive
    <3> QED BY <2>1, <2>2, <3>1, <3>3, Zenon DEF Structure, StaysBelow, n
  <2>3. CASE j \in 1 .. n
    BY <1>3, <2>1, <2>2, <2>3, Zenon
  <2>4. CASE j = n + 1 /\ i = n
    <3>1. Descends(f)
      BY <1>1, <2>4, Zenon
    <3>2. Parent[g.dev] = f.dev
      BY <3>1, Zenon DEF Linked, Descends
    <3> QED BY <1>1, <1>6, <2>4, <3>2, BelowChild, Zenon
  <2>5. CASE j = n + 1 /\ i # n
    <3> DEFINE p == stack[i].dev
    <3>1. i < n /\ n \in 1 .. n
      BY <1>1, <2>1, <2>5
    <3>2. p \in Devices /\ f.dev \in Below(p) /\ stack'[i].dev = p
      BY <1>1, <1>5, <2>1, <2>2, <3>1, Zenon
    <3> HIDE DEF p
    <3>3. CASE Parent[g.dev] = f.dev
      BY <1>1, <1>6, <2>5, <3>2, <3>3, BelowChild, Zenon
    <3>4. CASE g.dev = f.dev
      BY <1>1, <2>5, <3>2, <3>4, Zenon
    <3>5. CASE g.dev = Parent[f.dev] /\ g.fn = "device_probe"
      <4>1. g.dev \in Below(p) \cup {p}
        BY <3>2, <3>5, BelowParent, Zenon
      <4> QED BY <1>1, <2>5, <3>2, <3>5, <4>1, Zenon
    <3> QED BY <3>3, <3>4, <3>5, Zenon DEF Linked
  <2> QED BY <1>4, <2>3, <2>4, <2>5, Zenon
<1>10. EnteredFromParent'
  <2> SUFFICES ASSUME NEW i \in 1 .. n + 1, NEW j \in 1 .. n + 1, i < j, Activating(stack'[i]),
                      stack'[j].dev \in Below(stack'[i].dev) \cup {stack'[i].dev}
               PROVE  \E k \in 1 .. n + 1 :
                         /\ i < k /\ k < j /\ Descends(stack'[k])
                         /\ stack'[k].dev = Parent[stack'[i].dev]
    BY <1>1 DEF EnteredFromParent
  <2>1. i \in 1 .. n
    BY <1>1
  <2>2. ASSUME NEW l \in 1 .. n, i < l, stack[l].dev \in Below(stack[i].dev) \cup {stack[i].dev}
        PROVE  \E k \in 1 .. n + 1 :
                         /\ i < k /\ k < l /\ Descends(stack'[k])
                         /\ stack'[k].dev = Parent[stack'[i].dev]
    <3>1. i # n /\ stack'[i] = stack[i]
      BY <1>1, <1>2, <2>1, <2>2
    <3>2. PICK k \in 1 .. n : /\ i < k /\ k < l /\ Descends(stack[k])
                              /\ stack[k].dev = Parent[stack[i].dev]
      BY <2>1, <2>2, <3>1, Zenon DEF Structure, EnteredFromParent, n
    <3>3. k # n /\ k \in 1 .. n + 1
      BY <1>1, <2>2, <3>2
    <3> QED BY <1>2, <3>1, <3>2, <3>3, Zenon
  <2>3. CASE j \in 1 .. n
    BY <1>3, <2>1, <2>2, <2>3, Zenon
  <2>4. CASE j = n + 1 /\ i = n
    <3>1. g.dev = Parent[f.dev] /\ f.dev \notin Roots
      BY <1>1, <2>4, Zenon DEF Linked, Activating
    <3>2. g.dev < f.dev /\ g.dev \in Nat /\ f.dev \in Nat
      BY <1>6, <3>1, ParentIs, Zenon
    <3>3. g.dev \in Below(f.dev) \cup {f.dev}
      BY <1>1, <2>4, Zenon
    <3> QED BY <1>6, <3>2, <3>3, BelowGreater
  <2>5. CASE j = n + 1 /\ i # n
    <3> DEFINE d == stack[i].dev
    <3>1. i < n /\ n \in 1 .. n /\ n \in 1 .. n + 1 /\ n < n + 1
      BY <1>1, <2>1, <2>5
    <3>2. d \in Devices /\ stack'[i] = stack[i] /\ Activating(stack[i])
      BY <1>2, <1>5, <2>1, <2>5, Zenon
    <3>3. g.dev \in Below(d) \cup {d}
      BY <1>1, <2>5, <3>2, Zenon
    <3>4. f.fn # "device_unbind"
      BY <1>1, <2>1, <3>1, <3>2, Zenon DEF Structure, UnbindAlone, Activating, n
    <3>5. CASE f.dev \in Below(d) \cup {d}
      <4>1. PICK k \in 1 .. n + 1 : /\ i < k /\ k < n /\ Descends(stack'[k])
                                    /\ stack'[k].dev = Parent[stack'[i].dev]
        BY <1>1, <2>2, <3>1, <3>5, Zenon
      <4>2. k < j
        BY <1>1, <2>5, <4>1
      <4> QED BY <4>1, <4>2, Zenon
    <3>6. CASE f.dev \notin Below(d) \cup {d}
      <4> HIDE DEF d
      <4>1. g.dev # f.dev
        BY <3>3, <3>6, Zenon
      <4>2. g.dev # Parent[f.dev]
        BY <1>6, <3>2, <3>3, <3>6, BelowChild, Zenon
      <4>3. Parent[g.dev] = f.dev /\ Descends(f)
        BY <3>4, <4>1, <4>2, Zenon DEF Linked, Descends
      <4>4. g.dev = d
        BY <3>2, <3>3, <3>6, <4>3, BelowParent, Zenon
      <4>5. /\ i < n /\ n < j /\ Descends(stack'[n])
            /\ stack'[n].dev = Parent[stack'[i].dev]
        BY <1>1, <2>5, <3>1, <3>2, <4>3, <4>4, Zenon DEF d
      <4> QED BY <3>1, <4>5, Zenon
    <3> QED BY <3>5, <3>6, Zenon
  <2> QED BY <1>4, <2>3, <2>4, <2>5, Zenon
<1> QED BY <1>7, <1>8, <1>9, <1>10, Zenon DEF Structure

------------------------------------------------------------------------------
(* What the innermost call means for the calls below it *)

\* No call of device_unbind is under way below another function.
LEMMA NoUnbind ==
    ASSUME Structure, stack # <<>>, Top.fn # "device_unbind"
    PROVE  \A i \in 1 .. Len(stack) : stack[i].fn # "device_unbind"
BY TopIsFrame DEF Structure, UnbindAlone

\* A call that descends loses nothing by what the innermost call does to its
\* own device.
LEMMA DescendsKept ==
    ASSUME Structure, DescendsActive, stack # <<>>, NotFoundActive,
           NEW i \in 1 .. Len(stack) - 1, Descends(stack[i])
    PROVE  stack[i].dev \in activated \ {Top.dev}
<1> DEFINE n == Len(stack)
<1>1. n \in Nat /\ n >= 1 /\ Top = stack[n] /\ i \in 1 .. n /\ n \in 1 .. n /\ i < n
  BY TopIsFrame DEF Structure
<1>2. stack[i].dev \in activated
  BY <1>1, Zenon DEF DescendsActive
<1>3. Top.dev \in Below(stack[i].dev)
  BY <1>1, <1>2, Zenon DEF Structure, StaysBelow, NotFoundActive
<1>4. stack[i].dev \in Devices
  <2>1. stack[i] \in Frames
    BY <1>1 DEF Structure, StackOK
  <2> QED BY <2>1, Zenon DEF Frames
<1>5. stack[i].dev # Top.dev
  <2>1. stack[i].dev < Top.dev /\ stack[i].dev \in Nat
    BY <1>3, <1>4, BelowGreater, ParentIs, Zenon
  <2> QED BY <2>1
<1> QED BY <1>2, <1>5, Zenon

\* Who is to be told of an error still is, unless the step is the one that
\* tells.
LEMMA ToldKept ==
    ASSUME StackOK, stack # <<>>, Kept(Len(stack) - 1),
           Len(stack') \in Nat, Len(stack') >= Len(stack) - 1,
           ~(Top.fn = "device_probe" /\ Top.at = "undo"),
           ~(HandsOn(Top) /\ ret = "error"),
           NEW i \in 1 .. Len(stack) - 1, Told(i)
    PROVE  Told(i)'
<1> DEFINE n == Len(stack)
<1>1. n \in Nat /\ n >= 1 /\ Top = stack[n] /\ i \in Nat
  BY TopIsFrame
<1>2. PICK m \in i + 1 .. n + 1 :
        /\ \A l \in i .. m - 1 : HandsOn(stack[l])
        /\ IF m = n + 1 THEN ret = "error"
           ELSE stack[m].fn = "device_probe" /\ stack[m].at = "undo"
  BY Zenon DEF Told
<1>3. m # n
  BY <1>1, <1>2
<1>4. m # n + 1
  <2>1. ASSUME m = n + 1 PROVE FALSE
    <3>1. n \in i .. m - 1
      BY <1>1, <2>1
    <3> QED BY <1>1, <1>2, <2>1, <3>1, Zenon
  <2> QED BY <2>1, Zenon
<1>5. m \in i + 1 .. n - 1 /\ m \in 1 .. n - 1 /\ m \in i + 1 .. Len(stack') + 1
  /\ m # Len(stack') + 1
  BY <1>1, <1>2, <1>3, <1>4
<1>6. stack'[m] = stack[m]
  BY <1>5, Zenon DEF Kept
<1>7. \A l \in i .. m - 1 : stack'[l] = stack[l]
  BY <1>1, <1>5 DEF Kept
<1> QED BY <1>2, <1>4, <1>5, <1>6, <1>7, Zenon DEF Told

------------------------------------------------------------------------------
(* Steps of device_probe and device_remove that leave the devices alone *)

\* A step that leaves the devices alone keeps the invariant if it keeps the
\* structure of the stack, tells of an error who is to be told of it, and
\* returns success from device_probe only for an active device.
LEMMA SameDataKeeps ==
    ASSUME IInv, stack # <<>>, Top.fn # "device_unbind", UNCHANGED data, ret' \in {"ok", "error"},
           Calls', Kept(Len(stack) - 1), Len(stack') \in Nat, Len(stack') >= Len(stack) - 1,
           \A i \in Len(stack) .. Len(stack') :
              /\ stack'[i].fn # "device_unbind" /\ ~Activating(stack'[i]) /\ stack'[i].dev \in bound
              /\ \A c \in stack'[i].todo : c \in bound /\ Parent[c] = stack'[i].dev,
           \A i \in 1 .. Len(stack) - 1 : Told(i) => Told(i)',
           Activating(Top) => Top.dev \in activated,
           Len(stack') = Len(stack) - 1 /\ ret' = "ok" /\ Top.fn = "device_probe" => Top.dev \in activated
    PROVE  IInv'
<1> DEFINE n == Len(stack)
<1>1. n \in Nat /\ n >= 1 /\ Top = stack[n]
  BY TopIsFrame, Zenon DEF IInv, Calls, Structure
<1>2. \A i \in 1 .. Len(stack') : \/ i \in 1 .. n - 1 /\ i \in 1 .. n /\ stack'[i] = stack[i]
                                  \/ i \in n .. Len(stack')
  BY <1>1 DEF Kept
<1>3. \A i \in 1 .. n : stack[i].fn # "device_unbind"
  BY NoUnbind, Zenon DEF IInv, Calls
<1>4. /\ bound' = bound /\ platdata' = platdata /\ activated' = activated
      /\ priv' = priv /\ seq' = seq
  BY Zenon DEF data
<1> HIDE DEF n
<1>5. TypeOK'
  <2>1. \A i \in 1 .. Len(stack') : stack'[i].dev \in bound
    BY <1>2, Zenon DEF IInv, TypeOK, n
  <2> QED BY <1>4, <2>1, Zenon DEF IInv, TypeOK
<1>6. Data'
  <2>1. LostIsTold'
    <3> SUFFICES ASSUME NEW i \in 1 .. Len(stack'), Activating(stack'[i]), stack'[i].dev \notin priv
                 PROVE  Told(i)'
      BY <1>4, Zenon DEF LostIsTold
    <3>1. i \in 1 .. n - 1 /\ i \in 1 .. n /\ stack'[i] = stack[i]
      BY <1>2, Zenon DEF n
    <3>2. Told(i)
      BY <3>1, Zenon DEF IInv, Data, LostIsTold, n
    <3> QED BY <3>1, <3>2, Zenon DEF n
  <2>2. DataIsAwaited'
    <3> SUFFICES ASSUME NEW d \in priv \ activated
                 PROVE  \E i \in 1 .. Len(stack') : Activating(stack'[i]) /\ stack'[i].dev = d
      BY <1>4, Zenon DEF DataIsAwaited
    <3>1. PICK i \in 1 .. n : Activating(stack[i]) /\ stack[i].dev = d
      BY Zenon DEF IInv, Data, DataIsAwaited, n
    <3>2. i # n
      BY <1>1, <3>1, Zenon
    <3>3. i \in 1 .. Len(stack') /\ i \in 1 .. n - 1
      BY <1>1, <3>2 DEF n
    <3> QED BY <3>1, <3>3, Zenon DEF Kept, n
  <2> QED BY <1>4, <2>1, <2>2, Zenon DEF IInv, Data
<1>7. Tree'
  <2>1. NoOrphans'
    BY <1>4, Zenon DEF IInv, Tree, NoOrphans
  <2>2. UnbindCounts'
    <3>1. \A i \in 1 .. Len(stack') : ~Unbinding(stack'[i])
      BY <1>2, <1>3, Zenon DEF Unbinding, n
    <3> QED BY <3>1, Zenon DEF UnbindCounts
  <2>3. TodoOK'
    <3>1. \A i \in 1 .. n : \A c \in stack[i].todo : c \in bound /\ Parent[c] = stack[i].dev
      BY Zenon DEF IInv, Tree, TodoOK, n
    <3> QED BY <1>2, <1>4, <3>1, Zenon DEF TodoOK, n
  <2> QED BY <2>1, <2>2, <2>3, Zenon DEF Tree
<1>8. ParentReady'
  <2> SUFFICES ASSUME stack' # <<>>, Activating(Top'), ret' = "ok", Top'.dev \notin Roots
               PROVE  Parent[Top'.dev] \in activated
    BY <1>4, Zenon DEF ParentReady
  <2>1. Len(stack') >= 1 /\ Top' = stack'[Len(stack')]
    BY TopIsFrame DEF Calls, Structure, StackOK, Top
  <2>2. Len(stack') = n - 1
    <3>1. Len(stack') \in 1 .. Len(stack')
      BY <2>1
    <3>2. Len(stack') \in 1 .. n - 1
      BY <1>2, <2>1, <3>1, Zenon DEF n
    <3> QED BY <1>1, <3>2 DEF n
  <2>3. n - 1 \in 1 .. n - 1 /\ (n - 1) + 1 = n
    BY <1>1, <2>1, <2>2
  <2>4. Top' = stack[n - 1]
    BY <2>1, <2>2, <2>3, Zenon DEF Kept, n
  <2>5. Linked(Top', Top)
    BY <1>1, <2>3, <2>4, Zenon DEF IInv, Calls, Structure, StackOK, n
  <2>6. Top.fn = "device_probe" /\ Top.dev = Parent[Top'.dev]
    BY <2>5, Zenon DEF Linked, Activating
  <2> QED BY <2>2, <2>6, Zenon DEF n
<1>9. SeqNamesOne'
  BY <1>4, Zenon DEF IInv, SeqNamesOne
<1> QED BY <1>5, <1>6, <1>7, <1>8, <1>9, Zenon DEF IInv

\* Returning with the devices as they are.
LEMMA PlainReturn ==
    ASSUME IInv, stack # <<>>, Top.fn # "device_unbind", NEW r \in {"ok", "error"}, returns(r),
           UNCHANGED data,
           ~(Top.fn = "device_probe" /\ Top.at = "undo"),
           ~(HandsOn(Top) /\ ret = "error"),
           Activating(Top) => Top.dev \in activated,
           r = "ok" /\ Top.fn = "device_probe" => Top.dev \in activated
    PROVE  IInv'
<1>1. Structure /\ DescendsActive /\ StackOK
  BY Zenon DEF IInv, Calls, Structure
<1>2. Pops
  BY <1>1, ReturnPops, Zenon DEF returns
<1>3. /\ Kept(Len(stack) - 1) /\ Len(stack') \in Nat /\ Len(stack') = Len(stack) - 1
      /\ Len(stack) \in Nat
  BY <1>1, <1>2, TopIsFrame DEF Pops
<1>4. Structure'
  BY <1>1, <1>2, PopKeeps, Zenon
<1>5. DescendsActive'
  <2>1. activated' = activated
    BY Zenon DEF data
  <2>2. \A i \in 1 .. Len(stack') : i \in 1 .. Len(stack) /\ stack'[i] = stack[i]
    BY <1>3 DEF Kept
  <2> QED BY <1>1, <2>1, <2>2, Zenon DEF DescendsActive
<1>6. \A i \in 1 .. Len(stack) - 1 : Told(i) => Told(i)'
  BY <1>1, <1>3, ToldKept
<1>7. \A i \in Len(stack) .. Len(stack') : FALSE
  BY <1>3
<1>8. ret' = r
  BY Zenon DEF returns
<1> QED BY <1>3, <1>4, <1>5, <1>6, <1>7, <1>8, SameDataKeeps DEF Calls

\* Going on to where a call descends, with the devices as they are.
LEMMA PlainMove ==
    ASSUME IInv, stack # <<>>, Top.fn # "device_unbind", NotFoundActive,
           NEW f \in Frames, Moves(f), f.fn = Top.fn, f.dev = Top.dev, f.at \in Labels[f.fn],
           UNCHANGED data, ret' \in {"ok", "error"},
           Descends(f), Top.dev \in activated,
           \A c \in f.todo : c \in bound /\ Parent[c] = f.dev,
           ~(Top.fn = "device_probe" /\ Top.at = "undo"),
           ~(HandsOn(Top) /\ ret = "error")
    PROVE  IInv'
<1> DEFINE n == Len(stack)
<1>1. Structure /\ DescendsActive /\ StackOK
  BY Zenon DEF IInv, Calls, Structure
<1>2. /\ n \in Nat /\ n >= 1 /\ Top = stack[n] /\ Kept(n - 1) /\ Len(stack') = n
      /\ stack'[n] = f
  BY <1>1, TopIsFrame, Zenon DEF Moves
<1>3. Structure'
  BY <1>1, MoveKeeps, Zenon
<1>4. DescendsActive'
  <2>1. activated' = activated
    BY Zenon DEF data
  <2>2. \A i \in 1 .. n : i # n => stack'[i] = stack[i]
    BY <1>2 DEF Kept
  <2> QED BY <1>1, <1>2, <2>1, <2>2, Zenon DEF DescendsActive
<1>5. \A i \in 1 .. n - 1 : Told(i) => Told(i)'
  BY <1>1, <1>2, ToldKept
<1>6. \A i \in n .. Len(stack') : i = n
  BY <1>2
<1>7. f.dev \in bound /\ f.fn # "device_unbind" /\ ~Activating(f)
  <2>1. Top.dev \in bound
    BY <1>2, Zenon DEF IInv, TypeOK
  <2> QED BY <2>1, Zenon DEF Descends, Activating
<1> HIDE DEF n
<1>8. \A i \in n .. Len(stack') :
              /\ stack'[i].fn # "device_unbind" /\ ~Activating(stack'[i]) /\ stack'[i].dev \in bound
              /\ \A c \in stack'[i].todo : c \in bound /\ Parent[c] = stack'[i].dev
  BY <1>2, <1>6, <1>7, Zenon
<1>9. Len(stack') \in Nat /\ Len(stack') >= n - 1 /\ Len(stack') # n - 1
  BY <1>2
<1> QED BY <1>2, <1>3, <1>4, <1>5, <1>8, <1>9, SameDataKeeps, Zenon DEF Calls, n

\* Calling device_probe or device_remove, with the devices as they are.
LEMMA PlainCall ==
    ASSUME IInv, stack # <<>>, Top.fn # "device_unbind", NotFoundActive,
           NEW f \in Frames, NEW g \in Frames, Pushes(f, g), Linked(f, g),
           f.fn = Top.fn, f.dev = Top.dev, f.at \in Labels[f.fn],
           g.at = "entry", g.todo = {}, g.dev \in bound,
           UNCHANGED <<data, ret>>,
           ~Activating(f), ~Activating(Top), Descends(f) => Top.dev \in activated,
           \A c \in f.todo : c \in bound /\ Parent[c] = f.dev,
           \A i \in 1 .. Len(stack) - 1 : Told(i) => Told(i)'
    PROVE  IInv'
<1> DEFINE n == Len(stack)
<1>1. Structure /\ DescendsActive /\ StackOK
  BY Zenon DEF IInv, Calls, Structure
<1>2. /\ n \in Nat /\ n >= 1 /\ Top = stack[n] /\ Kept(n - 1) /\ Len(stack') = n + 1
      /\ stack'[n] = f /\ stack'[n + 1] = g
  BY <1>1, TopIsFrame, Zenon DEF Pushes
<1>3. Structure'
  BY <1>1, PushKeeps, Zenon
<1>4. DescendsActive'
  <2>1. activated' = activated
    BY Zenon DEF data
  <2>2. \A i \in 1 .. n : i # n => stack'[i] = stack[i]
    BY <1>2 DEF Kept
  <2>3. ~Descends(g)
    BY Zenon DEF Descends
  <2>4. \A i \in 1 .. n + 1 : i \in 1 .. n \/ i = n + 1
    BY <1>2
  <2> QED BY <1>1, <1>2, <2>1, <2>2, <2>3, <2>4, Zenon DEF DescendsActive
<1>5. \A i \in n .. Len(stack') : i = n \/ i = n + 1
  BY <1>2
<1>6. f.dev \in bound /\ f.fn # "device_unbind" /\ g.fn # "device_unbind" /\ ~Activating(g)
  <2>1. Top.dev \in bound
    BY <1>2 DEF IInv, TypeOK
  <2> QED BY <2>1, Zenon DEF Linked, Activating
<1> HIDE DEF n
<1>7. \A i \in n .. Len(stack') :
              /\ stack'[i].fn # "device_unbind" /\ ~Activating(stack'[i]) /\ stack'[i].dev \in bound
              /\ \A c \in stack'[i].todo : c \in bound /\ Parent[c] = stack'[i].dev
  BY <1>2, <1>5, <1>6, Zenon
<1>8. Len(stack') \in Nat /\ Len(stack') >= n - 1 /\ Len(stack') # n - 1
  BY <1>2
<1>9. ret' \in {"ok", "error"} /\ UNCHANGED data
  BY Zenon DEF IInv, TypeOK
<1> QED BY <1>2, <1>3, <1>4, <1>7, <1>8, <1>9, SameDataKeeps, Zenon DEF Calls, n

\* What the invariant says of the innermost call.
LEMMA TopFacts ==
    ASSUME IInv, stack # <<>>
    PROVE  /\ StackOK /\ Structure /\ Top \in Frames /\ Top = stack[Len(stack)]
           /\ Len(stack) \in Nat /\ Len(stack) >= 1
           /\ Top.dev \in bound /\ Top.dev \in Devices /\ ret \in {"ok", "error"}
           /\ Descends(Top) => Top.dev \in activated
           /\ \A c \in Top.todo : c \in bound /\ Parent[c] = Top.dev
           /\ Children(Top.dev) \in SUBSET Devices
<1>1. StackOK /\ Structure
  BY Zenon DEF IInv, Calls, Structure
<1>2. Len(stack) \in Nat /\ Len(stack) >= 1 /\ Top \in Frames /\ Top = stack[Len(stack)]
  BY <1>1, TopIsFrame, Zenon
<1>3. Len(stack) \in 1 .. Len(stack)
  BY <1>2
<1>4. Top.dev \in bound /\ bound \subseteq Devices /\ ret \in {"ok", "error"}
  BY <1>2, <1>3, Zenon DEF IInv, TypeOK
<1>5. Descends(Top) => Top.dev \in activated
  BY <1>2, <1>3, Zenon DEF IInv, Calls, DescendsActive
<1>6. \A c \in Top.todo : c \in bound /\ Parent[c] = Top.dev
  BY <1>2, <1>3, Zenon DEF IInv, Tree, TodoOK
<1>7. Children(Top.dev) \in SUBSET Devices
  BY <1>4, Zenon DEF Children
<1> QED BY <1>1, <1>2, <1>4, <1>5, <1>6, <1>7, Zenon

\* Going on to where the innermost call descends.
LEMMA GoesDown ==
    ASSUME IInv, stack # <<>>, Top.fn # "device_unbind", Top.dev \in activated,
           NotFoundActive,
           NEW at \in {"children", "post_probe"}, NEW todo \in SUBSET Devices,
           NEW saved \in {"ok", "error"}, stack' = Going(at, todo, saved),
           at = "children" => Top.fn = "device_remove",
           \A c \in todo : c \in bound /\ Parent[c] = Top.dev,
           UNCHANGED data, ret' \in {"ok", "error"},
           ~(Top.fn = "device_probe" /\ Top.at = "undo"),
           ~(HandsOn(Top) /\ ret = "error")
    PROVE  IInv'
<1> DEFINE f == TopAt(at, todo, saved)
<1>1. at \in AllLabels
  BY Zenon DEF AllLabels
<1>2. f \in Frames /\ Moves(f)
  BY <1>1, TopFacts, GoingIs, GoingMoves, Zenon
<1>3. f.fn = Top.fn /\ f.dev = Top.dev /\ f.at = at /\ f.todo = todo
  BY Zenon DEF TopAt
<1>4. Top.fn \in {"device_probe", "device_remove"}
  BY TopFacts, Zenon DEF Frames
<1>5. f.at \in Labels[f.fn] /\ Descends(f)
  BY <1>3, <1>4 DEF Labels, Descends
<1> HIDE DEF f
<1> QED BY <1>2, <1>3, <1>5, PlainMove, Zenon

\* The innermost call calls device_probe or device_remove.
LEMMA CallsDown ==
    ASSUME IInv, stack # <<>>, Top.fn \in {"device_probe", "device_remove"},
           Top.at # "activate", NotFoundActive,
           NEW fn \in {"device_probe", "device_remove"}, NEW d \in bound,
           NEW at \in AllLabels, NEW todo \in SUBSET Top.todo,
           calls(fn, d, at, todo), at # "activate", at \in Labels[Top.fn],
           Linked(TopAt(at, todo, Top.saved), Frame(fn, d)),
           Descends(TopAt(at, todo, Top.saved)) => Top.dev \in activated,
           UNCHANGED data,
           Pushes(TopAt(at, todo, Top.saved), Frame(fn, d)) =>
               \A i \in 1 .. Len(stack) - 1 : Told(i) => Told(i)'
    PROVE  IInv'
<1> DEFINE f == TopAt(at, todo, Top.saved)
           g == Frame(fn, d)
<1>1. /\ StackOK /\ Top \in Frames /\ d \in Devices
      /\ \A c \in Top.todo : c \in bound /\ Parent[c] = Top.dev
  BY TopFacts, Zenon DEF IInv, TypeOK
<1>2. todo \in SUBSET Devices /\ Top.saved \in {"ok", "error"}
  BY <1>1, Zenon DEF Frames
<1>3. stack' = Append(Going(at, todo, Top.saved), Frame(fn, d)) /\ UNCHANGED ret
  BY Zenon DEF calls
<1>4. f \in Frames /\ Pushes(f, g)
  BY <1>1, <1>2, <1>3, GoingIs, CallPushes, Zenon
<1>5. f.fn = Top.fn /\ f.dev = Top.dev /\ f.at = at /\ f.todo = todo
  BY Zenon DEF TopAt
<1>6. g \in Frames /\ g.at = "entry" /\ g.todo = {} /\ g.dev = d
  BY <1>1, NewFrame
<1>7. ~Activating(f) /\ ~Activating(Top) /\ Top.fn # "device_unbind"
  BY <1>5, Zenon DEF Activating
<1>8. \A c \in f.todo : c \in bound /\ Parent[c] = f.dev
  BY <1>1, <1>5, Zenon
<1>9. \A i \in 1 .. Len(stack) - 1 : Told(i) => Told(i)'
  BY <1>4, Zenon
<1>10. Linked(f, g) /\ (Descends(f) => Top.dev \in activated)
  BY Zenon
<1> HIDE DEF f, g
<1> QED BY <1>3, <1>4, <1>5, <1>6, <1>7, <1>8, <1>9, <1>10, PlainCall, Zenon

\* A call that does not hand on an error, nor undoes a device, tells who is to be
\* told in its turn.
LEMMA CallTells ==
    ASSUME IInv, stack # <<>>, NEW f \in Frames, NEW g \in Frames, Pushes(f, g),
           ~(Top.fn = "device_probe" /\ Top.at = "undo"),
           ~(HandsOn(Top) /\ ret = "error")
    PROVE  \A i \in 1 .. Len(stack) - 1 : Told(i) => Told(i)'
<1>1. StackOK /\ Len(stack) \in Nat /\ Len(stack) >= 1
  BY TopFacts, Zenon
<1>2. Kept(Len(stack) - 1) /\ Len(stack') = Len(stack) + 1
  BY Zenon DEF Pushes
<1>3. Len(stack') \in Nat /\ Len(stack') >= Len(stack) - 1
  BY <1>1, <1>2
<1> QED BY <1>1, <1>2, <1>3, ToldKept, Zenon

\* A device_probe that turns to undoing its device tells of an error.
LEMMA UndoTells ==
    ASSUME IInv, stack # <<>>, NEW f \in Frames, NEW g \in Frames, Pushes(f, g),
           f.fn = "device_probe", f.at = "undo",
           NEW i \in 1 .. Len(stack) - 1, Told(i)
    PROVE  Told(i)'
<1> DEFINE n == Len(stack)
<1>1. n \in Nat /\ n >= 1 /\ i \in Nat /\ i <= n - 1 /\ 1 <= i
  BY TopFacts
<1>2. PICK m \in i + 1 .. n + 1 :
        /\ \A l \in i .. m - 1 : HandsOn(stack[l])
        /\ IF m = n + 1 THEN ret = "error"
           ELSE stack[m].fn = "device_probe" /\ stack[m].at = "undo"
  BY Zenon DEF Told
<1>3. Kept(n - 1) /\ Len(stack') = n + 1 /\ stack'[n] = f
  BY Zenon DEF Pushes
<1> DEFINE k == IF m >= n THEN n ELSE m
<1>4. k \in i + 1 .. n /\ k \in i + 1 .. Len(stack') + 1 /\ k # Len(stack') + 1 /\ k <= m
  BY <1>1, <1>2, <1>3
<1>5. stack'[k].fn = "device_probe" /\ stack'[k].at = "undo"
  <2>1. CASE m >= n
    BY <1>3, <2>1, Zenon
  <2>2. CASE ~(m >= n)
    <3>1. m \in 1 .. n - 1 /\ m # n + 1 /\ k = m
      BY <1>1, <1>2, <2>2
    <3>2. stack'[m] = stack[m]
      BY <1>3, <3>1, Zenon DEF Kept
    <3> QED BY <1>2, <3>1, <3>2, Zenon
  <2> QED BY <2>1, <2>2, Zenon
<1> HIDE DEF k
<1>6. \A l \in i .. k - 1 : l \in i .. m - 1 /\ l \in 1 .. n - 1
  BY <1>1, <1>2, <1>4
<1>7. \A l \in i .. k - 1 : HandsOn(stack'[l])
  BY <1>2, <1>3, <1>6, Zenon DEF Kept
<1> QED BY <1>4, <1>5, <1>7, Zenon DEF Told

------------------------------------------------------------------------------
(* Steps that change a device *)

\* A device that is given up, by a failed probe or by its removal.
GivesUp ==
    /\ activated' = activated \ {Top.dev}
    /\ seq' = [seq EXCEPT ![Top.dev] = -1]
    /\ priv' = priv \ {Top.dev}
    /\ UNCHANGED <<bound, platdata>>

\* Above a device_probe that waits for its parent come calls that hand on an
\* error, up to the innermost call or to one that undoes a probe.
ErrorsReach ==
    \A i \in 1 .. Len(stack) : Activating(stack[i]) =>
        \E m \in i + 1 .. Len(stack) + 1 :
            /\ \A l \in i .. m - 1 : HandsOn(stack[l])
            /\ m <= Len(stack) => /\ stack[m].fn = "device_probe"
                                  /\ m # Len(stack) => stack[m].at = "undo"

\* Giving up a device on return keeps the invariant: the calls that descend from
\* it have returned, and whoever waits to use its data is told of an error.
LEMMA GiveUpKeeps ==
    ASSUME IInv, ErrorsReach, stack # <<>>, NotFoundActive,
           GivesUp, NEW r \in {"ok", "error"}, returns(r),
           Top.fn = "device_remove" \/ (Top.fn = "device_probe" /\ r = "error")
    PROVE  IInv'
<1> DEFINE n == Len(stack)
<1>1. Structure /\ DescendsActive /\ StackOK
  BY Zenon DEF IInv, Calls, Structure
<1>2. Pops
  BY <1>1, ReturnPops, Zenon DEF returns
<1>3. /\ n \in Nat /\ n >= 1 /\ Top = stack[n] /\ Kept(n - 1) /\ Len(stack') = n - 1
      /\ ret' = r
  BY <1>1, <1>2, TopIsFrame, Zenon DEF Pops, returns
<1>4. \A i \in 1 .. Len(stack') : i \in 1 .. n - 1 /\ i \in 1 .. n /\ stack'[i] = stack[i]
  BY <1>3 DEF Kept
<1>5. \A i \in 1 .. n : stack[i].fn # "device_unbind"
  BY <1>1, NoUnbind, Zenon
<1>6. Top.dev \in bound /\ Top.dev \in Devices
  BY <1>3 DEF IInv, TypeOK
<1> HIDE DEF n
<1>7. TypeOK'
  <2>1. \A i \in 1 .. Len(stack') : stack'[i].dev \in bound
    BY <1>4, Zenon DEF IInv, TypeOK, n
  <2>2. seq' \in [Devices -> -1 .. DM_MAX_SEQ - 1]
    BY <1>6, DriverModelAssumption DEF IInv, TypeOK, GivesUp
  <2> QED BY <1>3, <2>1, <2>2, Zenon DEF IInv, TypeOK, GivesUp
<1>8. Calls'
  <2>1. Structure'
    BY <1>1, <1>2, PopKeeps, Zenon
  <2>2. DescendsActive'
    BY <1>1, <1>4, DescendsKept, Zenon DEF DescendsActive, GivesUp, n
  <2> QED BY <2>1, <2>2, Zenon DEF Calls
<1>9. Data'
  <2>1. ASSUME NEW i \in 1 .. Len(stack'), Activating(stack'[i]) PROVE Told(i)'
    <3>1. i \in 1 .. n /\ i < n /\ Activating(stack[i])
      BY <1>3, <1>4, <2>1
    <3>2. PICK m \in i + 1 .. n + 1 :
              /\ \A l \in i .. m - 1 : HandsOn(stack[l])
              /\ m <= n => /\ stack[m].fn = "device_probe"
                           /\ m # n => stack[m].at = "undo"
      <4>1. StackOK /\ stack # <<>> /\ i \in 1 .. Len(stack) /\ Activating(stack[i])
        BY <1>1, <3>1, Zenon DEF n
      <4>2. \E m \in i + 1 .. Len(stack) + 1 :
              /\ \A l \in i .. m - 1 : HandsOn(stack[l])
              /\ m <= Len(stack) => /\ stack[m].fn = "device_probe"
                                    /\ m # Len(stack) => stack[m].at = "undo"
        BY <4>1, Zenon DEF ErrorsReach
      <4> QED BY <4>2, Zenon DEF n
    <3>3. CASE m < n
      <4>1. m \in 1 .. Len(stack') /\ m \in i + 1 .. Len(stack') + 1 /\ m # Len(stack') + 1
        BY <1>3, <3>1, <3>2, <3>3
      <4>2. \A l \in i .. m - 1 : stack'[l] = stack[l]
        BY <1>3, <1>4, <3>1, <4>1
      <4>3. stack'[m].fn = "device_probe" /\ stack'[m].at = "undo"
        BY <1>3, <1>4, <3>2, <3>3, <4>1
      <4> QED BY <3>2, <4>1, <4>2, <4>3, Zenon DEF Told
    <3>4. CASE ~(m < n)
      <4>1. n \in i + 1 .. Len(stack') + 1 /\ n = Len(stack') + 1
        BY <1>3, <3>1
      <4>2. \A l \in i .. n - 1 : HandsOn(stack[l]) /\ stack'[l] = stack[l]
        BY <1>3, <1>4, <3>1, <3>2, <3>4
      <4>3. Top.fn = "device_probe"
        <5>1. CASE m = n
          BY <1>3, <3>2, <5>1
        <5>2. CASE m = n + 1
          <6>1. HandsOn(stack[n])
            BY <1>3, <3>1, <3>2, <5>2
          <6> QED BY <1>3, <6>1, Zenon DEF HandsOn
        <5> QED BY <1>3, <3>1, <3>2, <3>4, <5>1, <5>2
      <4> QED BY <1>3, <4>1, <4>2, <4>3, Zenon DEF Told
    <3> QED BY <3>3, <3>4, Zenon
  <2>2. LostIsTold'
    BY <2>1, Zenon DEF LostIsTold
  <2>3. DataIsAwaited'
    <3> SUFFICES ASSUME NEW d \in priv \ activated, d # Top.dev
                 PROVE  \E i \in 1 .. Len(stack') : Activating(stack'[i]) /\ stack'[i].dev = d
      <4>1. \A d \in priv' \ activated' : d \in priv \ activated /\ d # Top.dev
        BY Zenon DEF GivesUp
      <4> QED BY <4>1, Zenon DEF DataIsAwaited
    <3>1. PICK i \in 1 .. n : Activating(stack[i]) /\ stack[i].dev = d
      BY Zenon DEF IInv, Data, DataIsAwaited, n
    <3>2. i # n
      BY <1>3, <3>1, Zenon
    <3>3. i \in 1 .. Len(stack')
      BY <1>3, <3>2
    <3> QED BY <1>4, <3>1, <3>3, Zenon
  <2> QED BY <2>2, <2>3, Zenon DEF IInv, Data, GivesUp
<1>10. Tree'
  <2>1. NoOrphans'
    BY Zenon DEF IInv, Tree, NoOrphans, GivesUp
  <2>2. UnbindCounts'
    BY <1>4, <1>5, Zenon DEF Unbinding, UnbindCounts
  <2>3. TodoOK'
    BY <1>4, Zenon DEF IInv, Tree, TodoOK, GivesUp, n
  <2> QED BY <2>1, <2>2, <2>3, Zenon DEF Tree
<1>11. ParentReady'
  <2> SUFFICES ASSUME stack' # <<>>, Activating(Top'), ret' = "ok" PROVE FALSE
    BY Zenon DEF ParentReady
  <2>1. Len(stack') >= 1 /\ Top' = stack'[Len(stack')]
    BY <1>8, TopIsFrame DEF Calls, Structure, StackOK, Top
  <2>2. n - 1 \in 1 .. n - 1 /\ (n - 1) + 1 = n /\ n - 1 \in 1 .. Len(stack')
    BY <1>3, <2>1
  <2>3. Top' = stack[n - 1]
    BY <1>3, <1>4, <2>1, <2>2, Zenon
  <2>4. Linked(Top', Top)
    BY <1>1, <1>3, <2>2, <2>3, Zenon DEF StackOK, n
  <2>5. Top.fn = "device_probe"
    BY <2>4, Zenon DEF Linked, Activating
  <2> QED BY <1>3, <2>5, Zenon
<1>12. SeqNamesOne'
  BY <1>6 DEF IInv, TypeOK, SeqNamesOne, GivesUp
<1> QED BY <1>7, <1>8, <1>9, <1>10, <1>11, <1>12, Zenon DEF IInv

\* Allocating private data at the beginning of device_probe.
LEMMA ProbeEntryKeeps ==
    ASSUME IInv, probe_entry
    PROVE  IInv'
<1> DEFINE n == Len(stack)
<1>1. Structure /\ DescendsActive /\ StackOK /\ stack # <<>> /\ NotFoundActive
  BY Zenon DEF IInv, Calls, Structure, probe_entry, Running, NotFoundActive
<1>2. /\ n \in Nat /\ n >= 1 /\ Top = stack[n] /\ Top \in Frames
      /\ Top.fn = "device_probe" /\ Top.at = "entry" /\ Top.dev \notin activated
  BY <1>1, TopIsFrame, Zenon DEF probe_entry, Running
<1>3. Top.dev \in bound /\ Top.dev \in Devices
  BY <1>2 DEF IInv, TypeOK
<1>4. /\ bound' = bound /\ platdata' = platdata /\ activated' = activated /\ seq' = seq
      /\ priv' = priv \cup {Top.dev}
  BY Zenon DEF probe_entry
<1>5. \E f \in Frames :
        /\ Kept(n - 1) /\ stack'[n] = f /\ Structure'
        /\ f.dev = Top.dev /\ f.todo = {} /\ Activating(f)
        /\ \/ Len(stack') = n /\ f.dev \in Roots /\ ret' = "ok"
           \/ /\ Len(stack') = n + 1 /\ ret' = ret
              /\ stack'[n + 1] = Frame("device_probe", Parent[Top.dev])
              /\ Parent[Top.dev] \in bound
  <2>1. CASE Top.dev \in Roots
    <3> DEFINE f == TopAt("activate", {}, "ok")
    <3>1. stack' = Going("activate", {}, "ok") /\ ret' = "ok"
      BY <2>1, Zenon DEF probe_entry
    <3>2. Moves(f) /\ f \in Frames
      BY <1>1, <3>1, GoingMoves, GoingIs, Zenon DEF AllLabels
    <3>3. /\ f.fn = Top.fn /\ f.dev = Top.dev /\ f.at \in Labels[f.fn] /\ f.todo = {}
          /\ Activating(f)
      BY <1>2 DEF TopAt, Labels, Activating
    <3> HIDE DEF f
    <3>4. Structure'
      BY <1>1, <3>2, <3>3, MoveKeeps, Zenon
    <3> QED BY <2>1, <3>1, <3>2, <3>3, <3>4, Zenon DEF Moves
  <2>2. CASE Top.dev \notin Roots
    <3> DEFINE f == TopAt("activate", {}, Top.saved)
               g == Frame("device_probe", Parent[Top.dev])
    <3>1. /\ stack' = Append(Going("activate", {}, Top.saved), g) /\ ret' = ret
          /\ Top.saved \in {"ok", "error"}
      BY <1>2, <2>2, Zenon DEF probe_entry, calls, Frames
    <3>2. Parent[Top.dev] \in Devices /\ Parent[Top.dev] \in bound
      BY <1>3, <2>2, ParentIs, Zenon DEF IInv, Tree, NoOrphans
    <3>3. Pushes(f, g) /\ f \in Frames
      BY <1>1, <3>1, <3>2, CallPushes, GoingIs, Zenon DEF AllLabels
    <3>a. /\ f.fn = Top.fn /\ f.dev = Top.dev /\ f.at = "activate" /\ f.todo = {}
      BY Zenon DEF TopAt
    <3>b. g \in Frames /\ g.at = "entry" /\ g.fn = "device_probe" /\ g.dev = Parent[Top.dev]
      BY <3>2, NewFrame, Zenon
    <3> HIDE DEF f, g
    <3>4. /\ f.fn = Top.fn /\ f.dev = Top.dev /\ f.at \in Labels[f.fn] /\ f.todo = {}
          /\ Activating(f)
      BY <1>2, <3>a DEF Labels, Activating
    <3>5. g \in Frames /\ g.at = "entry" /\ Linked(f, g)
      BY <1>2, <2>2, <3>a, <3>b, Zenon DEF Linked
    <3>6. Structure'
      BY <1>1, <3>3, <3>4, <3>5, PushKeeps, Zenon
    <3> QED BY <3>1, <3>2, <3>3, <3>4, <3>6, Zenon DEF Pushes, g
  <2> QED BY <2>1, <2>2, Zenon
<1>6. PICK f \in Frames :
        /\ Kept(n - 1) /\ stack'[n] = f /\ Structure'
        /\ f.dev = Top.dev /\ f.todo = {} /\ Activating(f)
        /\ \/ Len(stack') = n /\ f.dev \in Roots /\ ret' = "ok"
           \/ /\ Len(stack') = n + 1 /\ ret' = ret
              /\ stack'[n + 1] = Frame("device_probe", Parent[Top.dev])
              /\ Parent[Top.dev] \in bound
  BY <1>5, Zenon
<1> DEFINE g == Frame("device_probe", Parent[Top.dev])
<1>7. g.fn = "device_probe" /\ g.dev = Parent[Top.dev] /\ g.at = "entry" /\ g.todo = {}
  BY Zenon DEF Frame
<1>8. ~Activating(g) /\ ~Descends(g) /\ ~Descends(f) /\ f.fn = "device_probe"
  BY <1>6, <1>7, Zenon DEF Activating, Descends
<1>9. \A i \in 1 .. Len(stack') :
         \/ i \in 1 .. n - 1 /\ i \in 1 .. n /\ stack'[i] = stack[i]
         \/ i = n /\ stack'[i] = f
         \/ i = n + 1 /\ stack'[i] = g /\ g.dev \in bound
  BY <1>2, <1>6, <1>7 DEF Kept
<1>10. Len(stack') \in Nat /\ Len(stack') >= n
  BY <1>2, <1>6
<1> HIDE DEF n, g
<1>11. TypeOK'
  <2>1. \A i \in 1 .. Len(stack') : stack'[i].dev \in bound
    BY <1>3, <1>6, <1>9, Zenon DEF IInv, TypeOK, n
  <2> QED BY <1>3, <1>4, <1>6, <2>1, Zenon DEF IInv, TypeOK
<1>12. Calls'
  <2>1. DescendsActive'
    BY <1>1, <1>4, <1>8, <1>9, Zenon DEF DescendsActive, n
  <2> QED BY <1>6, <2>1, Zenon DEF Calls
<1>13. Data'
  <2>1. LostIsTold'
    <3> SUFFICES ASSUME NEW i \in 1 .. Len(stack'), Activating(stack'[i]), stack'[i].dev \notin priv'
                 PROVE  Told(i)'
      BY Zenon DEF LostIsTold
    <3>1. i \in 1 .. n - 1 /\ i \in 1 .. n /\ stack'[i] = stack[i]
      BY <1>4, <1>6, <1>8, <1>9, Zenon
    <3>2. Told(i)
      BY <1>4, <3>1, Zenon DEF IInv, Data, LostIsTold, n
    <3>3. ~HandsOn(Top) /\ ~(Top.fn = "device_probe" /\ Top.at = "undo")
      BY <1>2, Zenon DEF HandsOn
    <3>4. Len(stack') >= n - 1
      BY <1>2, <1>10
    <3> QED BY <1>1, <1>6, <1>10, <3>1, <3>2, <3>3, <3>4, ToldKept, Zenon DEF n
  <2>2. DataIsAwaited'
    <3> SUFFICES ASSUME NEW d \in priv' \ activated'
                 PROVE  \E i \in 1 .. Len(stack') : Activating(stack'[i]) /\ stack'[i].dev = d
      BY Zenon DEF DataIsAwaited
    <3>1. CASE d = Top.dev
      <4>1. n \in 1 .. Len(stack')
        BY <1>2, <1>10
      <4> QED BY <1>6, <3>1, <4>1, Zenon
    <3>2. CASE d # Top.dev
      <4>1. d \in priv \ activated
        BY <1>4, <3>2, Zenon
      <4>2. PICK i \in 1 .. n : Activating(stack[i]) /\ stack[i].dev = d
        BY <4>1, Zenon DEF IInv, Data, DataIsAwaited, n
      <4>3. i # n
        BY <1>2, <3>2, <4>2, Zenon
      <4>4. i \in 1 .. n - 1 /\ i \in 1 .. Len(stack')
        BY <1>2, <1>10, <4>3
      <4> QED BY <1>6, <4>2, <4>4, Zenon DEF Kept
    <3> QED BY <3>1, <3>2, Zenon
  <2> QED BY <1>4, <2>1, <2>2, Zenon DEF IInv, Data
<1>14. Tree'
  <2>1. NoOrphans'
    BY <1>4, Zenon DEF IInv, Tree, NoOrphans
  <2>2. UnbindCounts'
    <3>1. \A i \in 1 .. n : stack[i].fn # "device_unbind"
      BY <1>1, <1>2, NoUnbind, Zenon DEF n
    <3>2. \A i \in 1 .. Len(stack') : ~Unbinding(stack'[i])
      BY <1>7, <1>8, <1>9, <3>1, Zenon DEF Unbinding
    <3> QED BY <3>2, Zenon DEF UnbindCounts
  <2>3. TodoOK'
    <3>1. \A i \in 1 .. n : \A c \in stack[i].todo : c \in bound /\ Parent[c] = stack[i].dev
      BY Zenon DEF IInv, Tree, TodoOK, n
    <3> QED BY <1>4, <1>6, <1>7, <1>9, <3>1 DEF TodoOK
  <2> QED BY <2>1, <2>2, <2>3, Zenon DEF Tree
<1>15. ParentReady'
  <2>1. Top' = stack'[Len(stack')]
    BY Zenon DEF Top
  <2>2. CASE Len(stack') = n
    <3>1. f.dev \in Roots
      BY <1>2, <1>6, <2>2
    <3> QED BY <1>6, <2>1, <2>2, <3>1, Zenon DEF ParentReady
  <2>3. CASE Len(stack') = n + 1
    <3>1. Top' = g
      BY <1>2, <1>6, <2>1, <2>3 DEF g
    <3> QED BY <1>8, <3>1, Zenon DEF ParentReady
  <2> QED BY <1>6, <2>2, <2>3, Zenon
<1>16. SeqNamesOne'
  BY <1>4, Zenon DEF IInv, SeqNamesOne
<1> QED BY <1>11, <1>12, <1>13, <1>14, <1>15, <1>16, Zenon DEF IInv

\* uclass_resolve_seq finds a number that no other device of the uclass has.
NumbersLeft ==
    \A d \in bound \ activated :
        /\ uclass_resolve_seq(d) \in 0 .. DM_MAX_SEQ - 1
        /\ uclass_resolve_seq(d) \notin SeqsInUse(d)

\* Activating a device: its data are there, as its call was not told of an error.
LEMMA ProbeActivateKeeps ==
    ASSUME IInv, NumbersLeft, probe_activate
    PROVE  IInv'
<1> DEFINE n == Len(stack)
           f == TopAt("post_probe", Top.todo, Top.saved)
           x == Top.dev
<1>1. /\ Structure /\ DescendsActive /\ StackOK /\ stack # <<>>
      /\ Top.fn = "device_probe" /\ Top.at = "activate" /\ x \notin activated /\ ret = "ok"
  BY Zenon DEF IInv, Calls, Structure, probe_activate, Running
<1>2. n \in Nat /\ n >= 1 /\ Top = stack[n] /\ Top \in Frames
  BY <1>1, TopIsFrame, Zenon
<1>3. x \in bound /\ x \in Devices
  BY <1>2 DEF IInv, TypeOK
<1>4. /\ bound' = bound /\ platdata' = platdata /\ priv' = priv /\ ret' = ret
      /\ activated' = activated \cup {x}
      /\ seq' = [seq EXCEPT ![x] = uclass_resolve_seq(x)]
  BY Zenon DEF probe_activate
<1>5. Moves(f) /\ f \in Frames
  <2>1. Top.todo \in SUBSET Devices /\ Top.saved \in {"ok", "error"}
    BY <1>2, Zenon DEF Frames
  <2>2. stack' = Going("post_probe", Top.todo, Top.saved)
    BY Zenon DEF probe_activate, goes
  <2> QED BY <1>1, <2>1, <2>2, GoingMoves, GoingIs, Zenon DEF AllLabels
<1>6. /\ f.fn = Top.fn /\ f.dev = x /\ f.at \in Labels[f.fn] /\ f.todo = Top.todo
      /\ ~Activating(f)
  BY <1>1 DEF TopAt, Labels, Activating
<1>7. NotFoundActive /\ Activating(Top)
  BY <1>1, Zenon DEF NotFoundActive, Activating
<1> HIDE DEF f
<1>8. Kept(n - 1) /\ Len(stack') = n /\ stack'[n] = f
  BY <1>5, Zenon DEF Moves
<1>9. \A i \in 1 .. n : i # n => i \in 1 .. n - 1 /\ stack'[i] = stack[i]
  BY <1>2, <1>8 DEF Kept
<1> HIDE DEF n
<1>10. TypeOK'
  <2>1. \A i \in 1 .. n : stack'[i].dev \in bound
    BY <1>3, <1>6, <1>8, <1>9, Zenon DEF IInv, TypeOK, n
  <2>2. uclass_resolve_seq(x) \in 0 .. DM_MAX_SEQ - 1
    BY <1>1, <1>3, Zenon DEF NumbersLeft
  <2>3. seq' \in [Devices -> -1 .. DM_MAX_SEQ - 1]
    <3>1. uclass_resolve_seq(x) \in -1 .. DM_MAX_SEQ - 1
      BY <2>2, DriverModelAssumption
    <3> QED BY <1>3, <1>4, <3>1, Zenon DEF IInv, TypeOK
  <2> QED BY <1>3, <1>4, <1>8, <2>1, <2>3, Zenon DEF IInv, TypeOK
<1>11. Calls'
  <2>1. Structure'
    BY <1>1, <1>5, <1>6, <1>7, MoveKeeps, Zenon
  <2>2. DescendsActive'
    BY <1>1, <1>4, <1>6, <1>8, <1>9, Zenon DEF DescendsActive, n
  <2> QED BY <2>1, <2>2, Zenon DEF Calls
<1>12. x \in priv
  <2> SUFFICES ASSUME x \notin priv PROVE FALSE
    BY Zenon
  <2>1. Told(n)
    BY <1>2, <1>7 DEF IInv, Data, LostIsTold, n
  <2>2. PICK m \in n + 1 .. n + 1 : IF m = n + 1 THEN ret = "error" ELSE TRUE
    BY <2>1, Zenon DEF Told, n
  <2> QED BY <1>1, <1>2, <2>2
<1>13. Data'
  <2>1. LostIsTold'
    <3> SUFFICES ASSUME NEW i \in 1 .. n, Activating(stack'[i]), stack'[i].dev \notin priv
                 PROVE  Told(i)'
      BY <1>4, <1>8, Zenon DEF LostIsTold
    <3>1. i \in 1 .. n - 1 /\ stack'[i] = stack[i]
      BY <1>6, <1>8, <1>9, Zenon
    <3>2. Told(i)
      BY <3>1, Zenon DEF IInv, Data, LostIsTold, n
    <3>3. Len(stack') \in Nat /\ Len(stack') >= n - 1
      BY <1>2, <1>8
    <3> QED BY <1>1, <1>8, <3>1, <3>2, <3>3, ToldKept, Zenon DEF n
  <2>2. DataIsAwaited'
    <3> SUFFICES ASSUME NEW d \in priv \ activated, d # x
                 PROVE  \E i \in 1 .. n : Activating(stack'[i]) /\ stack'[i].dev = d
      BY <1>4, <1>8, Zenon DEF DataIsAwaited
    <3>1. PICK i \in 1 .. n : Activating(stack[i]) /\ stack[i].dev = d
      BY Zenon DEF IInv, Data, DataIsAwaited, n
    <3> QED BY <1>2, <1>9, <3>1, Zenon
  <2> QED BY <1>4, <1>12, <2>1, <2>2, Zenon DEF IInv, Data
<1>14. Tree'
  <2>1. NoOrphans'
    BY <1>4, Zenon DEF IInv, Tree, NoOrphans
  <2>2. UnbindCounts'
    <3>1. \A i \in 1 .. n : stack[i].fn # "device_unbind"
      BY <1>1, NoUnbind, Zenon DEF n
    <3>2. \A i \in 1 .. n : ~Unbinding(stack'[i])
      BY <1>1, <1>6, <1>8, <1>9, <3>1, Zenon DEF Unbinding
    <3> QED BY <1>8, <3>2, Zenon DEF UnbindCounts
  <2>3. TodoOK'
    <3>1. \A i \in 1 .. n : \A c \in stack[i].todo : c \in bound /\ Parent[c] = stack[i].dev
      BY Zenon DEF IInv, Tree, TodoOK, n
    <3>2. \A i \in 1 .. n : stack'[i].todo = stack[i].todo /\ stack'[i].dev = stack[i].dev
      BY <1>2, <1>6, <1>8, <1>9, Zenon
    <3> QED BY <1>4, <1>8, <3>1, <3>2, Zenon DEF TodoOK
  <2> QED BY <2>1, <2>2, <2>3, Zenon DEF Tree
<1>15. ParentReady'
  <2>1. Top' = f
    BY <1>8, Zenon DEF Top
  <2> QED BY <1>6, <2>1, Zenon DEF ParentReady
<1>16. SeqNamesOne'
  <2> DEFINE s == uclass_resolve_seq(x)
  <2>1. s \in 0 .. DM_MAX_SEQ - 1 /\ s \notin SeqsInUse(x)
    BY <1>1, <1>3, Zenon DEF NumbersLeft
  <2> HIDE DEF s
  <2>2. \A d \in Devices : seq'[d] = IF d = x THEN s ELSE seq[d]
    BY <1>4, Zenon DEF IInv, TypeOK, s
  <2>3. s # -1
    BY <2>1
  <2>4. \A d \in activated : d \in bound /\ d \in Devices
    BY Zenon DEF IInv, TypeOK
  <2>5. \A d \in activated : Uclass[d] = Uclass[x] => seq[d] # s
    BY <2>1, <2>4, Zenon DEF SeqsInUse
  <2>6. \A d \in Devices : seq'[d] # -1 <=> d \in activated'
    BY <1>4, <2>2, <2>3, Zenon DEF IInv, SeqNamesOne
  <2>7. ASSUME NEW d \in activated', NEW e \in activated', d # e, Uclass[d] = Uclass[e]
        PROVE  seq'[d] # seq'[e]
    <3>1. (d = x \/ d \in activated) /\ (e = x \/ e \in activated)
      BY <1>4, <2>7, Zenon
    <3>2. CASE d = x
      BY <1>3, <2>2, <2>4, <2>5, <2>7, <3>1, <3>2, Zenon
    <3>3. CASE e = x
      BY <1>3, <2>2, <2>4, <2>5, <2>7, <3>1, <3>3, Zenon
    <3>4. CASE d # x /\ e # x
      BY <2>2, <2>4, <2>7, <3>1, <3>4, Zenon DEF IInv, SeqNamesOne
    <3> QED BY <3>2, <3>3, <3>4, Zenon
  <2> QED BY <2>6, <2>7, Zenon DEF SeqNamesOne
<1> QED BY <1>10, <1>11, <1>13, <1>14, <1>15, <1>16, Zenon DEF IInv

------------------------------------------------------------------------------
(* Steps of device_unbind *)

\* While devices are unbound no other call is under way: there are no private
\* data but those of active devices, and nothing is activated.
LEMMA UnbindRest ==
    ASSUME IInv, stack # <<>>, Top.fn = "device_unbind",
           UNCHANGED <<activated, priv, seq>>, Structure',
           \A i \in 1 .. Len(stack') : stack'[i].fn = "device_unbind"
    PROVE  /\ Calls' /\ Data' /\ ParentReady' /\ SeqNamesOne'
           /\ priv \subseteq activated
<1>1. \A i \in 1 .. Len(stack) : stack[i].fn = "device_unbind"
  BY TopIsFrame DEF IInv, Calls, Structure, UnbindAlone
<1>2. priv \subseteq activated
  BY <1>1, Zenon DEF IInv, Data, DataIsAwaited, Activating
<1>3. Calls'
  BY Zenon DEF Calls, DescendsActive, Descends
<1>4. Data'
  BY <1>2, Zenon DEF IInv, Data, DataIsAwaited, LostIsTold, Activating
<1>5. ParentReady'
  <2>1. stack' # <<>> => Top'.fn = "device_unbind"
    BY TopIsFrame DEF Structure, StackOK, Top
  <2> QED BY <2>1, Zenon DEF ParentReady, Activating
<1>6. SeqNamesOne'
  BY Zenon DEF IInv, SeqNamesOne
<1> QED BY <1>2, <1>3, <1>4, <1>5, <1>6, Zenon

\* The facts about the innermost call of device_unbind.
LEMMA UnbindTop ==
    ASSUME IInv, stack # <<>>, Top.fn = "device_unbind"
    PROVE  /\ Structure /\ DescendsActive /\ StackOK /\ NotFoundActive
           /\ Len(stack) \in Nat /\ Len(stack) >= 1 /\ Top = stack[Len(stack)] /\ Top \in Frames
           /\ Top.dev \in bound /\ Top.dev \in Devices
           /\ \A i \in 1 .. Len(stack) : stack[i].fn = "device_unbind"
<1>1. Structure /\ DescendsActive /\ StackOK /\ NotFoundActive
  BY Zenon DEF IInv, Calls, Structure, NotFoundActive
<1>2. Len(stack) \in Nat /\ Len(stack) >= 1 /\ Top = stack[Len(stack)] /\ Top \in Frames
  BY <1>1, TopIsFrame, Zenon
<1>3. Top.dev \in bound /\ Top.dev \in Devices
  BY <1>2 DEF IInv, TypeOK
<1>4. \A i \in 1 .. Len(stack) : stack[i].fn = "device_unbind"
  BY <1>1, <1>2 DEF Structure, UnbindAlone
<1> QED BY <1>1, <1>2, <1>3, <1>4, Zenon

\* Returning an error from device_unbind, with the device still bound.
LEMMA UnbindFails ==
    ASSUME IInv, stack # <<>>, Top.fn = "device_unbind", returns("error"),
           UNCHANGED <<bound, activated, priv, seq>>, platdata' \subseteq platdata
    PROVE  IInv'
<1> DEFINE n == Len(stack)
<1>1. /\ Structure /\ StackOK /\ n \in Nat /\ n >= 1
      /\ \A i \in 1 .. n : stack[i].fn = "device_unbind"
  BY UnbindTop, Zenon
<1>2. Pops
  BY <1>1, ReturnPops, Zenon DEF returns
<1>3. Len(stack') = n - 1 /\ Kept(n - 1) /\ ret' = "error"
  BY <1>2, Zenon DEF Pops, returns
<1>4. \A i \in 1 .. Len(stack') : i \in 1 .. n - 1 /\ i \in 1 .. n /\ stack'[i] = stack[i]
  BY <1>1, <1>3 DEF Kept
<1> HIDE DEF n
<1>5. Structure'
  BY <1>1, <1>2, PopKeeps, Zenon
<1>6. Calls' /\ Data' /\ ParentReady' /\ SeqNamesOne'
  BY <1>1, <1>4, <1>5, UnbindRest, Zenon
<1>7. TypeOK'
  <2>1. \A i \in 1 .. Len(stack') : stack'[i].dev \in bound
    BY <1>4, Zenon DEF IInv, TypeOK, n
  <2> QED BY <1>3, <2>1, Zenon DEF IInv, TypeOK
<1>8. UnbindCounts'
  <2> SUFFICES ASSUME NEW i \in 1 .. Len(stack'), Unbinding(stack'[i])
               PROVE  /\ stack'[i].dev \notin activated
                      /\ \A c \in Children(stack'[i].dev) :
                            \/ c \in stack'[i].todo \/ stack'[i].saved = "error"
                            \/ IF i = Len(stack') THEN ret' = "error" ELSE c = stack'[i + 1].dev
    BY Zenon DEF UnbindCounts, Children
  <2>1. i \in 1 .. n /\ i # n /\ stack'[i] = stack[i]
    BY <1>1, <1>3, <1>4
  <2>2. i # Len(stack') => stack'[i + 1] = stack[i + 1]
    <3> SUFFICES ASSUME i # Len(stack') PROVE i + 1 \in 1 .. Len(stack')
      BY <1>4, Zenon
    <3> QED BY <1>1, <1>3
  <2> QED BY <1>3, <2>1, <2>2, Zenon DEF IInv, Tree, UnbindCounts, n
<1>9. NoOrphans' /\ TodoOK'
  BY <1>4, Zenon DEF IInv, Tree, NoOrphans, TodoOK, n
<1> QED BY <1>6, <1>7, <1>8, <1>9, Zenon DEF IInv, Tree

\* The list of children to unbind is all of them.
LEMMA UnbindEntryKeeps ==
    ASSUME IInv, unbind_entry
    PROVE  IInv'
<1> DEFINE n == Len(stack)
           f == TopAt("children", Children(Top.dev), "ok")
<1>1. /\ stack # <<>> /\ Top.fn = "device_unbind" /\ Top.dev \notin activated /\ ret' = "ok"
      /\ bound' = bound /\ platdata' = platdata /\ activated' = activated /\ priv' = priv
      /\ seq' = seq /\ stack' = Going("children", Children(Top.dev), "ok")
  BY Zenon DEF unbind_entry, Running, data
<1>2. /\ Structure /\ DescendsActive /\ StackOK /\ NotFoundActive
      /\ n \in Nat /\ n >= 1 /\ Top = stack[n] /\ Top.dev \in bound
      /\ \A i \in 1 .. n : stack[i].fn = "device_unbind"
  BY <1>1, UnbindTop, Zenon
<1>3. Moves(f) /\ f \in Frames
  <2>1. Children(Top.dev) \in SUBSET Devices
    BY Zenon DEF Children, IInv, TypeOK
  <2> QED BY <1>1, <1>2, <2>1, GoingMoves, GoingIs, Zenon DEF AllLabels
<1>4. /\ f.fn = Top.fn /\ f.dev = Top.dev /\ f.at \in Labels[f.fn]
      /\ f.todo = Children(Top.dev)
  BY <1>1 DEF TopAt, Labels
<1> HIDE DEF f
<1>5. Kept(n - 1) /\ Len(stack') = n /\ stack'[n] = f
  BY <1>3, Zenon DEF Moves
<1>6. \A i \in 1 .. n : i # n => i \in 1 .. n - 1 /\ stack'[i] = stack[i]
  BY <1>2, <1>5 DEF Kept
<1>7. \A i \in 1 .. n : stack'[i].fn = stack[i].fn /\ stack'[i].dev = stack[i].dev
  BY <1>2, <1>4, <1>5, <1>6, Zenon
<1> HIDE DEF n
<1>8. Structure'
  BY <1>1, <1>2, <1>3, <1>4, MoveKeeps, Zenon
<1>9. Calls' /\ Data' /\ ParentReady' /\ SeqNamesOne'
  BY <1>1, <1>2, <1>5, <1>7, <1>8, UnbindRest, Zenon
<1>10. TypeOK'
  BY <1>1, <1>5, <1>7, Zenon DEF IInv, TypeOK, n
<1>11. UnbindCounts'
  <2> SUFFICES ASSUME NEW i \in 1 .. n, Unbinding(stack'[i])
               PROVE  /\ stack'[i].dev \notin activated
                      /\ \A c \in Children(stack'[i].dev) :
                            \/ c \in stack'[i].todo \/ stack'[i].saved = "error"
                            \/ IF i = n THEN ret' = "error" ELSE c = stack'[i + 1].dev
    BY <1>1, <1>5, ZenonT(30) DEF UnbindCounts, Children
  <2>1. CASE i = n
    BY <1>1, <1>4, <1>5, <2>1, Zenon
  <2>2. CASE i # n
    <3>1. stack'[i] = stack[i] /\ i + 1 \in 1 .. n
      BY <1>2, <1>6, <2>2
    <3> QED BY <1>7, <2>2, <3>1, Zenon DEF IInv, Tree, UnbindCounts, n
  <2> QED BY <2>1, <2>2, Zenon
<1>12. NoOrphans'
  BY <1>1, Zenon DEF IInv, Tree, NoOrphans
<1>13. TodoOK'
  <2>1. \A i \in 1 .. n : \A c \in stack[i].todo : c \in bound /\ Parent[c] = stack[i].dev
    BY Zenon DEF IInv, Tree, TodoOK, n
  <2>2. \A c \in f.todo : c \in bound /\ Parent[c] = f.dev
    BY <1>4, Zenon DEF Children
  <2> QED BY <1>1, <1>5, <1>6, <2>1, <2>2 DEF TodoOK
<1> QED BY <1>9, <1>10, <1>11, <1>12, <1>13, Zenon DEF IInv, Tree

\* A child is taken off the list when device_unbind is called for it.
LEMMA UnbindChildKeeps ==
    ASSUME IInv, unbind_child
    PROVE  IInv'
<1> DEFINE n == Len(stack)
<1>1. /\ stack # <<>> /\ Top.fn = "device_unbind" /\ Top.at = "children" /\ ret' = ret
      /\ bound' = bound /\ platdata' = platdata /\ activated' = activated /\ priv' = priv
      /\ seq' = seq
  BY Zenon DEF unbind_child, Running, data
<1>2. PICK c \in Top.todo : stack' = Append(Going("children", Top.todo \ {c}, SavedRet),
                                            Frame("device_unbind", c))
  BY Zenon DEF unbind_child
<1> DEFINE f == TopAt("children", Top.todo \ {c}, SavedRet)
           g == Frame("device_unbind", c)
<1>3. /\ Structure /\ DescendsActive /\ StackOK /\ NotFoundActive
      /\ n \in Nat /\ n >= 1 /\ Top = stack[n] /\ Top \in Frames /\ Top.dev \in bound
      /\ \A i \in 1 .. n : stack[i].fn = "device_unbind"
  BY <1>1, UnbindTop, Zenon
<1>4. c \in bound /\ c \in Devices /\ Parent[c] = Top.dev
  <2>1. n \in 1 .. n
    BY <1>3
  <2>2. c \in bound /\ Parent[c] = Top.dev
    BY <1>3, <2>1, Zenon DEF IInv, Tree, TodoOK
  <2> QED BY <2>2, Zenon DEF IInv, TypeOK
<1>5. Top.todo \ {c} \in SUBSET Devices /\ SavedRet \in {"ok", "error"}
  BY <1>3, Zenon DEF Frames, SavedRet
<1>6. Pushes(f, g) /\ f \in Frames
  BY <1>1, <1>2, <1>3, <1>4, <1>5, CallPushes, GoingIs, Zenon DEF AllLabels
<1>a. /\ f.fn = Top.fn /\ f.dev = Top.dev
      /\ f.todo = Top.todo \ {c} /\ f.saved = SavedRet /\ f.at = "children"
  BY Zenon DEF TopAt
<1>8. /\ g \in Frames /\ g.at = "entry" /\ g.fn = "device_unbind" /\ g.dev = c /\ g.todo = {}
  BY <1>4, NewFrame, Zenon
<1> HIDE DEF f, g
<1>7. /\ f.fn = Top.fn /\ f.dev = Top.dev /\ f.at \in Labels[f.fn]
      /\ f.todo = Top.todo \ {c} /\ f.saved = SavedRet /\ f.at = "children"
  BY <1>1, <1>a DEF Labels
<1>9. Linked(f, g)
  BY <1>1, <1>4, <1>7, <1>8, Zenon DEF Linked
<1>10. Kept(n - 1) /\ Len(stack') = n + 1 /\ stack'[n] = f /\ stack'[n + 1] = g
  BY <1>6, Zenon DEF Pushes
<1>11. \A i \in 1 .. n : i # n => i \in 1 .. n - 1 /\ stack'[i] = stack[i]
  BY <1>3, <1>10 DEF Kept
<1>12. \A i \in 1 .. n : stack'[i].fn = stack[i].fn /\ stack'[i].dev = stack[i].dev
  BY <1>3, <1>7, <1>10, <1>11, Zenon
<1>13. \A i \in 1 .. n + 1 : i \in 1 .. n \/ i = n + 1
  BY <1>3
<1> HIDE DEF n
<1>14. Structure'
  BY <1>1, <1>3, <1>6, <1>7, <1>8, <1>9, PushKeeps, Zenon
<1>15. Calls' /\ Data' /\ ParentReady' /\ SeqNamesOne'
  <2>1. \A i \in 1 .. Len(stack') : stack'[i].fn = "device_unbind"
    BY <1>3, <1>8, <1>10, <1>12, <1>13, Zenon
  <2> QED BY <1>1, <1>14, <2>1, UnbindRest, Zenon
<1>16. TypeOK'
  <2>1. \A i \in 1 .. n + 1 : stack'[i].dev \in bound
    BY <1>4, <1>8, <1>10, <1>12, <1>13, Zenon DEF IInv, TypeOK, n
  <2> QED BY <1>1, <1>10, <2>1, Zenon DEF IInv, TypeOK
<1>17. UnbindCounts'
  <2> SUFFICES ASSUME NEW i \in 1 .. n + 1, Unbinding(stack'[i])
               PROVE  /\ stack'[i].dev \notin activated
                      /\ \A e \in Children(stack'[i].dev) :
                            \/ e \in stack'[i].todo \/ stack'[i].saved = "error"
                            \/ IF i = n + 1 THEN ret' = "error" ELSE e = stack'[i + 1].dev
    BY <1>1, <1>10, Zenon DEF UnbindCounts, Children
  <2>1. CASE i = n + 1
    BY <1>8, <1>10, <2>1, Zenon DEF Unbinding
  <2>2. CASE i = n
    <3>1. n \in 1 .. n /\ n # n + 1
      BY <1>3
    <3>2. Unbinding(stack[n])
      BY <1>1, <1>3, Zenon DEF Unbinding
    <3>3. /\ Top.dev \notin activated
          /\ \A e \in Children(Top.dev) : e \in Top.todo \/ Top.saved = "error" \/ ret = "error"
      BY <1>3, <3>1, <3>2, Zenon DEF IInv, Tree, UnbindCounts, n
    <3>4. \A e \in Children(Top.dev) : e \in f.todo \/ f.saved = "error" \/ e = g.dev
      BY <1>7, <1>8, <3>3, Zenon DEF SavedRet
    <3> QED BY <1>7, <1>10, <2>2, <3>1, <3>3, <3>4, Zenon
  <2>3. CASE i \in 1 .. n /\ i # n
    <3>1. stack'[i] = stack[i] /\ i + 1 \in 1 .. n /\ i # n + 1
      BY <1>3, <1>11, <2>3
    <3> QED BY <1>12, <2>3, <3>1, Zenon DEF IInv, Tree, UnbindCounts, n
  <2> QED BY <1>13, <2>1, <2>2, <2>3, Zenon
<1>18. NoOrphans'
  BY <1>1, Zenon DEF IInv, Tree, NoOrphans
<1>19. TodoOK'
  <2>1. \A i \in 1 .. n : \A e \in stack[i].todo : e \in bound /\ Parent[e] = stack[i].dev
    BY Zenon DEF IInv, Tree, TodoOK, n
  <2>2. \A e \in f.todo : e \in bound /\ Parent[e] = f.dev
    <3>1. n \in 1 .. n
      BY <1>3
    <3> QED BY <1>3, <1>7, <2>1, <3>1, Zenon
  <2>3. \A i \in 1 .. n + 1 : \A e \in stack'[i].todo : e \in bound /\ Parent[e] = stack'[i].dev
    BY <1>8, <1>10, <1>11, <1>13, <2>1, <2>2
  <2> QED BY <1>1, <1>10, <2>3, Zenon DEF TodoOK
<1> QED BY <1>15, <1>16, <1>17, <1>18, <1>19, Zenon DEF IInv, Tree

\* A device is destroyed when no child of it is left, and no call is under way
\* for it but the one that destroys it.
LEMMA UnbindDeviceKeeps ==
    ASSUME IInv, unbind_device, bound' = bound \ {Top.dev}, returns("ok")
    PROVE  IInv'
<1> DEFINE n == Len(stack)
           x == Top.dev
<1>1. /\ stack # <<>> /\ Top.fn = "device_unbind" /\ Top.at = "children"
      /\ Top.todo = {} /\ SavedRet = "ok" /\ ret' = "ok"
      /\ platdata' = platdata \ {x} /\ activated' = activated /\ priv' = priv
      /\ seq' = seq
  BY Zenon DEF unbind_device, Running, returns
<1>2. /\ Structure /\ StackOK /\ n \in Nat /\ n >= 1 /\ Top = stack[n]
      /\ x \in bound /\ x \in Devices /\ Top \in Frames
      /\ \A i \in 1 .. n : stack[i].fn = "device_unbind"
  BY <1>1, UnbindTop, Zenon
<1>3. Pops
  BY <1>1, <1>2, ReturnPops, Zenon DEF returns
<1>4. Len(stack') = n - 1 /\ Kept(n - 1)
  BY <1>3, Zenon DEF Pops
<1>5. \A i \in 1 .. Len(stack') : /\ i \in 1 .. n - 1 /\ i \in 1 .. n /\ i < n /\ i # n
                                  /\ stack'[i] = stack[i]
  BY <1>2, <1>4 DEF Kept
<1>6. ret # "error" /\ Top.saved # "error"
  BY <1>1, <1>2, Zenon DEF SavedRet, Frames
<1>7. x \notin activated /\ Children(x) = {}
  <2>1. Unbinding(stack[n]) /\ n \in 1 .. n
    BY <1>1, <1>2 DEF Unbinding
  <2> QED BY <1>1, <1>2, <1>6, <2>1, Zenon DEF IInv, Tree, UnbindCounts
<1> HIDE DEF n
<1>8. Structure'
  BY <1>1, <1>2, <1>3, PopKeeps, Zenon
<1>9. Calls' /\ Data' /\ ParentReady' /\ SeqNamesOne' /\ priv \subseteq activated
  BY <1>1, <1>2, <1>5, <1>8, UnbindRest, Zenon
<1>10. \A i \in 1 .. Len(stack') : stack[i].dev < x /\ stack[i].dev # x
  <2>1. \A i \in 1 .. Len(stack') : stack[i].dev < x
    BY <1>2, <1>5 DEF Structure, UnbindAlone, n
  <2>2. \A i \in 1 .. n : stack[i].dev \in Nat
    BY ParentIs, Zenon DEF IInv, TypeOK, n
  <2>3. x \in Nat
    BY <1>2, ParentIs, Zenon
  <2> QED BY <1>5, <2>1, <2>2, <2>3
<1>11. TypeOK'
  <2>1. \A i \in 1 .. Len(stack') : stack'[i].dev \in bound'
    BY <1>5, <1>10, Zenon DEF IInv, TypeOK, n
  <2> QED BY <1>1, <1>7, <1>9, <2>1, Zenon DEF IInv, TypeOK
<1>12. NoOrphans'
  BY <1>7, Zenon DEF IInv, Tree, NoOrphans, Children
<1>13. UnbindCounts'
  <2> SUFFICES ASSUME NEW i \in 1 .. Len(stack'), Unbinding(stack'[i])
               PROVE  /\ stack'[i].dev \notin activated
                      /\ \A c \in Children(stack'[i].dev) : c # x =>
                            \/ c \in stack'[i].todo \/ stack'[i].saved = "error"
                            \/ IF i = Len(stack') THEN ret' = "error" ELSE c = stack'[i + 1].dev
    BY <1>1, Zenon DEF UnbindCounts, Children
  <2>1. stack'[i] = stack[i] /\ i \in 1 .. n /\ i # n
    BY <1>5, Zenon
  <2>2. /\ stack'[i].dev \notin activated
        /\ \A c \in Children(stack'[i].dev) :
              c \in stack'[i].todo \/ stack'[i].saved = "error" \/ c = stack[i + 1].dev
    BY <2>1, Zenon DEF IInv, Tree, UnbindCounts, n
  <2>3. i = Len(stack') => stack[i + 1].dev = x
    <3>1. i = Len(stack') => i + 1 = n
      BY <1>2, <1>4
    <3> QED BY <1>2, <3>1, Zenon
  <2>4. i # Len(stack') => stack'[i + 1] = stack[i + 1]
    <3> SUFFICES ASSUME i # Len(stack') PROVE i + 1 \in 1 .. Len(stack')
      BY <1>5, Zenon
    <3> QED BY <1>2, <1>4
  <2> QED BY <2>2, <2>3, <2>4, Zenon
<1>14. TodoOK'
  <2> SUFFICES ASSUME NEW i \in 1 .. Len(stack'), NEW c \in stack'[i].todo
               PROVE  c \in bound /\ c # x /\ Parent[c] = stack'[i].dev
    BY Zenon DEF TodoOK
  <2>1. stack'[i] = stack[i] /\ i \in 1 .. n /\ i \in 1 .. n - 1
    BY <1>5, Zenon
  <2>2. c \in bound /\ Parent[c] = stack[i].dev
    BY <2>1, Zenon DEF IInv, Tree, TodoOK, n
  <2>3. c # x
    <3> SUFFICES ASSUME c = x PROVE FALSE
      BY Zenon
    <3>1. n - 1 \in 1 .. n - 1 /\ n - 1 \in 1 .. n /\ (n - 1) + 1 = n
      BY <1>2, <2>1
    <3>2. Linked(stack[n - 1], Top)
      BY <1>2, <3>1, Zenon DEF StackOK, n
    <3>3. Parent[x] = stack[n - 1].dev /\ x \notin stack[n - 1].todo
      BY <1>1, <1>2, <3>1, <3>2, Zenon DEF Linked
    <3>4. i # n - 1
      BY <2>1, <3>3, Zenon
    <3>5. stack[i].dev < stack[n - 1].dev
      <4>1. i < n - 1
        BY <1>2, <2>1, <3>4
      <4> QED BY <1>2, <2>1, <3>1, <4>1, Zenon DEF Structure, UnbindAlone, n
    <3>6. stack[i].dev \in Nat
      BY <2>1, ParentIs, Zenon DEF IInv, TypeOK, n
    <3> QED BY <2>2, <3>3, <3>5, <3>6
  <2> QED BY <2>1, <2>2, <2>3, Zenon
<1> QED BY <1>9, <1>11, <1>12, <1>13, <1>14, Zenon DEF IInv, Tree

------------------------------------------------------------------------------
(* Every step *)

\* device_bind, with no call under way.
LEMMA BindKeeps ==
    ASSUME IInv, NEW d \in Devices, device_bind(d)
    PROVE  IInv'
<1>1. stack = <<>> /\ stack' = stack /\ Len(stack) = 0 /\ Len(stack') = 0
  BY Zenon DEF device_bind
<1>2. /\ activated' = activated /\ priv' = priv /\ seq' = seq /\ ret' \in {"ok", "error"}
      /\ bound \subseteq bound' /\ bound' \subseteq Devices /\ platdata' \subseteq bound'
      /\ \A e \in bound' \ bound : Parent[e] \in bound \cup {NoParent}
  BY Zenon DEF device_bind, IInv, TypeOK
<1>3. \A i \in 1 .. Len(stack') : FALSE
  BY <1>1
<1>4. TypeOK'
  BY <1>2, <1>3, Zenon DEF IInv, TypeOK
<1>5. Calls'
  <2>1. StackOK'
    BY <1>1, Zenon DEF IInv, Calls, Structure, StackOK
  <2>2. UnbindAlone' /\ StaysBelow' /\ EnteredFromParent' /\ DescendsActive'
    BY <1>3, Zenon DEF UnbindAlone, StaysBelow, EnteredFromParent, DescendsActive
  <2> QED BY <2>1, <2>2, Zenon DEF Calls, Structure
<1>6. Data'
  BY <1>1, <1>2, <1>3, Zenon DEF IInv, Data, LostIsTold, DataIsAwaited
<1>7. Tree'
  <2>1. NoOrphans'
    <3>1. \A e \in Devices \ Roots : Parent[e] # NoParent
      BY Zenon DEF Roots
    <3> QED BY <1>2, <3>1, Zenon DEF IInv, Tree, NoOrphans
  <2> QED BY <1>3, <2>1, Zenon DEF Tree, UnbindCounts, TodoOK
<1>8. ParentReady'
  BY <1>1, Zenon DEF ParentReady
<1>9. SeqNamesOne'
  BY <1>2, Zenon DEF IInv, SeqNamesOne
<1> QED BY <1>4, <1>5, <1>6, <1>7, <1>8, <1>9, Zenon DEF IInv

\* A call from outside.
LEMMA CallKeeps ==
    ASSUME IInv, NEW d \in Devices, NEW fn \in {"device_probe", "device_remove", "device_unbind"},
           call(fn, d)
    PROVE  IInv'
<1> DEFINE f == Frame(fn, d)
<1>1. stack = <<>> /\ d \in bound /\ stack' = <<f>>
  BY Zenon DEF call
<1>2. /\ bound' = bound /\ platdata' = platdata /\ activated' = activated /\ priv' = priv
      /\ seq' = seq /\ ret' = ret
  BY Zenon DEF call, data
<1>a. f \in Frames /\ f.at = "entry" /\ f.fn = fn /\ f.dev = d /\ f.todo = {}
  BY NewFrame
<1> HIDE DEF f
<1>3. /\ f \in Frames /\ f.at = "entry" /\ f.fn = fn /\ f.dev = d /\ f.todo = {}
      /\ f.at \in Labels[f.fn]
  BY <1>a DEF Labels
<1>4. ~Activating(f) /\ ~Descends(f) /\ ~Unbinding(f)
  BY <1>3, Zenon DEF Activating, Descends, Unbinding
<1>5. /\ stack' \in Seq(Frames) /\ Len(stack') = 1 /\ stack'[1] = f
  BY <1>1, <1>3
<1>6. \A i \in 1 .. Len(stack') : i = 1 /\ stack'[i] = f
  BY <1>5
<1>7. TypeOK'
  BY <1>1, <1>2, <1>3, <1>6, Zenon DEF IInv, TypeOK
<1>8. Calls'
  <2>1. StackOK'
    <3>1. \A i \in 1 .. Len(stack') - 1 : FALSE
      BY <1>5
    <3> QED BY <1>3, <1>5, <1>6, <3>1, Zenon DEF StackOK
  <2>2. UnbindAlone' /\ StaysBelow' /\ EnteredFromParent' /\ DescendsActive'
    BY <1>4, <1>6 DEF UnbindAlone, StaysBelow, EnteredFromParent, DescendsActive
  <2> QED BY <2>1, <2>2, Zenon DEF Calls, Structure
<1>9. Data'
  <2>1. priv \ activated = {}
    <3>1. \A i \in 1 .. Len(stack) : FALSE
      BY <1>1
    <3> QED BY <3>1, Zenon DEF IInv, Data, DataIsAwaited
  <2> QED BY <1>2, <1>4, <1>6, <2>1, Zenon DEF IInv, Data, LostIsTold, DataIsAwaited
<1>10. Tree'
  <2>1. NoOrphans'
    BY <1>2, Zenon DEF IInv, Tree, NoOrphans
  <2>2. UnbindCounts'
    BY <1>4, <1>6, Zenon DEF UnbindCounts
  <2>3. TodoOK'
    BY <1>3, <1>6, Zenon DEF TodoOK
  <2> QED BY <2>1, <2>2, <2>3, Zenon DEF Tree
<1>11. ParentReady'
  BY <1>4, <1>5, Zenon DEF ParentReady, Top
<1>12. SeqNamesOne'
  BY <1>2, Zenon DEF IInv, SeqNamesOne
<1> QED BY <1>7, <1>8, <1>9, <1>10, <1>11, <1>12, Zenon DEF IInv

\* Every step of device_probe.
LEMMA ProbeKeeps ==
    ASSUME IInv, ErrorsReach, NumbersLeft, Probe
    PROVE  IInv'
<1> USE DEF Running
<1>1. CASE probe_entry_active
  <2> USE <1>1 DEF probe_entry_active
  <2>1. ~HandsOn(Top) /\ ~Activating(Top)
    BY Zenon DEF HandsOn, Activating
  <2> QED BY <2>1, PlainReturn, Zenon
<1>2. CASE probe_entry_nomem
  <2>1. NotFoundActive /\ GivesUp /\ returns("error")
    BY <1>2, Zenon DEF probe_entry_nomem, fail, NotFoundActive, GivesUp
  <2> QED BY <1>2, <2>1, GiveUpKeeps, Zenon DEF probe_entry_nomem
<1>3. CASE probe_entry
  BY <1>3, ProbeEntryKeeps, Zenon
<1>4. CASE probe_parent_failed
  <2>1. NotFoundActive /\ GivesUp /\ returns("error")
    BY <1>4, Zenon DEF probe_parent_failed, fail, NotFoundActive, GivesUp
  <2> QED BY <1>4, <2>1, GiveUpKeeps, Zenon DEF probe_parent_failed
<1>5. CASE probe_done_meanwhile
  BY <1>5, PlainReturn, Zenon DEF probe_done_meanwhile
<1>6. CASE probe_activate
  BY <1>6, ProbeActivateKeeps, Zenon
<1>7. CASE probe_callback_failed
  <2>1. NotFoundActive /\ GivesUp /\ returns("error")
    BY <1>7, Zenon DEF probe_callback_failed, fail, NotFoundActive, GivesUp
  <2> QED BY <1>7, <2>1, GiveUpKeeps, Zenon DEF probe_callback_failed
<1>8. CASE post_probe_child
  <2>1. /\ stack # <<>> /\ Top.fn \in {"device_probe", "device_remove"}
        /\ Top.at = "post_probe" /\ UNCHANGED data
    BY <1>8, Zenon DEF post_probe_child, PostProbing
  <2>2. PICK c \in Children(Top.dev) : calls("device_probe", c, "post_probe_child", {})
    BY <1>8, Zenon DEF post_probe_child
  <2> DEFINE f == TopAt("post_probe_child", {}, Top.saved)
             g == Frame("device_probe", c)
  <2>3. c \in bound /\ Parent[c] = Top.dev
    BY Zenon DEF Children
  <2>4. /\ NotFoundActive /\ ~HandsOn(Top) /\ Descends(Top)
        /\ ~(Top.fn = "device_probe" /\ Top.at = "undo")
    BY <2>1, Zenon DEF NotFoundActive, HandsOn, Descends
  <2>5. Linked(f, g)
    BY <2>1, <2>3, Zenon DEF Linked, TopAt, Frame
  <2>6. "post_probe_child" \in AllLabels /\ "post_probe_child" \in Labels[Top.fn]
    BY <2>1 DEF AllLabels, Labels
  <2>7. Top.dev \in activated
    BY <2>1, <2>4, TopFacts, Zenon
  <2>8. c \in Devices /\ Top \in Frames
    BY <2>1, <2>3, TopFacts, Zenon DEF IInv, TypeOK
  <2>9. f \in Frames /\ g \in Frames
    <3>1. Top.saved \in {"ok", "error"}
      BY <2>8, Zenon DEF Frames
    <3> QED BY <2>6, <2>8, <3>1, TopAtIs, NewFrame, Zenon
  <2>10. Pushes(f, g) => \A i \in 1 .. Len(stack) - 1 : Told(i) => Told(i)'
    <3> HIDE DEF f, g
    <3> QED BY <2>1, <2>4, <2>9, CallTells, Zenon
  <2> QED BY <2>1, <2>2, <2>3, <2>4, <2>5, <2>6, <2>7, <2>10, CallsDown, Zenon
<1>9. CASE post_probe_child_ok
  <2>1. /\ stack # <<>> /\ Top.fn \in {"device_probe", "device_remove"}
        /\ Top.at = "post_probe_child" /\ UNCHANGED data /\ ret = "ok" /\ ret' = ret
        /\ stack' = Going("post_probe", Top.todo, Top.saved)
    BY <1>9, Zenon DEF post_probe_child_ok, PostProbedChild, goes
  <2>2. /\ NotFoundActive /\ Descends(Top)
        /\ ~(Top.fn = "device_probe" /\ Top.at = "undo")
    BY <2>1, Zenon DEF NotFoundActive, Descends
  <2>3. /\ Top.dev \in activated
        /\ \A c \in Top.todo : c \in bound /\ Parent[c] = Top.dev
    BY <2>1, <2>2, TopFacts, Zenon
  <2>4. Top.todo \in SUBSET Devices /\ Top.saved \in {"ok", "error"}
    BY <2>1, TopFacts, Zenon DEF Frames
  <2> QED BY <2>1, <2>2, <2>3, <2>4, GoesDown, Zenon
<1>10. CASE post_probe_ok
  <2>1. /\ stack # <<>> /\ Top.fn \in {"device_probe", "device_remove"}
        /\ Top.at = "post_probe" /\ UNCHANGED data /\ returns("ok")
    BY <1>10, Zenon DEF post_probe_ok, PostProbing
  <2>2. ~HandsOn(Top) /\ ~Activating(Top) /\ Descends(Top)
    BY <2>1, Zenon DEF HandsOn, Activating, Descends
  <2>3. Top.dev \in activated
    BY <2>1, <2>2, TopFacts, Zenon
  <2> QED BY <2>1, <2>2, <2>3, PlainReturn, Zenon
<1>11. CASE post_probe_failed
  <2>1. /\ stack # <<>> /\ Top.fn \in {"device_probe", "device_remove"}
        /\ Top.at \in {"post_probe", "post_probe_child"} /\ UNCHANGED data
    BY <1>11, Zenon DEF post_probe_failed, PostProbing, PostProbedChild
  <2>2. CASE Top.fn = "device_remove"
    <3>1. returns("error") /\ ~HandsOn(Top) /\ ~Activating(Top)
      BY <1>11, <2>2, Zenon DEF post_probe_failed, HandsOn, Activating
    <3> QED BY <2>1, <2>2, <3>1, PlainReturn, Zenon
  <2>3. CASE Top.fn = "device_probe"
    <3> DEFINE f == TopAt("undo", {}, Top.saved)
               g == Frame("device_remove", Top.dev)
    <3>1. calls("device_remove", Top.dev, "undo", {})
      BY <1>11, <2>3, Zenon DEF post_probe_failed
    <3>2. Top \in Frames /\ Top.dev \in bound /\ Top.dev \in Devices
      BY <2>1, TopFacts, Zenon
    <3>3. Linked(f, g) /\ ~Descends(f)
      BY <2>3, Zenon DEF Linked, TopAt, Frame, Descends
    <3>4. "undo" \in AllLabels /\ "undo" \in Labels[Top.fn] /\ NotFoundActive
      BY <2>1, <2>3 DEF AllLabels, Labels, NotFoundActive
    <3>5. f \in Frames /\ g \in Frames /\ f.fn = "device_probe" /\ f.at = "undo"
      <4>1. Top.saved \in {"ok", "error"}
        BY <3>2, Zenon DEF Frames
      <4> QED BY <2>3, <3>2, <3>4, <4>1, TopAtIs, NewFrame
    <3>6. Pushes(f, g) => \A i \in 1 .. Len(stack) - 1 : Told(i) => Told(i)'
      <4> HIDE DEF f, g
      <4> QED BY <2>1, <3>5, UndoTells, Zenon
    <3> QED BY <2>1, <3>1, <3>2, <3>3, <3>4, <3>6, CallsDown
  <2> QED BY <2>1, <2>2, <2>3, Zenon
<1>12. CASE probe_undone
  <2>1. NotFoundActive /\ GivesUp /\ returns("error")
    BY <1>12, Zenon DEF probe_undone, fail, NotFoundActive, GivesUp
  <2> QED BY <1>12, <2>1, GiveUpKeeps, Zenon DEF probe_undone
<1> QED BY <1>1, <1>2, <1>3, <1>4, <1>5, <1>6, <1>7, <1>8, <1>9, <1>10, <1>11, <1>12, Zenon
        DEF Probe

\* Every step of device_remove.
LEMMA RemoveKeeps ==
    ASSUME IInv, ErrorsReach, Remove
    PROVE  IInv'
<1> USE DEF Running
<1>0. stack # <<>> /\ Top.fn = "device_remove" /\ Top.at \in {"entry", "children"}
  BY Zenon DEF Remove, remove_entry, remove_child, remove_child_failed, remove_device, remove_failed
<1>a. /\ NotFoundActive /\ ~HandsOn(Top) /\ ~Activating(Top)
      /\ ~(Top.fn = "device_probe" /\ Top.at = "undo")
  BY <1>0, Zenon DEF NotFoundActive, HandsOn, Activating
<1>b. /\ Top \in Frames /\ Top.todo \in SUBSET Devices /\ Top.saved \in {"ok", "error"}
      /\ \A c \in Top.todo : c \in bound /\ Parent[c] = Top.dev
      /\ Children(Top.dev) \in SUBSET Devices /\ ret \in {"ok", "error"}
  BY <1>0, TopFacts, Zenon DEF Frames
<1>c. Top.at = "children" => Top.dev \in activated
  BY <1>0, TopFacts, Zenon DEF Descends
<1>1. CASE remove_entry
  <2>1. UNCHANGED data
    BY <1>1, Zenon DEF remove_entry
  <2>2. CASE returns("ok")
    BY <1>0, <1>a, <2>1, <2>2, PlainReturn, Zenon
  <2>3. CASE returns("error")
    BY <1>0, <1>a, <2>1, <2>3, PlainReturn, Zenon
  <2>4. CASE /\ Top.dev \in activated
             /\ stack' = Going("children", Children(Top.dev), "ok")
             /\ ret' = "ok"
    <3>1. \A c \in Children(Top.dev) : c \in bound /\ Parent[c] = Top.dev
      BY Zenon DEF Children
    <3> QED BY <1>0, <1>a, <1>b, <2>1, <2>4, <3>1, GoesDown, Zenon
  <2> QED BY <1>1, <2>2, <2>3, <2>4, Zenon DEF remove_entry
<1>2. CASE remove_child
  <2>1. UNCHANGED data /\ Top.at = "children"
    BY <1>2, Zenon DEF remove_child
  <2>2. PICK c \in Top.todo : calls("device_remove", c, "children", Top.todo \ {c})
    BY <1>2, Zenon DEF remove_child
  <2> DEFINE t == Top.todo \ {c}
             f == TopAt("children", t, Top.saved)
             g == Frame("device_remove", c)
  <2>3. c \in bound /\ c \in Devices /\ Parent[c] = Top.dev /\ t \in SUBSET Top.todo /\ c \notin t
    BY <1>b, Zenon
  <2>4. "children" \in AllLabels /\ "children" \in Labels[Top.fn]
    BY <1>0 DEF AllLabels, Labels
  <2>5. Linked(f, g)
    BY <1>0, <2>3, Zenon DEF Linked, TopAt, Frame
  <2>6. f \in Frames /\ g \in Frames
    BY <1>b, <2>3, <2>4, TopAtIs, NewFrame, Zenon
  <2>7. Pushes(f, g) => \A i \in 1 .. Len(stack) - 1 : Told(i) => Told(i)'
    <3> HIDE DEF f, g
    <3> QED BY <1>0, <1>a, <2>6, CallTells, Zenon
  <2> HIDE DEF t
  <2>8. calls("device_remove", c, "children", t)
    BY <2>2, Zenon DEF t
  <2> QED BY <1>0, <1>a, <1>c, <2>1, <2>3, <2>4, <2>5, <2>7, <2>8, CallsDown, Zenon
<1>3. CASE remove_child_failed
  <2>1. /\ UNCHANGED data /\ ret' = ret /\ Top.at = "children"
        /\ stack' = Going("post_probe", Top.todo, Top.saved)
    BY <1>3, Zenon DEF remove_child_failed, goes
  <2> QED BY <1>0, <1>a, <1>b, <1>c, <2>1, GoesDown, Zenon
<1>4. CASE remove_device
  <2>1. GivesUp
    BY <1>4, Zenon DEF remove_device, GivesUp
  <2>2. returns("ok") \/ returns("error")
    BY <1>4, Zenon DEF remove_device
  <2> QED BY <1>0, <1>a, <2>1, <2>2, GiveUpKeeps, Zenon
<1>5. CASE remove_failed
  <2>1. /\ UNCHANGED data /\ ret' = ret /\ Top.at = "children"
        /\ stack' = Going("post_probe", Top.todo, Top.saved)
    BY <1>5, Zenon DEF remove_failed, goes
  <2> QED BY <1>0, <1>a, <1>b, <1>c, <2>1, GoesDown, Zenon
<1> QED BY <1>1, <1>2, <1>3, <1>4, <1>5, Zenon DEF Remove

\* Every step of device_unbind.
LEMMA UnbindKeeps ==
    ASSUME IInv, Unbind
    PROVE  IInv'
<1>0. stack # <<>> /\ Top.fn = "device_unbind"
  BY Zenon DEF Unbind, unbind_refused, unbind_entry, unbind_child, unbind_children_failed,
         unbind_device, Running
<1>1. CASE unbind_refused
  BY <1>0, <1>1, UnbindFails, Zenon DEF unbind_refused, data
<1>2. CASE unbind_entry
  BY <1>2, UnbindEntryKeeps, Zenon
<1>3. CASE unbind_child
  BY <1>3, UnbindChildKeeps, Zenon
<1>4. CASE unbind_children_failed
  BY <1>0, <1>4, UnbindFails, Zenon DEF unbind_children_failed, data
<1>5. CASE unbind_device
  <2>1. CASE bound' = bound \ {Top.dev} /\ returns("ok")
    BY <1>5, <2>1, UnbindDeviceKeeps, Zenon
  <2>2. CASE UNCHANGED bound /\ returns("error")
    BY <1>0, <1>5, <2>2, UnbindFails, Zenon DEF unbind_device
  <2> QED BY <1>5, <2>1, <2>2, Zenon DEF unbind_device
<1> QED BY <1>1, <1>2, <1>3, <1>4, <1>5, Zenon DEF Unbind

\* A step that changes nothing.
LEMMA StutterKeeps ==
    ASSUME IInv, UNCHANGED vars
    PROVE  IInv'
<1>1. /\ bound' = bound /\ platdata' = platdata /\ activated' = activated /\ priv' = priv
      /\ seq' = seq /\ stack' = stack /\ ret' = ret
  BY Zenon DEF vars, data
<1>2. TypeOK' /\ SeqNamesOne' /\ ParentReady'
  <2>1. TypeOK'
    BY <1>1, Zenon DEF IInv, TypeOK
  <2>2. SeqNamesOne'
    BY <1>1, Zenon DEF IInv, SeqNamesOne
  <2>3. ParentReady'
    BY <1>1, Zenon DEF IInv, ParentReady, Top
  <2> QED BY <2>1, <2>2, <2>3, Zenon
<1>3. Calls'
  <2>1. StackOK'
    BY <1>1, Zenon DEF IInv, Calls, Structure, StackOK
  <2>2. UnbindAlone'
    BY <1>1, Zenon DEF IInv, Calls, Structure, UnbindAlone
  <2>3. StaysBelow'
    BY <1>1, Zenon DEF IInv, Calls, Structure, StaysBelow
  <2>4. EnteredFromParent'
    BY <1>1 DEF IInv, Calls, Structure, EnteredFromParent
  <2>5. DescendsActive'
    BY <1>1, Zenon DEF IInv, Calls, DescendsActive
  <2> QED BY <2>1, <2>2, <2>3, <2>4, <2>5, Zenon DEF Calls, Structure
<1>4. Data'
  <2>1. LostIsTold'
    BY <1>1, Zenon DEF IInv, Data, LostIsTold, Told
  <2>2. DataIsAwaited' /\ activated' \subseteq priv'
    BY <1>1, Zenon DEF IInv, Data, DataIsAwaited
  <2> QED BY <2>1, <2>2, Zenon DEF Data
<1>5. Tree'
  <2>1. NoOrphans' /\ TodoOK'
    BY <1>1, Zenon DEF IInv, Tree, NoOrphans, TodoOK
  <2>2. UnbindCounts'
    BY <1>1, Zenon DEF IInv, Tree, UnbindCounts, Children
  <2> QED BY <2>1, <2>2, Zenon DEF Tree
<1> QED BY <1>2, <1>3, <1>4, <1>5, Zenon DEF IInv

------------------------------------------------------------------------------
(* Re-entered calls *)

\* A device_probe past its entry.
ProbeAt(i, d) ==
    /\ i \in 1 .. Len(stack)
    /\ stack[i].fn = "device_probe" /\ stack[i].dev = d /\ stack[i].at # "entry"

\* Of two device_probe calls for a device that have not found it active, the
\* outer one waits for the parent.
LEMMA OuterWaits ==
    ASSUME Structure, NEW d \in Devices, NEW i, NEW j, ProbeAt(i, d), ProbeAt(j, d), i < j
    PROVE  Activating(stack[i])
<1> DEFINE n == Len(stack)
<1>1. /\ StackOK /\ n \in Nat /\ i \in 1 .. n /\ j \in 1 .. n
      /\ i \in Nat /\ j \in Nat /\ i + 1 \in 1 .. n /\ i \in 1 .. n - 1
  BY DEF Structure, StackOK, ProbeAt
<1>2. d \notin Below(d)
  BY BelowGreater, ParentIs
<1>3. ASSUME NEW m \in 1 .. n, m < j, Descends(stack[m]), stack[m].dev = d PROVE FALSE
  BY <1>1, <1>2, <1>3, Zenon DEF Structure, StaysBelow, ProbeAt
<1>4. ~Descends(stack[i])
  BY <1>1, <1>3, Zenon DEF ProbeAt
<1>5. Linked(stack[i], stack[i + 1])
  BY <1>1, Zenon DEF StackOK
<1>6. stack[i].at # "undo"
  <2> SUFFICES ASSUME stack[i].at = "undo" PROVE FALSE
    BY Zenon
  <2>1. stack[i + 1].fn = "device_remove" /\ stack[i + 1].dev = d
    BY <1>5, Zenon DEF Linked, ProbeAt
  <2>2. i + 1 # j
    BY <2>1, Zenon DEF ProbeAt
  <2>3. i + 1 < j /\ i + 1 \in 1 .. n - 1
    BY <1>1, <2>2
  <2>4. Linked(stack[i + 1], stack[(i + 1) + 1])
    BY <1>1, <2>3, Zenon DEF StackOK
  <2>5. Descends(stack[i + 1])
    BY <2>1, <2>4, Zenon DEF Linked, Descends
  <2> QED BY <1>1, <1>3, <2>1, <2>3, <2>5, Zenon
<1> QED BY <1>4, <1>5, <1>6, Zenon DEF Linked, Descends, Activating, ProbeAt

\* There are no three of them.
LEMMA NoThird ==
    ASSUME Structure, NEW d \in Devices, NEW i, NEW j, NEW l,
           ProbeAt(i, d), ProbeAt(j, d), ProbeAt(l, d), i < j, j < l
    PROVE  FALSE
<1> DEFINE n == Len(stack)
<1>1. /\ StackOK /\ n \in Nat /\ i \in 1 .. n /\ j \in 1 .. n /\ l \in 1 .. n
      /\ j + 1 \in 1 .. n /\ j \in 1 .. n - 1 /\ j \in Nat /\ l \in Nat
  BY DEF Structure, StackOK, ProbeAt
<1>2. Activating(stack[i]) /\ Activating(stack[j])
  BY OuterWaits, Zenon
<1>3. stack[j].dev = d /\ stack[i].dev = d /\ stack[l].at # "entry"
  BY Zenon DEF ProbeAt
<1>4. stack[j + 1].dev = Parent[d] /\ d \notin Roots
  <2>1. Linked(stack[j], stack[j + 1])
    BY <1>1, Zenon DEF StackOK
  <2> QED BY <1>2, <1>3, <2>1, Zenon DEF Linked, Activating
<1>5. Parent[d] \in Devices /\ Parent[d] \notin Below(Parent[d])
  <2>1. Parent[d] \in Devices
    BY <1>4, ParentIs, Zenon
  <2>2. Parent[d] \in Nat
    BY <2>1, ParentIs, Zenon
  <2>3. ~(Parent[d] < Parent[d])
    BY ONLY <2>2
  <2> QED BY <2>1, <2>3, BelowGreater, Zenon
<1>6. PICK k \in 1 .. n : i < k /\ k < j /\ Descends(stack[k]) /\ stack[k].dev = Parent[d]
  <2>1. stack[j].dev \in Below(stack[i].dev) \cup {stack[i].dev}
    BY <1>3, Zenon
  <2>2. i \in 1 .. Len(stack) /\ j \in 1 .. Len(stack)
    BY <1>1, Zenon
  <2>3. EnteredFromParent
    BY Zenon DEF Structure
  <2>4. \E k \in 1 .. Len(stack) :
           /\ i < k /\ k < j /\ Descends(stack[k]) /\ stack[k].dev = Parent[stack[i].dev]
    BY ONLY <1>2, <2>1, <2>2, <2>3, i < j, Zenon DEF EnteredFromParent
  <2> QED BY <1>3, <2>4, Zenon
<1>7. k < j + 1
  BY <1>1, <1>6
<1>8. j + 1 = n /\ stack[j + 1].at = "entry"
  BY <1>1, <1>4, <1>5, <1>6, <1>7, Zenon DEF Structure, StaysBelow
<1>9. l = j + 1
  BY <1>1, <1>8
<1> QED BY <1>3, <1>8, <1>9, Zenon
------------------------------------------------------------------------------
(* Least numbers *)

INSTANCE WellFoundedInduction
INSTANCE FiniteSetTheorems

\* A set of numbers that is not empty has a least one.
LEMMA LeastOfNat ==
    ASSUME NEW S, S \subseteq Nat, S # {} PROVE \E k \in S : \A j \in S : k <= j
<1>1. PICK k \in S : \A j \in S : ~(<<j, k>> \in OpToRel(<, Nat))
  BY NatLessThanWellFounded, WFMin, Zenon
<1>2. \A j \in S : ~(j < k)
  BY <1>1, Zenon DEF OpToRel
<1> QED BY <1>2

\* Above a device_probe that waits for its parent come calls that hand on an
\* error, up to the innermost call or to one that undoes a probe.
LEMMA ErrorReaches ==
    ASSUME StackOK
    PROVE  ErrorsReach
<1> SUFFICES ASSUME NEW i \in 1 .. Len(stack), Activating(stack[i])
             PROVE  \E m \in i + 1 .. Len(stack) + 1 :
                       /\ \A l \in i .. m - 1 : HandsOn(stack[l])
                       /\ m <= Len(stack) => /\ stack[m].fn = "device_probe"
                                             /\ m # Len(stack) => stack[m].at = "undo"
  BY Zenon DEF ErrorsReach
<1> DEFINE n == Len(stack)
           S == {m \in i + 1 .. n + 1 : m = n + 1 \/ ~HandsOn(stack[m])}
<1>1. n \in Nat /\ n >= 1 /\ i \in Nat /\ 1 <= i /\ i <= n
  BY TopIsFrame
<1>2. S \subseteq Nat /\ n + 1 \in S
  BY <1>1
<1>3. PICK m \in S : \A j \in S : m <= j
  <2> HIDE DEF S
  <2> QED BY <1>2, LeastOfNat, Zenon
<1>4. m \in i + 1 .. n + 1 /\ (m = n + 1 \/ ~HandsOn(stack[m]))
  BY <1>3, Zenon
<1>5. HandsOn(stack[i])
  BY Zenon DEF Activating, HandsOn
<1>6. ASSUME NEW l \in i .. m - 1 PROVE HandsOn(stack[l])
  <2>1. CASE l = i
    BY <1>5, <2>1, Zenon
  <2>2. CASE l # i
    <3>1. l \in i + 1 .. n + 1 /\ l # n + 1 /\ ~(m <= l)
      BY <1>1, <1>4, <2>2
    <3>2. l \notin S
      BY <1>3, <3>1, Zenon
    <3> QED BY <3>1, <3>2, Zenon
  <2> QED BY <2>1, <2>2, Zenon
<1>7. ASSUME m <= n
      PROVE  stack[m].fn = "device_probe" /\ (m # n => stack[m].at = "undo")
  <2>1. m - 1 \in i .. m - 1 /\ m - 1 \in 1 .. n - 1 /\ (m - 1) + 1 = m /\ m \in 1 .. n
    BY <1>1, <1>4, <1>7
  <2>2. HandsOn(stack[m - 1]) /\ Linked(stack[m - 1], stack[m])
    BY <1>6, <2>1, Zenon DEF StackOK
  <2>3. stack[m].fn = "device_probe"
    BY <2>2, Zenon DEF Linked, HandsOn
  <2>4. ~HandsOn(stack[m])
    BY <1>1, <1>4, <1>7
  <2>5. ASSUME m # n PROVE stack[m].at = "undo"
    <3>1. m \in 1 .. n - 1
      BY <1>1, <2>1, <2>5
    <3>2. Linked(stack[m], stack[m + 1])
      BY <3>1, Zenon DEF StackOK
    <3> QED BY <2>3, <2>4, <3>2, Zenon DEF Linked, HandsOn
  <2> QED BY <2>3, <2>5, Zenon
<1> HIDE DEF S
<1> QED BY <1>4, <1>6, <1>7, Zenon

\* A device that is not active leaves a sequence number over: there are as many
\* numbers as devices, and it has none.
LEMMA NumberLeft ==
    ASSUME TypeOK, SeqNamesOne, NEW d \in Devices, d \notin activated
    PROVE  \E s \in 0 .. DM_MAX_SEQ - 1 : \A e \in Devices : seq[e] # s
<1> SUFFICES ASSUME \A s \in 0 .. DM_MAX_SEQ - 1 : \E e \in Devices : seq[e] = s
             PROVE  FALSE
  BY Zenon
<1> DEFINE N == 0 .. DM_MAX_SEQ - 1
           B == {e \in Devices \ {d} : seq[e] \in N}
           f == [e \in B |-> seq[e]]
<1>1. seq[d] = -1
  BY Zenon DEF SeqNamesOne
<1>2. f \in Surjection(B, N)
  <2>1. f \in [B -> N]
    BY Zenon
  <2>2. ASSUME NEW s \in N PROVE \E e \in B : f[e] = s
    <3>1. PICK e \in Devices : seq[e] = s
      BY Zenon
    <3>2. s # -1
      OBVIOUS
    <3>3. e \in B
      BY <1>1, <3>1, <3>2, Zenon
    <3> QED BY <3>1, <3>3, Zenon
  <2> HIDE DEF f
  <2> QED BY <2>1, <2>2, Zenon DEF Surjection
<1>3. /\ IsFiniteSet(Devices \ {d}) /\ Cardinality(Devices) \in Nat
      /\ Cardinality(Devices \ {d}) = Cardinality(Devices) - 1
  BY DriverModelAssumption, FS_RemoveElement, FS_CardinalityType, Zenon
<1>4. IsFiniteSet(B) /\ Cardinality(B) <= Cardinality(Devices) - 1
  <2>1. B \in SUBSET (Devices \ {d})
    BY Zenon
  <2> HIDE DEF B
  <2>2. IsFiniteSet(B) /\ Cardinality(B) <= Cardinality(Devices \ {d})
    BY <1>3, <2>1, FS_Subset, Zenon
  <2> QED BY <1>3, <2>2, Zenon
<1>5. Cardinality(N) <= Cardinality(B)
  <2> HIDE DEF N, B, f
  <2> QED BY <1>2, <1>4, FS_Surjection, Zenon
<1>6. Cardinality(N) = DM_MAX_SEQ
  <2>1. 0 \in Int /\ DM_MAX_SEQ - 1 \in Int /\ DM_MAX_SEQ \in Nat
    BY DriverModelAssumption
  <2>2. Cardinality(N) = IF 0 > DM_MAX_SEQ - 1 THEN 0 ELSE (DM_MAX_SEQ - 1) - 0 + 1
    BY <2>1, FS_Interval, Zenon
  <2> QED BY <2>1, <2>2
<1>7. Cardinality(B) \in Nat
  <2> HIDE DEF B
  <2> QED BY <1>4, FS_CardinalityType, Zenon
<1> HIDE DEF N, B
<1> QED BY <1>3, <1>4, <1>5, <1>6, <1>7, DriverModelAssumption

\* uclass_resolve_seq finds a number that no other device of the uclass has.
LEMMA ResolveSeq ==
    ASSUME TypeOK, SeqNamesOne, NEW d \in bound, d \notin activated
    PROVE  /\ uclass_resolve_seq(d) \in 0 .. DM_MAX_SEQ - 1
           /\ uclass_resolve_seq(d) \notin SeqsInUse(d)
<1>1. d \in Devices /\ DM_MAX_SEQ \in Nat
  BY DriverModelAssumption, Zenon DEF TypeOK
<1>2. PICK s0 \in 0 .. DM_MAX_SEQ - 1 : \A e \in Devices : seq[e] # s0
  BY <1>1, NumberLeft, Zenon
<1>3. s0 \notin SeqsInUse(d)
  BY <1>2, Zenon DEF SeqsInUse, TypeOK
<1>4. CASE ReqSeq[d] # -1 /\ ReqSeq[d] \notin SeqsInUse(d)
  <2>1. ReqSeq[d] \in 0 .. DM_MAX_SEQ - 1
    BY <1>1, <1>4, DriverModelAssumption, Zenon
  <2> QED BY <1>4, <2>1, Zenon DEF uclass_resolve_seq
<1>5. CASE ~(ReqSeq[d] # -1 /\ ReqSeq[d] \notin SeqsInUse(d))
  <2> DEFINE M == {s \in 0 .. DM_MAX_SEQ : s \notin SeqsInUse(d)}
             P(s) == /\ s \notin SeqsInUse(d) \/ s = DM_MAX_SEQ
                     /\ \A t \in 0 .. s - 1 : t \in SeqsInUse(d)
  <2>1. PICK k \in M : \A j \in M : k <= j
    <3>1. M \subseteq Nat /\ s0 \in M
      BY <1>1, <1>3
    <3> HIDE DEF M
    <3> QED BY <3>1, LeastOfNat, Zenon
  <2>2. k \in 0 .. DM_MAX_SEQ /\ P(k)
    <3>1. k \in 0 .. DM_MAX_SEQ /\ k \notin SeqsInUse(d)
      BY <2>1, Zenon
    <3>2. ASSUME NEW t \in 0 .. k - 1 PROVE t \in SeqsInUse(d)
      <4>1. t \in 0 .. DM_MAX_SEQ /\ ~(k <= t)
        BY <1>1, <3>1
      <4> QED BY <2>1, <4>1, Zenon
    <3> QED BY <3>1, <3>2, Zenon
  <2> DEFINE c == CHOOSE s \in 0 .. DM_MAX_SEQ : P(s)
  <2>3. c \in 0 .. DM_MAX_SEQ /\ P(c)
    <3> HIDE DEF P
    <3> QED BY <2>2, Zenon
  <2>4. uclass_resolve_seq(d) = c
    BY <1>5, Zenon DEF uclass_resolve_seq
  <2> HIDE DEF c
  <2>5. c # DM_MAX_SEQ
    BY <1>1, <1>2, <1>3, <2>3, Zenon
  <2> QED BY <1>1, <2>3, <2>4, <2>5
<1> QED BY <1>4, <1>5, Zenon

------------------------------------------------------------------------------
(* The invariant *)

\* The invariant holds once dm_init has bound and probed the root.
LEMMA InitIInv == Init => IInv
<1> SUFFICES ASSUME Init PROVE IInv
  BY Zenon
<1>1. /\ bound = Roots /\ platdata = Roots /\ activated = Roots /\ priv = Roots
      /\ seq = [d \in Devices |-> IF d \in Roots THEN 0 ELSE -1]
      /\ stack = <<>> /\ ret = "ok" /\ Len(stack) = 0
  BY Zenon DEF Init
<1>2. \A i \in 1 .. Len(stack) : FALSE
  BY <1>1
<1>3. /\ Roots \subseteq Devices /\ IsFiniteSet(Devices) /\ DM_MAX_SEQ \in Nat
      /\ DM_MAX_SEQ >= Cardinality(Devices) /\ Cardinality(Roots) = 1
  BY DriverModelAssumption, Zenon DEF Roots
<1>4. /\ IsFiniteSet(Roots) /\ Cardinality(Roots) <= Cardinality(Devices)
      /\ Cardinality(Devices) \in Nat
  BY <1>3, FS_Subset, FS_CardinalityType, Zenon
<1>5. PICK x : Roots = {x}
  BY <1>3, <1>4, FS_Singleton, Zenon
<1>6. DM_MAX_SEQ >= 1
  BY <1>3, <1>4
<1>7. TypeOK
  <2>1. 0 \in -1 .. DM_MAX_SEQ - 1 /\ -1 \in -1 .. DM_MAX_SEQ - 1
    BY <1>3, <1>6
  <2>2. seq \in [Devices -> -1 .. DM_MAX_SEQ - 1]
    BY <1>1, <2>1, Zenon
  <2> QED BY <1>1, <1>2, <1>3, <2>2, Zenon DEF TypeOK
<1>8. Calls
  <2>1. stack \in Seq(Frames)
    BY <1>1
  <2>2. \A i \in 1 .. Len(stack) - 1 : FALSE
    BY <1>1
  <2> QED BY <1>2, <2>1, <2>2, Zenon DEF Calls, Structure, StackOK, UnbindAlone, StaysBelow,
                                  EnteredFromParent, DescendsActive
<1>9. Data
  BY <1>1, <1>2, Zenon DEF Data, LostIsTold, DataIsAwaited
<1>10. Tree
  BY <1>1, <1>2, Zenon DEF Tree, NoOrphans, UnbindCounts, TodoOK
<1>11. ParentReady
  BY <1>1, Zenon DEF ParentReady
<1>12. SeqNamesOne
  BY <1>1, <1>3, <1>5 DEF SeqNamesOne
<1> QED BY <1>7, <1>8, <1>9, <1>10, <1>11, <1>12, Zenon DEF IInv

\* Every step keeps the invariant.
LEMMA StepIInv == IInv /\ [Next]_vars => IInv'
<1> SUFFICES ASSUME IInv, [Next]_vars PROVE IInv'
  BY Zenon
<1>1. CASE UNCHANGED vars
  BY <1>1, StutterKeeps, Zenon
<1>2. ASSUME NEW d \in Devices, device_bind(d) PROVE IInv'
  BY <1>2, BindKeeps, Zenon
<1>3. ASSUME NEW d \in Devices, NEW fn \in {"device_probe", "device_remove", "device_unbind"},
             call(fn, d)
      PROVE  IInv'
  BY <1>3, CallKeeps, Zenon
<1>a. ErrorsReach
  BY ErrorReaches, Zenon DEF IInv, Calls, Structure
<1>b. NumbersLeft
  BY ResolveSeq, Zenon DEF IInv, NumbersLeft
<1>4. CASE Probe
  BY <1>4, <1>a, <1>b, ProbeKeeps, Zenon
<1>5. CASE Remove
  BY <1>5, <1>a, RemoveKeeps, Zenon
<1>6. CASE Unbind
  BY <1>6, UnbindKeeps, Zenon
<1> QED BY <1>1, <1>2, <1>3, <1>4, <1>5, <1>6, Zenon DEF Next

\* Two at most.
LEMMA TwoAtMost == IInv => ReentryBounded
<1> SUFFICES ASSUME IInv, NEW d \in Devices
             PROVE  Cardinality({i \in 1 .. Len(stack) :
                                  /\ stack[i].fn = "device_probe" /\ stack[i].dev = d
                                  /\ stack[i].at # "entry"}) <= 2
  BY Zenon DEF ReentryBounded
<1> DEFINE S == {i \in 1 .. Len(stack) :
                                  /\ stack[i].fn = "device_probe" /\ stack[i].dev = d
                                  /\ stack[i].at # "entry"}
<1> SUFFICES Cardinality(S) <= 2
  BY Zenon
<1>1. Structure
  BY Zenon DEF IInv, Calls
<1>2. \A i \in S : ProbeAt(i, d)
  BY Zenon DEF ProbeAt
<1>3. S \subseteq Nat
  OBVIOUS
<1> HIDE DEF S
<1>4. CASE S = {}
  BY <1>4, FS_EmptySet
<1>5. CASE S # {}
  <2>1. PICK a \in S : \A x \in S : a <= x
    BY <1>3, <1>5, LeastOfNat, Zenon
  <2>2. IsFiniteSet({a}) /\ Cardinality({a}) = 1
    BY FS_Singleton, Zenon
  <2>3. CASE S \ {a} = {}
    <3>1. S = {a}
      BY <2>3, Zenon
    <3> QED BY <2>2, <3>1
  <2>4. CASE S \ {a} # {}
    <3>1. PICK b \in S \ {a} : \A x \in S \ {a} : b <= x
      <4>1. S \ {a} \subseteq Nat
        BY <1>3, Zenon
      <4> QED BY <2>4, <4>1, LeastOfNat, Zenon
    <3>2. a \in Nat /\ b \in Nat /\ a < b
      BY <1>3, <2>1, <3>1
    <3>3. S \subseteq {a} \cup {b}
      <4> SUFFICES ASSUME NEW l \in S, l # a, l # b PROVE FALSE
        BY Zenon
      <4>1. l \in Nat /\ b < l
        BY <1>3, <3>1, <3>2
      <4>2. ProbeAt(a, d) /\ ProbeAt(b, d) /\ ProbeAt(l, d)
        BY <1>2, <2>1, <3>1, Zenon
      <4> QED BY ONLY <1>1, <3>2, <4>1, <4>2, d \in Devices, NoThird, Zenon
    <3>4. IsFiniteSet({a} \cup {b}) /\ Cardinality({a} \cup {b}) = 2
      BY <2>2, <3>2, FS_AddElement
    <3>5. Cardinality(S) <= Cardinality({a} \cup {b})
      BY <3>3, <3>4, FS_Subset, Zenon
    <3> QED BY <3>4, <3>5, Zenon
  <2> QED BY <2>3, <2>4, Zenon
<1> QED BY <1>4, <1>5, Zenon

------------------------------------------------------------------------------
(* Theorems *)

\* The inductive invariant holds in every state.
LEMMA AlwaysIInv == Spec => []IInv
BY InitIInv, StepIInv, PTL DEF Spec

\* device_unbind never frees a device that is active, or holds private data, or
\* for which a call is under way.
THEOREM DmTypeCorrect == Spec => []TypeOK
<1>1. IInv => TypeOK
  BY Zenon DEF IInv
<1> QED BY <1>1, AlwaysIInv, PTL

\* An active device has its data in every state of nested, re-entered and failing
\* calls of device_probe and device_remove, and an inactive one has none once all
\* calls have returned.
THEOREM DmDataWhileActive == Spec => []DataWhileActive
<1>1. IInv => DataWhileActive
  <2> SUFFICES ASSUME IInv PROVE DataWhileActive
    BY Zenon
  <2>1. activated \subseteq priv
    BY Zenon DEF IInv, Data
  <2>2. ASSUME stack = <<>> PROVE priv \subseteq activated
    <3>1. \A i \in 1 .. Len(stack) : FALSE
      BY <2>2
    <3> QED BY <3>1, Zenon DEF IInv, Data, DataIsAwaited
  <2> QED BY <2>1, <2>2, Zenon DEF DataWhileActive
<1> QED BY <1>1, AlwaysIInv, PTL

\* The number uclass_resolve_seq gives a device names it alone in its uclass, and
\* it is given back with the device.
THEOREM DmSeqNamesOne == Spec => []SeqNamesOne
<1>1. IInv => SeqNamesOne
  BY Zenon DEF IInv
<1> QED BY <1>1, AlwaysIInv, PTL

\* device_unbind destroys a device only after all its children, also when
\* unbinding some of them has failed and device_chld_unbind has gone on.
THEOREM DmNoOrphans == Spec => []NoOrphans
<1>1. IInv => NoOrphans
  BY Zenon DEF IInv, Tree
<1> QED BY <1>1, AlwaysIInv, PTL

\* device_probe of a child whose parent probes the child in turn ends: for no
\* tree and no behaviour of the callbacks are more than two calls for a device
\* past their entry.
THEOREM DmReentryBounded == Spec => []ReentryBounded
BY TwoAtMost, AlwaysIInv, PTL

\* device_probe activates a device only while its parent is active.
THEOREM DmParentFirst == Spec => ParentFirst
<1>1. IInv /\ [Next]_vars =>
        [\A d \in activated' \ activated : d \in Roots \/ Parent[d] \in activated]_vars
  <2> SUFFICES ASSUME IInv, Next, NEW d \in activated' \ activated
               PROVE  d \in Roots \/ Parent[d] \in activated
    BY Zenon
  <2>1. probe_activate
    <3>1. ~(\E e \in Devices : device_bind(e))
      BY Zenon DEF device_bind
    <3>2. ~(\E e \in Devices, fn \in {"device_probe", "device_remove", "device_unbind"} :
                call(fn, e))
      BY Zenon DEF call, data
    <3>3. ~Remove
      BY Zenon DEF Remove, remove_entry, remove_child, remove_child_failed, remove_device,
             remove_failed, data
    <3>4. ~Unbind
      BY Zenon DEF Unbind, unbind_refused, unbind_entry, unbind_child, unbind_children_failed,
             unbind_device, data
    <3>5. Probe
      BY <3>1, <3>2, <3>3, <3>4, Zenon DEF Next
    <3> QED BY <3>5, Zenon DEF Probe, probe_entry_active, probe_entry_nomem, probe_entry,
                        probe_parent_failed, probe_done_meanwhile, probe_callback_failed,
                        post_probe_child, post_probe_child_ok, post_probe_ok,
                        post_probe_failed, probe_undone, fail, data
  <2>2. d = Top.dev /\ stack # <<>> /\ Activating(Top) /\ ret = "ok"
    BY <2>1, Zenon DEF probe_activate, Running, Activating
  <2> QED BY <2>2, Zenon DEF IInv, ParentReady
<1> QED BY <1>1, AlwaysIInv, PTL DEF Spec, ParentFirst
=============================================================================
