----------------------------- MODULE LmbProofs ------------------------------
(***************************************************************************)
(* Proofs about the reserved regions of lib/lmb.c.                         *)
(*                                                                         *)
(* The invariant of the table is that of a set of intervals: regions are   *)
(* not empty, end within memory, and each begins above the end of the one  *)
(* before it.  lmb_add_region of an interval that is clear of the table    *)
(* keeps it and adds exactly the interval's bytes (AddKeeps); lmb_free of  *)
(* one that is held keeps it and takes exactly its bytes away (FreeKeeps). *)
(* A block that is held byte by byte lies in one region, because there is  *)
(* a gap between any two (HeldInOne), and so lmb_free finds it.            *)
(***************************************************************************)
EXTENDS Lmb, TLAPS

INSTANCE WellFoundedInduction

-----------------------------------------------------------------------------
(***************************************************************************)
(* What the theorems assume of memory and of the limits of allocations.    *)
(***************************************************************************)

\* Memory ends below the top of the address space, so that no end wraps.
BelowTop == MemEnd < Space

\* No one asks for more bytes than there are below the limit given.
LimitsFit == \A max \in MaxAddrs, size \in Sizes : max = 0 \/ size <= max

-----------------------------------------------------------------------------
(***************************************************************************)
(* The inductive invariant.                                                *)
(***************************************************************************)

Entry == [base : Nat, size : Int]
Interval == [base : Nat, size : Nat \ {0}]

\* r is a part of memory.
InMemory(r) == r \in Interval /\ r.base + r.size <= MemEnd

\* The byte at a is one of r's; one of a table's.
In(r, a) == r.base <= a /\ a < r.base + r.size
Held(rgn, a) == \E i \in 1 .. Len(rgn) : In(rgn[i], a)

Below(r, s) == r.base + r.size < s.base

\* A table without an entry of size 0: sorted, with gaps.
Table(rgn) ==
    /\ rgn \in Seq(Interval)
    /\ \A i \in 1 .. Len(rgn) : InMemory(rgn[i])
    /\ \A i, j \in 1 .. Len(rgn) : i < j => Below(rgn[i], rgn[j])

\* No region of the table overlaps r.
Clear(rgn, r) ==
    \A i \in 1 .. Len(rgn) :
        rgn[i].base + rgn[i].size <= r.base \/ r.base + r.size <= rgn[i].base

HeldWhole(rgn, r) == \A a \in Nat : In(r, a) => Held(rgn, a)
Disjoint(r, s) == \A a \in Nat : ~(In(r, a) /\ In(s, a))

SearchType == [base : Nat, size : Nat \ {0}, align : Nat \ {0}, max : Nat]

\* Where the search is, what it asks for fits.
Fits(s) ==
    Searching(s) => /\ s.base % s.align = 0 /\ s.base + s.size <= MemEnd
                    /\ s.max # 0 => s.base + s.size <= s.max

TypeOK ==
    /\ reserved \in Seq(Entry)
    /\ fdt \in Seq(Interval)
    /\ search = NoSearch \/ \E s \in SearchType : search = <<s>> /\ Fits(s)
    /\ torn \in BOOLEAN

\* Every block is held, the device tree's and U-Boot's among them.
BlocksOK(rgn, bs) ==
    /\ Table(rgn)
    /\ UBoot \in bs
    /\ \A b \in bs : InMemory(b) /\ HeldWhole(rgn, b)
    /\ \A b, c \in bs : b # c => Disjoint(b, c)

FdtOK(f, bs) == Len(f) = 1 => f[1] \in bs /\ f[1] # UBoot

TypeInv == LimitsFit /\ TypeOK
BlocksInv == ~torn => BlocksOK(reserved, blocks) /\ FdtOK(fdt, blocks)

IInv == BelowTop /\ TypeInv /\ BlocksInv

-----------------------------------------------------------------------------
(***************************************************************************)
(* Arithmetic of addresses.                                                *)
(***************************************************************************)

\* A remainder lies below the divisor, and not above the number.
LEMMA ModRange ==
    ASSUME NEW a \in Int, NEW n \in Nat \ {0}
    PROVE  a % n \in Nat /\ a % n < n
OBVIOUS

\* A number below the divisor is its own remainder.
LEMMA ModSmall ==
    ASSUME NEW a \in Nat, NEW n \in Nat \ {0}, a < n PROVE a % n = a
OBVIOUS

\* A remainder is not above the number.
LEMMA ModBelow ==
    ASSUME NEW a \in Nat, NEW n \in Nat \ {0} PROVE a % n <= a
OBVIOUS

\* Without its remainder a number is a multiple.
LEMMA ModMultiple ==
    ASSUME NEW a \in Int, NEW n \in Nat \ {0} PROVE (a - (a % n)) % n = 0
OBVIOUS

\* A small negative number wraps to the top.
LEMMA ModNegative ==
    ASSUME NEW a \in Nat \ {0}, NEW n \in Nat \ {0}, a <= n
    PROVE  (0 - a) % n = n - a
OBVIOUS

\* A sum of addresses is an address.
LEMMA WrapType ==
    ASSUME NEW a \in Int PROVE Wrap(a) \in Nat /\ Wrap(a) < Space
BY MemoryAssumption, ModRange, Zenon DEF Wrap

\* A sum that is an address does not wrap.
LEMMA WrapSmall ==
    ASSUME NEW a \in Nat, a < Space PROVE Wrap(a) = a
BY MemoryAssumption, ModSmall, Zenon DEF Wrap

\* lmb_align_down: a multiple, not above the address and less than the
\* alignment below it.
LEMMA AlignDown ==
    ASSUME NEW a \in Nat, NEW n \in Nat \ {0}
    PROVE  /\ lmb_align_down(a, n) \in Nat
           /\ lmb_align_down(a, n) <= a
           /\ lmb_align_down(a, n) % n = 0
<1>1. a % n \in Nat /\ a % n < n /\ a % n <= a
  BY ModRange, ModBelow
<1>2. (a - (a % n)) % n = 0
  BY ModMultiple
<1> QED BY <1>1, <1>2 DEF lmb_align_down

\* lmb_align_up: not below the size.
LEMMA AlignUp ==
    ASSUME NEW a \in Nat, NEW n \in Nat \ {0}
    PROVE  lmb_align_up(a, n) \in Nat /\ lmb_align_up(a, n) >= a
<1>1. a + n - 1 \in Nat /\ (a + n - 1) % n \in Nat /\ (a + n - 1) % n < n
  BY ModRange
<1> QED BY <1>1 DEF lmb_align_down, lmb_align_up

\* The facts about memory that the proofs use.
LEMMA Memory ==
    /\ Space \in Nat \ {0} /\ MemBase \in Nat /\ MemSize \in Nat \ {0} /\ MemSize < Space
    /\ MemEnd \in Nat /\ MemEnd = MemBase + MemSize /\ MemEnd <= Space
    /\ UBootBase \in Nat /\ UBootBase > MemBase /\ UBootBase < MemEnd
BY MemoryAssumption DEF Addr, MemEnd

\* The least element of a set of numbers, as the loops of lmb.c find it.
LEMMA FirstIn ==
    ASSUME NEW S, S \subseteq Nat, S # {}
    PROVE  First(S) \in S /\ \A j \in S : First(S) <= j
<1>1. PICK k \in S : \A j \in S : ~(<<j, k>> \in OpToRel(<, Nat))
  BY NatLessThanWellFounded, WFMin, Zenon
<1>2. \A j \in S : ~(j < k)
  BY <1>1, Zenon DEF OpToRel
<1>3. \A j \in S : k <= j
  BY <1>2
<1> QED BY <1>3, Zenon DEF First

-----------------------------------------------------------------------------
(***************************************************************************)
(* Types: they hold however torn the table is.                             *)
(***************************************************************************)

\* lmb_remove_region of an entry.
LEMMA RemoveType ==
    ASSUME NEW T, NEW rgn \in Seq(T), NEW r \in 1 .. Len(rgn)
    PROVE  /\ lmb_remove_region(rgn, r) \in Seq(T)
           /\ Len(lmb_remove_region(rgn, r)) = Len(rgn) - 1
           /\ \A i \in 1 .. (Len(rgn) - 1) :
                lmb_remove_region(rgn, r)[i] = IF i < r THEN rgn[i] ELSE rgn[i + 1]
<1>1. Len(rgn) \in Nat /\ Len(rgn) - 1 \in Nat
  OBVIOUS
<1>2. \A i \in 1 .. (Len(rgn) - 1) : rgn[i] \in T /\ rgn[i + 1] \in T
  BY <1>1
<1> QED BY <1>1, <1>2 DEF lmb_remove_region

\* An entry that is changed as a whole.
LEMMA ReplaceType ==
    ASSUME NEW T, NEW rgn \in Seq(T), NEW i \in 1 .. Len(rgn), NEW x \in T
    PROVE  /\ [rgn EXCEPT ![i] = x] \in Seq(T)
           /\ Len([rgn EXCEPT ![i] = x]) = Len(rgn)
           /\ \A j \in 1 .. Len(rgn) : [rgn EXCEPT ![i] = x][j] = IF j = i THEN x ELSE rgn[j]
OBVIOUS

\* An entry of which the size is changed.
LEMMA Resized ==
    ASSUME NEW e \in Entry, NEW n
    PROVE  [e EXCEPT !.size = n] = Region(e.base, n)
BY DEF Entry, Region

\* Insert: the entry comes after those that do not begin above it.
LEMMA InsertType ==
    ASSUME NEW T, NEW rgn \in Seq(T), NEW r \in T
    PROVE  \E at \in 1 .. (Len(rgn) + 1) :
              /\ Insert(rgn, r) \in Seq(T)
              /\ Len(Insert(rgn, r)) = Len(rgn) + 1
              /\ \A i \in 1 .. (Len(rgn) + 1) :
                    Insert(rgn, r)[i] =
                        IF i < at THEN rgn[i] ELSE IF i = at THEN r ELSE rgn[i - 1]
              /\ \A j \in at .. Len(rgn) : r.base < rgn[j].base
              /\ \A i \in 1 .. (at - 1) : \E j \in i .. Len(rgn) : ~(r.base < rgn[j].base)
<1> DEFINE S == {i \in 1 .. (Len(rgn) + 1) : \A j \in i .. Len(rgn) : r.base < rgn[j].base}
           at == First(S)
<1>1. Len(rgn) \in Nat
  OBVIOUS
<1>2. S \subseteq Nat /\ Len(rgn) + 1 \in S
  BY <1>1
<1>3. at \in S /\ \A j \in S : at <= j
  <2> HIDE DEF S
  <2> QED BY <1>2, FirstIn, Zenon
<1>4. at \in 1 .. (Len(rgn) + 1) /\ \A j \in at .. Len(rgn) : r.base < rgn[j].base
  BY <1>3, Zenon
<1>5. ASSUME NEW i \in 1 .. (at - 1)
      PROVE  \E j \in i .. Len(rgn) : ~(r.base < rgn[j].base)
  <2>1. i \in 1 .. (Len(rgn) + 1) /\ ~(at <= i)
    BY <1>1, <1>4
  <2>2. i \notin S
    BY <1>3, <2>1, Zenon
  <2> QED BY <2>1, <2>2, Zenon
<1>6. Insert(rgn, r) = [i \in 1 .. (Len(rgn) + 1) |->
                            IF i < at THEN rgn[i] ELSE IF i = at THEN r ELSE rgn[i - 1]]
  BY Zenon DEF Insert
<1> HIDE DEF at
<1>7. \A i \in 1 .. (Len(rgn) + 1) :
        (IF i < at THEN rgn[i] ELSE IF i = at THEN r ELSE rgn[i - 1]) \in T
  BY <1>1, <1>4
<1>8. /\ Insert(rgn, r) \in Seq(T)
      /\ Len(Insert(rgn, r)) = Len(rgn) + 1
      /\ \A i \in 1 .. (Len(rgn) + 1) :
            Insert(rgn, r)[i] = IF i < at THEN rgn[i] ELSE IF i = at THEN r ELSE rgn[i - 1]
  BY <1>1, <1>6, <1>7
<1> QED BY <1>4, <1>5, <1>8, Zenon

\* Entry i with r's bytes added.
Grown(rgn, r, i) ==
    Region(IF lmb_addrs_adjacent(r, rgn[i]) > 0 THEN Wrap(rgn[i].base - r.size) ELSE rgn[i].base,
           rgn[i].size + r.size)

\* What lmb_add_region may do.
FillsEmpty(rgn, r, out) ==
    Len(rgn) = 1 /\ rgn[1].size = 0 /\ out = [rgn |-> <<r>>, fails |-> FALSE]
FindsFull(rgn, r, out) == out = [rgn |-> rgn, fails |-> TRUE]
Inserts(rgn, r, out) ==
    /\ \A j \in 1 .. Len(rgn) : lmb_addrs_adjacent(r, rgn[j]) = 0
    /\ out = [rgn |-> Insert(rgn, r), fails |-> FALSE]
HasIt(rgn, r, out) ==
    \E i \in 1 .. Len(rgn) : rgn[i] = r /\ out = [rgn |-> rgn, fails |-> FALSE]
Extends(rgn, r, out) ==
    \E i \in 1 .. Len(rgn) :
        /\ lmb_addrs_adjacent(r, rgn[i]) # 0
        /\ \A j \in 1 .. (i - 1) : lmb_addrs_adjacent(r, rgn[j]) = 0
        /\ out = [rgn |-> CoalesceNext([rgn EXCEPT ![i] = Grown(rgn, r, i)], i), fails |-> FALSE]

\* lmb_add_region does one of these; the entry extended is the first that
\* touches r.
LEMMA AddCases ==
    ASSUME NEW rgn \in Seq(Entry), NEW r, NEW out, out = lmb_add_region(rgn, r)
    PROVE  \/ FillsEmpty(rgn, r, out) \/ FindsFull(rgn, r, out) \/ Inserts(rgn, r, out)
           \/ HasIt(rgn, r, out) \/ Extends(rgn, r, out)
<1> DEFINE hits == {i \in DOMAIN rgn : rgn[i] = r \/ lmb_addrs_adjacent(r, rgn[i]) # 0}
           i == First(hits)
<1>1. DOMAIN rgn = 1 .. Len(rgn) /\ Len(rgn) \in Nat
  OBVIOUS
<1>2. CASE Len(rgn) = 1 /\ rgn[1].size = 0
  BY <1>2, Zenon DEF lmb_add_region, FillsEmpty
<1>3. CASE ~(Len(rgn) = 1 /\ rgn[1].size = 0) /\ hits = {}
  <2>1. out = [rgn |-> rgn, fails |-> TRUE] \/ out = [rgn |-> Insert(rgn, r), fails |-> FALSE]
    BY <1>3, Zenon DEF lmb_add_region
  <2>2. \A j \in 1 .. Len(rgn) : lmb_addrs_adjacent(r, rgn[j]) = 0
    BY <1>1, <1>3, Zenon
  <2> QED BY <2>1, <2>2, Zenon DEF FindsFull, Inserts
<1>4. CASE ~(Len(rgn) = 1 /\ rgn[1].size = 0) /\ hits # {}
  <2>1. hits \subseteq Nat
    BY <1>1
  <2>2. i \in hits /\ \A j \in hits : i <= j
    <3> HIDE DEF hits
    <3> QED BY <1>4, <2>1, FirstIn, Zenon
  <2>3. i \in 1 .. Len(rgn) /\ (rgn[i] = r \/ lmb_addrs_adjacent(r, rgn[i]) # 0)
    BY <1>1, <2>2, Zenon
  <2>4. CASE rgn[i] = r
    <3>1. out = [rgn |-> rgn, fails |-> FALSE]
      BY <1>4, <2>4, Zenon DEF lmb_add_region
    <3> HIDE DEF i
    <3> QED BY <2>3, <2>4, <3>1, Zenon DEF HasIt
  <2>5. CASE rgn[i] # r
    <3>1. out = [rgn |-> CoalesceNext([rgn EXCEPT ![i] =
                    Region(IF lmb_addrs_adjacent(r, rgn[i]) > 0
                           THEN Wrap(rgn[i].base - r.size) ELSE rgn[i].base,
                           rgn[i].size + r.size)], i), fails |-> FALSE]
      BY <1>4, <2>5, Zenon DEF lmb_add_region
    <3>2. ASSUME NEW j \in 1 .. (i - 1) PROVE lmb_addrs_adjacent(r, rgn[j]) = 0
      <4>1. j \in 1 .. Len(rgn) /\ ~(i <= j)
        <5> HIDE DEF i
        <5> QED BY <1>1, <2>3
      <4> QED BY <1>1, <2>2, <4>1, Zenon
    <3> HIDE DEF i
    <3> QED BY <2>3, <2>5, <3>1, <3>2, Zenon DEF Extends, Grown
  <2> QED BY <2>4, <2>5, Zenon
<1> QED BY <1>2, <1>3, <1>4, Zenon

\* CoalesceNext: nothing, or the next entry goes into this one.
LEMMA CoalesceCases ==
    ASSUME NEW rgn \in Seq(Entry), NEW i \in 1 .. Len(rgn)
    PROVE  \/ /\ CoalesceNext(rgn, i) = rgn
              /\ i < Len(rgn) => lmb_addrs_adjacent(rgn[i], rgn[i + 1]) = 0
           \/ /\ i < Len(rgn) /\ lmb_addrs_adjacent(rgn[i], rgn[i + 1]) # 0
              /\ CoalesceNext(rgn, i) =
                    lmb_remove_region([rgn EXCEPT ![i] =
                        Region(rgn[i].base, rgn[i].size + rgn[i + 1].size)], i + 1)
<1>1. CASE i < Len(rgn) /\ lmb_addrs_adjacent(rgn[i], rgn[i + 1]) # 0
  <2>1. CoalesceNext(rgn, i) =
            lmb_remove_region([rgn EXCEPT ![i].size = rgn[i].size + rgn[i + 1].size], i + 1)
    BY <1>1, Zenon DEF CoalesceNext, lmb_coalesce_regions
  <2>2. rgn[i] \in Entry /\ rgn[i + 1] \in Entry
    BY <1>1
  <2>4. [rgn EXCEPT ![i].size = rgn[i].size + rgn[i + 1].size] =
            [rgn EXCEPT ![i] = Region(rgn[i].base, rgn[i].size + rgn[i + 1].size)]
    <3> DEFINE n == rgn[i].size + rgn[i + 1].size
    <3> HIDE DEF n
    <3>1. [rgn[i] EXCEPT !.size = n] = Region(rgn[i].base, n)
      BY <2>2, Resized, Zenon
    <3> QED BY <3>1, Zenon DEF n
  <2> QED BY <1>1, <2>1, <2>4, Zenon
<1>2. CASE ~(i < Len(rgn) /\ lmb_addrs_adjacent(rgn[i], rgn[i + 1]) # 0)
  BY <1>2, Zenon DEF CoalesceNext
<1> QED BY <1>1, <1>2, Zenon

\* The type of what CoalesceNext returns.
LEMMA CoalesceType ==
    ASSUME NEW rgn \in Seq(Entry), NEW i \in 1 .. Len(rgn)
    PROVE  CoalesceNext(rgn, i) \in Seq(Entry)
<1>1. CASE CoalesceNext(rgn, i) = rgn
  BY <1>1, Zenon
<1>2. CASE /\ i < Len(rgn)
           /\ CoalesceNext(rgn, i) =
                lmb_remove_region([rgn EXCEPT ![i] =
                    Region(rgn[i].base, rgn[i].size + rgn[i + 1].size)], i + 1)
  <2> DEFINE x == Region(rgn[i].base, rgn[i].size + rgn[i + 1].size)
  <2>1. rgn[i] \in Entry /\ rgn[i + 1] \in Entry /\ i + 1 \in 1 .. Len(rgn)
    BY <1>2
  <2>2. x \in Entry
    BY <2>1 DEF Entry, Region
  <2>3. CoalesceNext(rgn, i) = lmb_remove_region([rgn EXCEPT ![i] = x], i + 1)
    BY <1>2, Zenon
  <2> HIDE DEF x
  <2>4. [rgn EXCEPT ![i] = x] \in Seq(Entry) /\ Len([rgn EXCEPT ![i] = x]) = Len(rgn)
    BY <2>2, ReplaceType
  <2> DEFINE t == [rgn EXCEPT ![i] = x]
  <2> HIDE DEF t
  <2>5. lmb_remove_region(t, i + 1) \in Seq(Entry)
    BY <2>1, <2>4, RemoveType, Zenon DEF t
  <2> QED BY <2>3, <2>5, Zenon DEF t
<1> QED BY <1>1, <1>2, CoalesceCases, Zenon

\* The type of what lmb_add_region returns.
LEMMA AddType ==
    ASSUME NEW rgn \in Seq(Entry), NEW r \in Entry
    PROVE  /\ lmb_add_region(rgn, r).rgn \in Seq(Entry)
           /\ lmb_add_region(rgn, r).fails \in BOOLEAN
<1> DEFINE out == lmb_add_region(rgn, r)
<1> HIDE DEF out
<1>0. \/ FillsEmpty(rgn, r, out) \/ FindsFull(rgn, r, out) \/ Inserts(rgn, r, out)
      \/ HasIt(rgn, r, out) \/ Extends(rgn, r, out)
  BY AddCases, Zenon DEF out
<1>1. CASE FillsEmpty(rgn, r, out)
  <2>1. <<r>> \in Seq(Entry)
    OBVIOUS
  <2> QED BY <1>1, <2>1 DEF FillsEmpty, out
<1>2. CASE FindsFull(rgn, r, out) \/ HasIt(rgn, r, out)
  <2>1. out.rgn = rgn /\ (out.fails = TRUE \/ out.fails = FALSE)
    BY <1>2 DEF FindsFull, HasIt
  <2> QED BY <2>1, Zenon DEF out
<1>3. CASE Inserts(rgn, r, out)
  <2>1. Insert(rgn, r) \in Seq(Entry)
    BY InsertType, Zenon
  <2> QED BY <1>3, <2>1 DEF Inserts, out
<1>4. CASE Extends(rgn, r, out)
  <2>1. PICK i \in 1 .. Len(rgn) :
          out = [rgn |-> CoalesceNext([rgn EXCEPT ![i] = Grown(rgn, r, i)], i), fails |-> FALSE]
    BY <1>4, Zenon DEF Extends
  <2>2. rgn[i] \in Entry
    OBVIOUS
  <2>3. rgn[i].base - r.size \in Int
    BY <2>2 DEF Entry
  <2>4. Wrap(rgn[i].base - r.size) \in Nat
    BY <2>3, WrapType, Zenon
  <2>5. Grown(rgn, r, i) \in Entry
    BY <2>2, <2>4, SMTT(30) DEF Entry, Grown, Region
  <2>6. CoalesceNext([rgn EXCEPT ![i] = Grown(rgn, r, i)], i) \in Seq(Entry)
    <3> DEFINE t == [rgn EXCEPT ![i] = Grown(rgn, r, i)]
    <3>1. t \in Seq(Entry) /\ Len(t) = Len(rgn)
      BY <2>5, ReplaceType
    <3> HIDE DEF t
    <3>2. CoalesceNext(t, i) \in Seq(Entry)
      BY <3>1, CoalesceType, Zenon
    <3> QED BY <3>2, Zenon DEF t
  <2> QED BY <2>1, <2>6 DEF out
<1> QED BY <1>0, <1>1, <1>2, <1>3, <1>4, Zenon

-----------------------------------------------------------------------------
(***************************************************************************)
(* The table as a set of intervals.                                        *)
(***************************************************************************)

\* The byte at a is one of a region other than the i-th.
HeldBut(rgn, i, a) == \E j \in 1 .. Len(rgn) : j # i /\ In(rgn[j], a)

\* A part of memory, in numbers.
LEMMA InMemoryNumbers ==
    ASSUME NEW r, InMemory(r)
    PROVE  /\ r \in Entry /\ r \in Interval
           /\ r.base \in Nat /\ r.size \in Nat /\ r.size > 0 /\ r.base + r.size <= MemEnd
           /\ r = Region(r.base, r.size)
BY DEF InMemory, Interval, Entry, Region

\* A region of two numbers.
LEMMA RegionFields ==
    ASSUME NEW b, NEW n
    PROVE  Region(b, n).base = b /\ Region(b, n).size = n
BY Zenon DEF Region

\* Region(b, n) is a part of memory when it ends there.
LEMMA RegionInMemory ==
    ASSUME NEW b \in Nat, NEW n \in Nat \ {0}, b + n <= MemEnd
    PROVE  InMemory(Region(b, n))
BY Zenon DEF InMemory, Interval, Region

\* Ends do not wrap.
LEMMA EndIs ==
    ASSUME BelowTop, NEW r, InMemory(r) PROVE End(r) = r.base + r.size
<1>1. r.base + r.size \in Nat /\ r.base + r.size < Space
  BY InMemoryNumbers, Memory DEF BelowTop
<1> QED BY <1>1, WrapSmall, Zenon DEF End

\* A table is a sequence of entries, each a part of memory.
LEMMA TableType ==
    ASSUME NEW rgn, Table(rgn)
    PROVE  /\ rgn \in Seq(Interval) /\ rgn \in Seq(Entry)
           /\ Len(rgn) \in Nat /\ DOMAIN rgn = 1 .. Len(rgn)
<1>1. rgn \in Seq(Interval)
  BY Zenon DEF Table
<1>2. Len(rgn) \in Nat /\ DOMAIN rgn = 1 .. Len(rgn) /\ \A i \in 1 .. Len(rgn) : rgn[i] \in Interval
  BY <1>1
<1>3. \A i \in 1 .. Len(rgn) : rgn[i] \in Entry
  BY <1>2 DEF Interval, Entry
<1>4. rgn = [i \in 1 .. Len(rgn) |-> rgn[i]]
  BY <1>1
<1>5. [i \in 1 .. Len(rgn) |-> rgn[i]] \in Seq(Entry)
  BY <1>2, <1>3
<1> QED BY <1>1, <1>2, <1>4, <1>5, Zenon

\* One region is replaced by an interval that fits between its neighbours.
LEMMA ReplaceKeeps ==
    ASSUME NEW rgn, Table(rgn), NEW i \in 1 .. Len(rgn), NEW x, InMemory(x),
           \A j \in 1 .. Len(rgn) : j < i => Below(rgn[j], x),
           \A j \in 1 .. Len(rgn) : i < j => Below(x, rgn[j])
    PROVE  /\ Table([rgn EXCEPT ![i] = x])
           /\ Len([rgn EXCEPT ![i] = x]) = Len(rgn)
           /\ \A a : Held([rgn EXCEPT ![i] = x], a) <=> In(x, a) \/ HeldBut(rgn, i, a)
<1> DEFINE t == [rgn EXCEPT ![i] = x]
<1>1. rgn \in Seq(Interval) /\ x \in Interval
  BY TableType, InMemoryNumbers, Zenon
<1>2. /\ t \in Seq(Interval) /\ Len(t) = Len(rgn)
      /\ \A j \in 1 .. Len(rgn) : t[j] = IF j = i THEN x ELSE rgn[j]
  BY <1>1, ReplaceType
<1> HIDE DEF t
<1>3. \A j \in 1 .. Len(t) : InMemory(t[j])
  BY <1>2, Zenon DEF Table
<1>4. ASSUME NEW j \in 1 .. Len(t), NEW k \in 1 .. Len(t), j < k PROVE Below(t[j], t[k])
  <2>1. j # k
    BY <1>4
  <2>2. j \in 1 .. Len(rgn) /\ k \in 1 .. Len(rgn)
    BY <1>2, Zenon
  <2>3. CASE j = i
    <3>1. t[j] = x /\ t[k] = rgn[k]
      BY <1>2, <2>1, <2>2, <2>3, Zenon
    <3> QED BY <1>4, <2>2, <2>3, <3>1, Zenon
  <2>4. CASE k = i
    <3>1. t[j] = rgn[j] /\ t[k] = x
      BY <1>2, <2>1, <2>2, <2>4, Zenon
    <3> QED BY <1>4, <2>2, <2>4, <3>1, Zenon
  <2>5. CASE j # i /\ k # i
    <3>1. t[j] = rgn[j] /\ t[k] = rgn[k]
      BY <1>2, <2>2, <2>5, Zenon
    <3> QED BY <1>4, <2>2, <3>1, Zenon DEF Table
  <2> QED BY <2>3, <2>4, <2>5, Zenon
<1>5. Table(t)
  BY <1>2, <1>3, <1>4, Zenon DEF Table
<1>6. \A a : Held(t, a) <=> In(x, a) \/ HeldBut(rgn, i, a)
  BY <1>2, Zenon DEF Held, HeldBut
<1> QED BY <1>2, <1>5, <1>6, Zenon DEF t

\* A region is removed.
LEMMA RemoveKeeps ==
    ASSUME NEW rgn, Table(rgn), NEW i \in 1 .. Len(rgn)
    PROVE  /\ Table(lmb_remove_region(rgn, i))
           /\ Len(lmb_remove_region(rgn, i)) = Len(rgn) - 1
           /\ \A a : Held(lmb_remove_region(rgn, i), a) <=> HeldBut(rgn, i, a)
<1> DEFINE t == lmb_remove_region(rgn, i)
           at(j) == IF j < i THEN j ELSE j + 1
<1>1. rgn \in Seq(Interval) /\ Len(rgn) \in Nat
  BY TableType, Zenon
<1>2. /\ t \in Seq(Interval) /\ Len(t) = Len(rgn) - 1
      /\ \A j \in 1 .. (Len(rgn) - 1) : t[j] = IF j < i THEN rgn[j] ELSE rgn[j + 1]
  BY <1>1, RemoveType, Zenon
<1> HIDE DEF t
<1>3. ASSUME NEW j \in 1 .. Len(t)
      PROVE  at(j) \in 1 .. Len(rgn) /\ at(j) # i /\ t[j] = rgn[at(j)]
  BY <1>1, <1>2
<1>4. ASSUME NEW j \in 1 .. Len(t), NEW k \in 1 .. Len(t), j < k
      PROVE  at(j) < at(k)
  BY <1>1, <1>2, <1>4
<1>5. ASSUME NEW k \in 1 .. Len(rgn), k # i PROVE \E j \in 1 .. Len(t) : at(j) = k
  <2>1. CASE k < i
    <3>1. k \in 1 .. Len(t)
      BY <1>1, <1>2, <2>1
    <3> QED BY <2>1, <3>1, Zenon
  <2>2. CASE i < k
    <3>1. k - 1 \in 1 .. Len(t) /\ ~(k - 1 < i) /\ (k - 1) + 1 = k
      BY <1>1, <1>2, <2>2
    <3> QED BY <3>1, Zenon
  <2> QED BY <1>1, <1>5, <2>1, <2>2
<1> HIDE DEF at
<1>6. Table(t)
  <2>1. \A j \in 1 .. Len(t) : InMemory(t[j])
    BY <1>3, Zenon DEF Table
  <2>2. \A j, k \in 1 .. Len(t) : j < k => Below(t[j], t[k])
    BY <1>3, <1>4, Zenon DEF Table
  <2> QED BY <1>2, <2>1, <2>2, Zenon DEF Table
<1>7. ASSUME NEW a PROVE Held(t, a) <=> HeldBut(rgn, i, a)
  <2>1. ASSUME Held(t, a) PROVE HeldBut(rgn, i, a)
    BY <1>3, <2>1, Zenon DEF Held, HeldBut
  <2>2. ASSUME HeldBut(rgn, i, a) PROVE Held(t, a)
    <3>1. PICK k \in 1 .. Len(rgn) : k # i /\ In(rgn[k], a)
      BY <2>2, Zenon DEF HeldBut
    <3>2. PICK j \in 1 .. Len(t) : at(j) = k
      BY <1>5, <3>1, Zenon
    <3> QED BY <1>3, <3>1, <3>2, Zenon DEF Held
  <2> QED BY <2>1, <2>2, Zenon
<1> QED BY <1>2, <1>6, <1>7, Zenon DEF t

\* Intervals that share no byte do not overlap.
LEMMA ClearOfBytes ==
    ASSUME NEW rgn, Table(rgn), NEW r, InMemory(r),
           \A a \in Nat : ~(In(r, a) /\ Held(rgn, a))
    PROVE  Clear(rgn, r)
<1> SUFFICES ASSUME NEW i \in 1 .. Len(rgn),
                    ~(rgn[i].base + rgn[i].size <= r.base), ~(r.base + r.size <= rgn[i].base)
             PROVE  FALSE
  BY Zenon DEF Clear
<1>1. InMemory(rgn[i])
  BY Zenon DEF Table
<1>2. /\ rgn[i].base \in Nat /\ rgn[i].size \in Nat /\ rgn[i].size > 0
      /\ r.base \in Nat /\ r.size \in Nat /\ r.size > 0
  BY <1>1, InMemoryNumbers, Zenon
<1> DEFINE a == IF rgn[i].base <= r.base THEN r.base ELSE rgn[i].base
<1>3. a \in Nat /\ In(r, a) /\ In(rgn[i], a)
  BY <1>2 DEF In
<1> HIDE DEF a
<1> QED BY <1>3, Zenon DEF Held

\* A block that is held byte by byte lies in one region: there is a gap
\* between any two.
LEMMA HeldInOne ==
    ASSUME NEW rgn, Table(rgn), NEW r, InMemory(r), HeldWhole(rgn, r)
    PROVE  \E i \in 1 .. Len(rgn) :
              rgn[i].base <= r.base /\ r.base + r.size <= rgn[i].base + rgn[i].size
<1>1. r.base \in Nat /\ r.size \in Nat /\ r.size > 0
  BY InMemoryNumbers, Zenon
<1>2. In(r, r.base)
  BY <1>1 DEF In
<1>3. PICK i \in 1 .. Len(rgn) : In(rgn[i], r.base)
  BY <1>1, <1>2, Zenon DEF HeldWhole, Held
<1>4. rgn[i].base \in Nat /\ rgn[i].size \in Nat
  BY InMemoryNumbers, Zenon DEF Table
<1> DEFINE e == rgn[i].base + rgn[i].size
<1>5. CASE e < r.base + r.size
  <2>1. e \in Nat /\ In(r, e)
    BY <1>1, <1>3, <1>4, <1>5 DEF In
  <2>2. PICK j \in 1 .. Len(rgn) : In(rgn[j], e)
    <3> HIDE DEF e
    <3> QED BY <2>1, Zenon DEF HeldWhole, Held
  <2>3. rgn[j].base \in Nat /\ rgn[j].size \in Nat
    BY InMemoryNumbers, Zenon DEF Table
  <2>4. i < j => rgn[i].base + rgn[i].size < rgn[j].base
    BY Zenon DEF Table, Below
  <2>5. j < i => rgn[j].base + rgn[j].size < rgn[i].base
    BY Zenon DEF Table, Below
  <2>6. rgn[j].base <= e /\ e < rgn[j].base + rgn[j].size
    BY <2>2, Zenon DEF In
  <2>7. ~(i < j)
    BY <1>4, <2>3, <2>4, <2>6
  <2>8. ~(j < i)
    BY <1>4, <2>3, <2>5, <2>6
  <2>9. i = j
    BY <2>7, <2>8
  <2> QED BY <1>4, <2>6, <2>9
<1>6. CASE ~(e < r.base + r.size)
  <2>1. rgn[i].base <= r.base
    BY <1>3, Zenon DEF In
  <2>2. r.base + r.size <= e
    BY <1>1, <1>4, <1>6
  <2> QED BY <2>1, <2>2, Zenon
<1> QED BY <1>5, <1>6, Zenon

-----------------------------------------------------------------------------
(***************************************************************************)
(* lmb_add_region and lmb_free, of intervals.                              *)
(***************************************************************************)

\* The table holds the bytes it held, and those of r.
Adds(rgn, r, new) ==
    /\ Table(new) /\ Len(new) > 0
    /\ \A a : a \in Nat => (Held(new, a) <=> Held(rgn, a) \/ In(r, a))

\* lmb_addrs_adjacent of intervals.
LEMMA AdjacentIs ==
    ASSUME BelowTop, NEW r, NEW s, InMemory(r), InMemory(s)
    PROVE  /\ lmb_addrs_adjacent(r, s) > 0 <=> s.base = r.base + r.size
           /\ lmb_addrs_adjacent(r, s) = 0 => /\ s.base # r.base + r.size
                                              /\ r.base # s.base + s.size
           /\ lmb_addrs_adjacent(r, s) # 0 => \/ s.base = r.base + r.size
                                              \/ r.base = s.base + s.size
<1>1. End(r) = r.base + r.size /\ End(s) = s.base + s.size
  BY EndIs, Zenon
<1> QED BY <1>1 DEF lmb_addrs_adjacent

\* A region that does not touch r, before or after it.
LEMMA ClearApart ==
    ASSUME BelowTop, NEW rgn, Table(rgn), NEW r, InMemory(r), Clear(rgn, r),
           NEW i \in 1 .. Len(rgn), lmb_addrs_adjacent(r, rgn[i]) = 0
    PROVE  Below(rgn[i], r) \/ Below(r, rgn[i])
<1>1. InMemory(rgn[i])
  BY Zenon DEF Table
<1>2. rgn[i].base # r.base + r.size /\ r.base # rgn[i].base + rgn[i].size
  BY <1>1, AdjacentIs, Zenon
<1>3. rgn[i].base + rgn[i].size <= r.base \/ r.base + r.size <= rgn[i].base
  BY Zenon DEF Clear
<1>4. /\ rgn[i].base \in Nat /\ rgn[i].size \in Nat /\ r.base \in Nat /\ r.size \in Nat
  BY <1>1, InMemoryNumbers, Zenon
<1> QED BY <1>2, <1>3, <1>4 DEF Below

\* An interval that touches no region is inserted where it belongs.
LEMMA InsertKeeps ==
    ASSUME BelowTop, NEW rgn, Table(rgn), NEW r, InMemory(r), Clear(rgn, r),
           \A j \in 1 .. Len(rgn) : lmb_addrs_adjacent(r, rgn[j]) = 0
    PROVE  Adds(rgn, r, Insert(rgn, r))
<1> DEFINE t == Insert(rgn, r)
<1>1. rgn \in Seq(Interval) /\ Len(rgn) \in Nat /\ r \in Interval
  BY TableType, InMemoryNumbers, Zenon
<1>2. PICK at \in 1 .. (Len(rgn) + 1) :
         /\ t \in Seq(Interval) /\ Len(t) = Len(rgn) + 1
         /\ \A i \in 1 .. (Len(rgn) + 1) :
               t[i] = IF i < at THEN rgn[i] ELSE IF i = at THEN r ELSE rgn[i - 1]
         /\ \A j \in at .. Len(rgn) : r.base < rgn[j].base
         /\ \A i \in 1 .. (at - 1) : \E j \in i .. Len(rgn) : ~(r.base < rgn[j].base)
  BY <1>1, InsertType, ZenonT(30)
<1> HIDE DEF t
<1>3. /\ r.base \in Nat /\ r.size \in Nat /\ r.size > 0
      /\ \A i \in 1 .. Len(rgn) : /\ InMemory(rgn[i])
                                  /\ rgn[i].base \in Nat /\ rgn[i].size \in Nat
  BY InMemoryNumbers, Zenon DEF Table
<1>4. ASSUME NEW i \in 1 .. (at - 1) PROVE i \in 1 .. Len(rgn) /\ Below(rgn[i], r)
  <2>1. PICK j \in i .. Len(rgn) : ~(r.base < rgn[j].base)
    BY <1>2, Zenon
  <2>2. i \in 1 .. Len(rgn) /\ j \in 1 .. Len(rgn) /\ (i < j \/ i = j)
    BY <1>1
  <2>3. i < j => Below(rgn[i], rgn[j])
    BY <2>2, Zenon DEF Table
  <2>4. rgn[i].base <= rgn[j].base
    BY <1>3, <2>2, <2>3 DEF Below
  <2>5. ~Below(r, rgn[i])
    BY <1>3, <2>1, <2>2, <2>4 DEF Below
  <2> QED BY <2>2, <2>5, ClearApart, Zenon
<1>5. ASSUME NEW i \in at .. Len(rgn) PROVE i \in 1 .. Len(rgn) /\ Below(r, rgn[i])
  <2>1. i \in 1 .. Len(rgn)
    BY <1>1
  <2>2. r.base < rgn[i].base
    BY <1>2, Zenon
  <2>3. ~Below(rgn[i], r)
    BY <1>3, <2>1, <2>2 DEF Below
  <2> QED BY <2>1, <2>3, ClearApart, Zenon
<1>6. ASSUME NEW i \in 1 .. Len(t)
      PROVE  \/ i < at /\ i \in 1 .. (at - 1) /\ t[i] = rgn[i]
             \/ i = at /\ t[i] = r
             \/ at < i /\ i - 1 \in at .. Len(rgn) /\ t[i] = rgn[i - 1]
  <2>1. i \in 1 .. (Len(rgn) + 1)
    BY <1>2, Zenon
  <2>2. CASE i < at
    BY <1>1, <1>2, <2>1, <2>2
  <2>3. CASE i = at
    BY <1>1, <1>2, <2>1, <2>3
  <2>4. CASE at < i
    <3>1. ~(i < at) /\ i # at /\ i - 1 \in at .. Len(rgn)
      BY <1>1, <2>1, <2>4
    <3> QED BY <1>2, <2>1, <2>4, <3>1, Zenon
  <2> QED BY <2>1, <2>2, <2>3, <2>4
<1>7. \A i \in 1 .. Len(t) : InMemory(t[i])
  BY <1>3, <1>4, <1>5, <1>6, Zenon
<1>8. ASSUME NEW i \in 1 .. Len(t), NEW j \in 1 .. Len(t), i < j PROVE Below(t[i], t[j])
  <2>1. CASE i < at /\ i \in 1 .. (at - 1) /\ t[i] = rgn[i]
    <3>1. CASE j < at /\ j \in 1 .. (at - 1) /\ t[j] = rgn[j]
      BY <1>4, <1>8, <2>1, <3>1, Zenon DEF Table
    <3>2. CASE j = at /\ t[j] = r
      BY <1>4, <2>1, <3>2, Zenon
    <3>3. CASE at < j /\ j - 1 \in at .. Len(rgn) /\ t[j] = rgn[j - 1]
      <4>1. i < j - 1
        BY <2>1, <3>3
      <4> QED BY <1>4, <1>5, <2>1, <3>3, <4>1, Zenon DEF Table
    <3> QED BY <1>6, <3>1, <3>2, <3>3, Zenon
  <2>2. CASE i = at /\ t[i] = r
    <3>1. at < j /\ ~(j < at) /\ j # at
      BY <1>8, <2>2
    <3>2. j - 1 \in at .. Len(rgn) /\ t[j] = rgn[j - 1]
      BY <1>6, <3>1, Zenon
    <3> QED BY <1>5, <2>2, <3>2, Zenon
  <2>3. CASE at < i /\ i - 1 \in at .. Len(rgn) /\ t[i] = rgn[i - 1]
    <3>1. ~(j < at) /\ j # at /\ i - 1 < j - 1
      BY <1>8, <2>3
    <3>2. j - 1 \in at .. Len(rgn) /\ t[j] = rgn[j - 1]
      BY <1>6, <3>1, Zenon
    <3> QED BY <1>5, <2>3, <3>1, <3>2, Zenon DEF Table
  <2> QED BY <1>6, <2>1, <2>2, <2>3, Zenon
<1>9. Table(t) /\ Len(t) > 0
  <2>1. Len(t) > 0
    BY <1>1, <1>2
  <2> QED BY <1>2, <1>7, <1>8, <2>1, Zenon DEF Table
<1>10. ASSUME NEW a PROVE Held(t, a) <=> Held(rgn, a) \/ In(r, a)
  <2>1. ASSUME Held(t, a) PROVE Held(rgn, a) \/ In(r, a)
    BY <1>4, <1>5, <1>6, <2>1, Zenon DEF Held
  <2>2. ASSUME In(r, a) PROVE Held(t, a)
    <3>1. at \in 1 .. Len(t) /\ ~(at < at)
      BY <1>1, <1>2
    <3>2. t[at] = r
      BY <1>6, <3>1, Zenon
    <3> QED BY <2>2, <3>1, <3>2, Zenon DEF Held
  <2>3. ASSUME Held(rgn, a) PROVE Held(t, a)
    <3>1. PICK k \in 1 .. Len(rgn) : In(rgn[k], a)
      BY <2>3, Zenon DEF Held
    <3>2. CASE k < at
      <4>1. k \in 1 .. Len(t) /\ ~(at < k) /\ k # at
        BY <1>1, <1>2, <3>2
      <4>2. t[k] = rgn[k]
        BY <1>6, <4>1, Zenon
      <4> QED BY <3>1, <4>1, <4>2, Zenon DEF Held
    <3>3. CASE ~(k < at)
      <4>1. k + 1 \in 1 .. Len(t) /\ ~(k + 1 < at) /\ k + 1 # at /\ (k + 1) - 1 = k
        BY <1>1, <1>2, <3>3
      <4>2. t[k + 1] = rgn[(k + 1) - 1]
        BY <1>6, <4>1, Zenon
      <4>3. t[k + 1] = rgn[k]
        BY <4>1, <4>2, Zenon
      <4> QED BY <3>1, <4>1, <4>3, Zenon DEF Held
    <3> QED BY <3>2, <3>3, Zenon
  <2> QED BY <2>1, <2>2, <2>3, Zenon
<1> QED BY <1>9, <1>10, Zenon DEF Adds, t

\* The sums of the cases that follow, in numbers: r (rb, rs) begins where the
\* i-th region (ib, is) ends, and ends below a later one (jb, js).
LEMMA GapArith ==
    ASSUME NEW ib \in Nat, NEW is \in Nat, NEW rb \in Nat, NEW rs \in Nat,
           NEW jb \in Nat, NEW js \in Nat, rb = ib + is, ib + is < jb,
           jb + js <= rb \/ rb + rs <= jb, rb + rs # jb
    PROVE  ib + (is + rs) < jb
OBVIOUS

\* r ends where the next region (nb, ns) begins.
Joins(ib, is, rb, rs, nb, ns, m) ==
    /\ ib \in Nat /\ is \in Nat /\ is > 0 /\ rb \in Nat /\ rs \in Nat
    /\ nb \in Nat /\ ns \in Nat /\ m \in Nat
    /\ rb = ib + is /\ rb + rs = nb /\ nb + ns <= m

\* The three are one interval then.
Joined(ib, is, rb, rs, nb, ns, m) ==
    /\ is + rs \in Nat \ {0} /\ ib + (is + rs) <= m /\ ib + (is + rs) = nb
    /\ (is + rs) + ns \in Nat \ {0} /\ ib + ((is + rs) + ns) <= m
    /\ ib + ((is + rs) + ns) = nb + ns
    /\ \A a \in Nat : (ib <= a /\ a < ib + ((is + rs) + ns)) <=>
             \/ ib <= a /\ a < ib + is
             \/ rb <= a /\ a < rb + rs
             \/ nb <= a /\ a < nb + ns

\* The sums of that case.
LEMMA JoinArith ==
    ASSUME NEW ib, NEW is, NEW rb, NEW rs, NEW nb, NEW ns, NEW m,
           Joins(ib, is, rb, rs, nb, ns, m)
    PROVE  Joined(ib, is, rb, rs, nb, ns, m)
BY DEF Joins, Joined

\* Neighbours in a table do not touch.
LEMMA NeighboursApart ==
    ASSUME BelowTop, NEW rgn, Table(rgn), NEW i \in 1 .. Len(rgn), i < Len(rgn)
    PROVE  lmb_addrs_adjacent(rgn[i], rgn[i + 1]) = 0
<1>1. i + 1 \in 1 .. Len(rgn) /\ i < i + 1
  BY TableType
<1>2. InMemory(rgn[i]) /\ InMemory(rgn[i + 1]) /\ Below(rgn[i], rgn[i + 1])
  BY <1>1, Zenon DEF Table
<1>3. /\ rgn[i].base \in Nat /\ rgn[i].size \in Nat
      /\ rgn[i + 1].base \in Nat /\ rgn[i + 1].size \in Nat
  BY <1>2, InMemoryNumbers, Zenon
<1>4. /\ rgn[i + 1].base # rgn[i].base + rgn[i].size
      /\ rgn[i].base # rgn[i + 1].base + rgn[i + 1].size
  BY <1>2, <1>3 DEF Below
<1> QED BY <1>2, <1>4, AdjacentIs, Zenon

\* A region is one of a table, or the i-th.
LEMMA HeldSplit ==
    ASSUME NEW rgn, NEW i \in 1 .. Len(rgn), NEW a
    PROVE  Held(rgn, a) <=> In(rgn[i], a) \/ HeldBut(rgn, i, a)
BY Zenon DEF Held, HeldBut

\* A region takes in r's bytes and still does not touch the others.
LEMMA GrowKeeps ==
    ASSUME BelowTop, NEW rgn, Table(rgn), NEW r, NEW i \in 1 .. Len(rgn), NEW x, InMemory(x),
           \A j \in 1 .. Len(rgn) : j < i => Below(rgn[j], x),
           \A j \in 1 .. Len(rgn) : i < j => Below(x, rgn[j]),
           \A a \in Nat : In(x, a) <=> In(rgn[i], a) \/ In(r, a)
    PROVE  Adds(rgn, r, CoalesceNext([rgn EXCEPT ![i] = x], i))
<1> DEFINE t == [rgn EXCEPT ![i] = x]
<1>1. /\ Table(t) /\ Len(t) = Len(rgn)
      /\ \A a : Held(t, a) <=> In(x, a) \/ HeldBut(rgn, i, a)
  BY ReplaceKeeps, Zenon
<1> HIDE DEF t
<1>2. t \in Seq(Entry) /\ i \in 1 .. Len(t)
  BY <1>1, TableType, Zenon
<1>3. i < Len(t) => lmb_addrs_adjacent(t[i], t[i + 1]) = 0
  BY <1>1, <1>2, NeighboursApart, Zenon
<1>4. CoalesceNext(t, i) = t
  BY <1>3, Zenon DEF CoalesceNext
<1>5. Len(t) > 0
  BY <1>2
<1>6. \A a \in Nat : Held(t, a) <=> Held(rgn, a) \/ In(r, a)
  BY <1>1, HeldSplit, Zenon
<1> QED BY <1>1, <1>4, <1>5, <1>6, Zenon DEF Adds, t

\* r ends where the i-th region begins.
LEMMA ExtendDown ==
    ASSUME BelowTop, NEW rgn, Table(rgn), NEW r, InMemory(r), Clear(rgn, r),
           NEW i \in 1 .. Len(rgn), rgn[i].base = r.base + r.size,
           \A j \in 1 .. (i - 1) : lmb_addrs_adjacent(r, rgn[j]) = 0
    PROVE  Adds(rgn, r, CoalesceNext([rgn EXCEPT ![i] = Grown(rgn, r, i)], i))
<1> DEFINE x == Grown(rgn, r, i)
<1>1. Len(rgn) \in Nat /\ \A j \in 1 .. Len(rgn) : InMemory(rgn[j])
  BY TableType, Zenon DEF Table
<1>2. /\ r.base \in Nat /\ r.size \in Nat /\ r.size > 0
      /\ \A j \in 1 .. Len(rgn) : /\ rgn[j].base \in Nat /\ rgn[j].size \in Nat /\ rgn[j].size > 0
                                  /\ rgn[j].base + rgn[j].size <= MemEnd
  BY <1>1, InMemoryNumbers, Zenon
<1>3. x = Region(r.base, rgn[i].size + r.size)
  <2>1. lmb_addrs_adjacent(r, rgn[i]) > 0
    BY <1>1, AdjacentIs, Zenon
  <2>2. rgn[i].base - r.size = r.base /\ r.base < Space
    <3>1. /\ r.base \in Nat /\ r.size \in Nat /\ rgn[i].base \in Nat /\ rgn[i].size \in Nat
          /\ rgn[i].base + rgn[i].size <= MemEnd /\ rgn[i].base = r.base + r.size
          /\ MemEnd \in Nat /\ Space \in Nat /\ MemEnd < Space
      BY <1>2, Memory, Zenon DEF BelowTop
    <3> QED BY ONLY <3>1
  <2>3. Wrap(rgn[i].base - r.size) = r.base
    BY <1>2, <2>2, WrapSmall, Zenon
  <2> QED BY <2>1, <2>3, Zenon DEF Grown
<1> HIDE DEF x
<1>4. x.base = r.base /\ x.size = rgn[i].size + r.size
  BY <1>3, RegionFields, Zenon
<1>5. InMemory(x)
  <2>1. rgn[i].size + r.size \in Nat \ {0} /\ r.base + (rgn[i].size + r.size) <= MemEnd
    <3>1. /\ r.base \in Nat /\ r.size \in Nat /\ r.size > 0 /\ rgn[i].base = r.base + r.size
          /\ rgn[i].size \in Nat /\ rgn[i].base + rgn[i].size <= MemEnd /\ MemEnd \in Nat
      BY <1>2, Memory, Zenon
    <3> QED BY ONLY <3>1
  <2> QED BY <1>2, <1>3, <2>1, RegionInMemory, Zenon
<1>6. ASSUME NEW j \in 1 .. Len(rgn), j < i PROVE Below(rgn[j], x)
  <2>1. j \in 1 .. (i - 1)
    BY <1>1, <1>6
  <2>2. Below(rgn[j], rgn[i])
    BY <1>6, Zenon DEF Table
  <2>3. ~Below(r, rgn[j])
    BY <1>2, <2>2 DEF Below
  <2>4. Below(rgn[j], r)
    BY <2>1, <2>3, ClearApart, Zenon
  <2> QED BY <1>4, <2>4, Zenon DEF Below
<1>7. ASSUME NEW j \in 1 .. Len(rgn), i < j PROVE Below(x, rgn[j])
  <2>1. Below(rgn[i], rgn[j])
    BY <1>7, Zenon DEF Table
  <2>2. x.base + x.size = rgn[i].base + rgn[i].size
    BY <1>2, <1>4
  <2> QED BY <2>1, <2>2, Zenon DEF Below
<1>8. \A a \in Nat : In(x, a) <=> In(rgn[i], a) \/ In(r, a)
  BY <1>2, <1>4 DEF In
<1> QED BY <1>5, <1>6, <1>7, <1>8, GrowKeeps, Zenon DEF x

\* r begins where the i-th region ends, and does not reach the next one.
LEMMA ExtendUp ==
    ASSUME BelowTop, NEW rgn, Table(rgn), NEW r, InMemory(r), Clear(rgn, r),
           NEW i \in 1 .. Len(rgn), r.base = rgn[i].base + rgn[i].size,
           \A j \in 1 .. Len(rgn) : i < j => r.base + r.size # rgn[j].base
    PROVE  Adds(rgn, r, CoalesceNext([rgn EXCEPT ![i] = Grown(rgn, r, i)], i))
<1> DEFINE x == Grown(rgn, r, i)
<1>1. Len(rgn) \in Nat /\ \A j \in 1 .. Len(rgn) : InMemory(rgn[j])
  BY TableType, Zenon DEF Table
<1>2. /\ r.base \in Nat /\ r.size \in Nat /\ r.size > 0 /\ r.base + r.size <= MemEnd
      /\ \A j \in 1 .. Len(rgn) : rgn[j].base \in Nat /\ rgn[j].size \in Nat /\ rgn[j].size > 0
  BY <1>1, InMemoryNumbers, Zenon
<1>3. x = Region(rgn[i].base, rgn[i].size + r.size)
  <2>1. rgn[i].base # r.base + r.size
    BY <1>2
  <2>2. ~(lmb_addrs_adjacent(r, rgn[i]) > 0)
    BY <1>1, <2>1, AdjacentIs, Zenon
  <2> QED BY <2>2, Zenon DEF Grown
<1> HIDE DEF x
<1>4. x.base = rgn[i].base /\ x.size = rgn[i].size + r.size
  BY <1>3, RegionFields, Zenon
<1>5. InMemory(x)
  <2>1. /\ rgn[i].base \in Nat /\ rgn[i].size + r.size \in Nat \ {0}
        /\ rgn[i].base + (rgn[i].size + r.size) <= MemEnd
    BY <1>2, Memory
  <2> QED BY <1>3, <2>1, RegionInMemory, Zenon
<1>6. ASSUME NEW j \in 1 .. Len(rgn), j < i PROVE Below(rgn[j], x)
  BY <1>4, <1>6, Zenon DEF Table, Below
<1>7. ASSUME NEW j \in 1 .. Len(rgn), i < j PROVE Below(x, rgn[j])
  <2>1. Below(rgn[i], rgn[j])
    BY <1>7, Zenon DEF Table
  <2>2. \/ rgn[j].base + rgn[j].size <= r.base
        \/ r.base + r.size <= rgn[j].base
    BY Zenon DEF Clear
  <2>3. r.base + r.size # rgn[j].base
    BY <1>7, Zenon
  <2>4. /\ r.base \in Nat /\ r.size \in Nat /\ rgn[i].base \in Nat /\ rgn[i].size \in Nat
        /\ rgn[j].base \in Nat /\ rgn[j].size \in Nat
        /\ rgn[i].base + rgn[i].size < rgn[j].base /\ r.base = rgn[i].base + rgn[i].size
    BY <1>2, <2>1, Zenon DEF Below
  <2>5. rgn[i].base + (rgn[i].size + r.size) < rgn[j].base
    BY <2>2, <2>3, <2>4, GapArith, Zenon
  <2> QED BY <1>4, <2>5, Zenon DEF Below
<1>8. ASSUME NEW a \in Nat PROVE In(x, a) <=> In(rgn[i], a) \/ In(r, a)
  <2>1. /\ r.base \in Nat /\ r.size \in Nat /\ rgn[i].base \in Nat /\ rgn[i].size \in Nat
        /\ r.base = rgn[i].base + rgn[i].size
    BY <1>2, Zenon
  <2> QED BY ONLY <1>4, <2>1, a \in Nat, SMTT(30) DEF In
<1> QED BY <1>5, <1>6, <1>7, <1>8, GrowKeeps, Zenon DEF x

\* r fills the gap between the i-th region and the next one.
LEMMA ExtendJoins ==
    ASSUME BelowTop, NEW rgn, Table(rgn), NEW r, InMemory(r),
           NEW i \in 1 .. Len(rgn), r.base = rgn[i].base + rgn[i].size,
           i + 1 \in 1 .. Len(rgn), r.base + r.size = rgn[i + 1].base
    PROVE  Adds(rgn, r, CoalesceNext([rgn EXCEPT ![i] = Grown(rgn, r, i)], i))
<1> DEFINE x == Grown(rgn, r, i)
           next == rgn[i + 1]
           y == Region(rgn[i].base, x.size + next.size)
           t == [rgn EXCEPT ![i] = x]
           rm == lmb_remove_region(rgn, i + 1)
           new == [rm EXCEPT ![i] = y]
<1>1. /\ Len(rgn) \in Nat /\ rgn \in Seq(Interval) /\ rgn \in Seq(Entry)
      /\ \A j \in 1 .. Len(rgn) : InMemory(rgn[j])
  BY TableType, Zenon DEF Table
<1>2. /\ r.base \in Nat /\ r.size \in Nat /\ r.size > 0
      /\ rgn[i].base \in Nat /\ rgn[i].size \in Nat /\ rgn[i].size > 0
      /\ next.base \in Nat /\ next.size \in Nat /\ next.size > 0 /\ next.base + next.size <= MemEnd
      /\ r.base = rgn[i].base + rgn[i].size /\ r.base + r.size = next.base
  BY <1>1, InMemoryNumbers, Zenon
<1>0. Joined(rgn[i].base, rgn[i].size, r.base, r.size, next.base, next.size, MemEnd)
  <2> HIDE DEF next
  <2>1. MemEnd \in Nat
    BY Memory, Zenon
  <2>2. Joins(rgn[i].base, rgn[i].size, r.base, r.size, next.base, next.size, MemEnd)
    BY <1>2, <2>1, Zenon DEF Joins
  <2> QED BY <2>2, JoinArith, Zenon
<1>3. x = Region(rgn[i].base, rgn[i].size + r.size)
  <2>1. rgn[i].base # r.base + r.size
    BY ONLY <1>2
  <2>2. ~(lmb_addrs_adjacent(r, rgn[i]) > 0)
    BY <1>1, <2>1, AdjacentIs, Zenon
  <2> QED BY <2>2, Zenon DEF Grown
<1>4. x.base = rgn[i].base /\ x.size = rgn[i].size + r.size
  <2> HIDE DEF x
  <2> QED BY <1>3, RegionFields, Zenon
<1>5. InMemory(x) /\ x \in Entry
  <2> HIDE DEF x
  <2> QED BY <1>0, <1>2, <1>3, RegionInMemory, InMemoryNumbers, Zenon DEF Joined
<1> HIDE DEF x, next
<1>6. y.base = rgn[i].base /\ y.size = (rgn[i].size + r.size) + next.size
  <2>1. x.size + next.size = (rgn[i].size + r.size) + next.size
    BY <1>4, Zenon
  <2> QED BY <2>1, RegionFields, Zenon
<1>7. InMemory(y)
  <2>1. x.size + next.size \in Nat \ {0} /\ rgn[i].base + (x.size + next.size) <= MemEnd
    BY <1>0, <1>4, Zenon DEF Joined
  <2> QED BY <1>2, <2>1, RegionInMemory, Zenon
<1>8. /\ t \in Seq(Entry) /\ Len(t) = Len(rgn) /\ t[i] = x /\ t[i + 1] = next
      /\ i \in 1 .. Len(t) /\ i < Len(t)
  <2>1. /\ t \in Seq(Entry) /\ Len(t) = Len(rgn)
        /\ \A j \in 1 .. Len(rgn) : t[j] = IF j = i THEN x ELSE rgn[j]
    BY <1>1, <1>5, ReplaceType
  <2> HIDE DEF t
  <2>2. i + 1 # i /\ i < Len(rgn)
    BY <1>1
  <2> QED BY <2>1, <2>2, Zenon DEF next
<1>9. lmb_addrs_adjacent(t[i], t[i + 1]) # 0
  <2>1. next.base = x.base + x.size
    BY <1>0, <1>4, Zenon DEF Joined
  <2>2. lmb_addrs_adjacent(x, next) > 0
    BY <1>1, <1>5, <2>1, AdjacentIs, Zenon DEF next
  <2>3. lmb_addrs_adjacent(x, next) # 0
    BY <2>2
  <2> HIDE DEF t
  <2> QED BY <1>8, <2>3, Zenon
<1>10. CoalesceNext(t, i) = lmb_remove_region([rgn EXCEPT ![i] = y], i + 1)
  <2>1. CoalesceNext(t, i) =
            lmb_remove_region([t EXCEPT ![i] = Region(t[i].base, t[i].size + t[i + 1].size)], i + 1)
    <3> HIDE DEF t
    <3> QED BY <1>8, <1>9, CoalesceCases, Zenon
  <2>2. Region(t[i].base, t[i].size + t[i + 1].size) = y
    <3> HIDE DEF t
    <3> QED BY <1>4, <1>8, Zenon
  <2> HIDE DEF y
  <2>3. [t EXCEPT ![i] = y] = [rgn EXCEPT ![i] = y]
    BY <1>1, Zenon
  <2> QED BY <2>1, <2>2, <2>3, Zenon
<1>11. /\ Table(rm) /\ Len(rm) = Len(rgn) - 1
       /\ \A j \in 1 .. (Len(rgn) - 1) : rm[j] = IF j < i + 1 THEN rgn[j] ELSE rgn[j + 1]
  BY <1>1, RemoveKeeps, RemoveType, Zenon
<1>12. lmb_remove_region([rgn EXCEPT ![i] = y], i + 1) = new
  <2> DEFINE u == [rgn EXCEPT ![i] = y]
             l == lmb_remove_region(u, i + 1)
  <2>1. y \in Entry
    BY <1>7, InMemoryNumbers, Zenon
  <2> HIDE DEF y
  <2>2. /\ u \in Seq(Entry) /\ Len(u) = Len(rgn)
        /\ \A j \in 1 .. Len(rgn) : u[j] = IF j = i THEN y ELSE rgn[j]
    BY <1>1, <2>1, ReplaceType
  <2> HIDE DEF u
  <2>3. /\ l \in Seq(Entry) /\ Len(l) = Len(rgn) - 1
        /\ \A j \in 1 .. (Len(rgn) - 1) : l[j] = IF j < i + 1 THEN u[j] ELSE u[j + 1]
    BY <2>2, RemoveType
  <2> HIDE DEF l
  <2>4. rm \in Seq(Entry) /\ i \in 1 .. Len(rm)
    BY <1>1, <1>11, TableType
  <2> HIDE DEF rm
  <2>5. /\ new \in Seq(Entry) /\ Len(new) = Len(rgn) - 1
        /\ \A j \in 1 .. (Len(rgn) - 1) : new[j] = IF j = i THEN y ELSE rm[j]
    BY <1>11, <2>1, <2>4, ReplaceType
  <2> HIDE DEF new
  <2>6. ASSUME NEW j \in 1 .. (Len(rgn) - 1) PROVE l[j] = new[j]
    <3>1. /\ j \in 1 .. Len(rgn) /\ j + 1 \in 1 .. Len(rgn)
          /\ j = i => j < i + 1
          /\ ~(j < i + 1) => j + 1 # i
      BY <1>1
    <3> QED BY <1>11, <2>2, <2>3, <2>5, <3>1, Zenon
  <2>7. l = new
    BY <2>3, <2>5, <2>6, SMTT(30)
  <2> QED BY <2>7, Zenon DEF l, u
<1> HIDE DEF rm, y
<1>13. i \in 1 .. Len(rm)
  BY <1>1, <1>11
<1>14. ASSUME NEW j \in 1 .. Len(rm), j < i PROVE Below(rm[j], y)
  <2>1. j \in 1 .. (Len(rgn) - 1) /\ j < i + 1 /\ j \in 1 .. Len(rgn)
    BY <1>1, <1>11, <1>14
  <2>2. rm[j] = rgn[j]
    BY <1>11, <2>1, Zenon
  <2> QED BY <1>6, <1>14, <2>1, <2>2, Zenon DEF Table, Below
<1>15. ASSUME NEW j \in 1 .. Len(rm), i < j PROVE Below(y, rm[j])
  <2>1. /\ j \in 1 .. (Len(rgn) - 1) /\ ~(j < i + 1) /\ j + 1 \in 1 .. Len(rgn)
        /\ i + 1 < j + 1
    BY <1>1, <1>11, <1>15
  <2>2. rm[j] = rgn[j + 1]
    BY <1>11, <2>1, Zenon
  <2>3. Below(next, rm[j])
    BY <2>1, <2>2, Zenon DEF Table, next
  <2>4. y.base + y.size = next.base + next.size
    BY <1>0, <1>6, Zenon DEF Joined
  <2> QED BY <2>3, <2>4, Zenon DEF Below
<1>16. /\ Table(new) /\ Len(new) = Len(rm)
       /\ \A a : Held(new, a) <=> In(y, a) \/ HeldBut(rm, i, a)
  BY <1>7, <1>11, <1>13, <1>14, <1>15, ReplaceKeeps, Zenon
<1> HIDE DEF new
<1>17. ASSUME NEW a \in Nat PROVE Held(new, a) <=> Held(rgn, a) \/ In(r, a)
  <2>1. In(y, a) <=> In(rgn[i], a) \/ In(r, a) \/ In(next, a)
    BY <1>0, <1>6, Zenon DEF In, Joined
  <2>2. ASSUME HeldBut(rm, i, a) PROVE Held(rgn, a)
    <3>1. PICK j \in 1 .. Len(rm) : In(rm[j], a)
      BY <2>2, Zenon DEF HeldBut
    <3>2. j \in 1 .. (Len(rgn) - 1) /\ j \in 1 .. Len(rgn) /\ j + 1 \in 1 .. Len(rgn)
      BY <1>1, <1>11
    <3> QED BY <1>11, <3>1, <3>2, Zenon DEF Held
  <2>3. ASSUME NEW k \in 1 .. Len(rgn), In(rgn[k], a), k # i, k # i + 1
        PROVE  HeldBut(rm, i, a)
    <3>1. CASE k < i
      <4>1. k \in 1 .. Len(rm) /\ k \in 1 .. (Len(rgn) - 1) /\ k < i + 1
        BY <1>1, <1>11, <3>1
      <4> QED BY <1>11, <2>3, <4>1, Zenon DEF HeldBut
    <3>2. CASE ~(k < i)
      <4>1. /\ k - 1 \in 1 .. Len(rm) /\ k - 1 \in 1 .. (Len(rgn) - 1) /\ ~(k - 1 < i + 1)
            /\ k - 1 # i /\ (k - 1) + 1 = k
        BY <1>1, <1>11, <2>3, <3>2
      <4>2. rm[k - 1] = rgn[k]
        BY <1>11, <4>1, Zenon
      <4> QED BY <2>3, <4>1, <4>2, Zenon DEF HeldBut
    <3> QED BY <3>1, <3>2, Zenon
  <2>4. Held(rgn, a) => In(rgn[i], a) \/ In(next, a) \/ HeldBut(rm, i, a)
    BY <2>3, Zenon DEF Held, next
  <2>5. In(rgn[i], a) \/ In(next, a) => Held(rgn, a)
    BY Zenon DEF Held, next
  <2> QED BY <1>16, <2>1, <2>2, <2>4, <2>5, Zenon
<1>18. Len(new) > 0
  BY <1>13, <1>16
<1>19. Adds(rgn, r, new)
  BY <1>16, <1>17, <1>18, Zenon DEF Adds
<1> QED BY <1>10, <1>12, <1>19, Zenon DEF t, x

\* The first region that touches r takes r's bytes in.
LEMMA ExtendKeeps ==
    ASSUME BelowTop, NEW rgn, Table(rgn), NEW r, InMemory(r), Clear(rgn, r),
           NEW i \in 1 .. Len(rgn), lmb_addrs_adjacent(r, rgn[i]) # 0,
           \A j \in 1 .. (i - 1) : lmb_addrs_adjacent(r, rgn[j]) = 0
    PROVE  Adds(rgn, r, CoalesceNext([rgn EXCEPT ![i] = Grown(rgn, r, i)], i))
<1>1. Len(rgn) \in Nat /\ \A j \in 1 .. Len(rgn) : InMemory(rgn[j])
  BY TableType, Zenon DEF Table
<1>2. CASE rgn[i].base = r.base + r.size
  BY <1>2, ExtendDown, Zenon
<1>3. CASE r.base = rgn[i].base + rgn[i].size
  <2>1. CASE \A j \in 1 .. Len(rgn) : i < j => r.base + r.size # rgn[j].base
    BY <1>3, <2>1, ExtendUp, Zenon
  <2>2. ASSUME NEW j \in 1 .. Len(rgn), i < j, r.base + r.size = rgn[j].base
        PROVE  Adds(rgn, r, CoalesceNext([rgn EXCEPT ![i] = Grown(rgn, r, i)], i))
    <3>1. i + 1 \in 1 .. Len(rgn) /\ i < i + 1 /\ (j = i + 1 \/ i + 1 < j)
      BY <1>1, <2>2
    <3>2. CASE j = i + 1
      BY <1>3, <2>2, <3>1, <3>2, ExtendJoins, Zenon
    <3>3. CASE i + 1 < j
      <4>1. /\ rgn[i].base + rgn[i].size < rgn[i + 1].base
            /\ rgn[i + 1].base + rgn[i + 1].size < rgn[j].base
        BY <3>1, <3>3, Zenon DEF Table, Below
      <4>2. \/ rgn[i + 1].base + rgn[i + 1].size <= r.base
            \/ r.base + r.size <= rgn[i + 1].base
        BY <3>1, Zenon DEF Clear
      <4>3. /\ r.base \in Nat /\ r.size \in Nat /\ rgn[j].base \in Nat
            /\ rgn[i + 1].base \in Nat /\ rgn[i + 1].size \in Nat /\ rgn[i + 1].size > 0
            /\ rgn[i].base \in Nat /\ rgn[i].size \in Nat
        BY <1>1, <3>1, InMemoryNumbers, Zenon
      <4>4. FALSE
        BY ONLY <1>3, <2>2, <4>1, <4>2, <4>3, SMTT(30)
      <4> QED BY <4>4, Zenon
    <3> QED BY <3>1, <3>2, <3>3, Zenon
  <2> QED BY <2>1, <2>2, Zenon
<1> QED BY <1>1, <1>2, <1>3, AdjacentIs, Zenon

\* lmb_add_region of what is clear of the table: it fails and changes
\* nothing, or adds exactly the bytes of r.
LEMMA AddKeeps ==
    ASSUME BelowTop, NEW rgn, Table(rgn), NEW r, InMemory(r), Clear(rgn, r)
    PROVE  /\ lmb_add_region(rgn, r).fails => lmb_add_region(rgn, r).rgn = rgn
           /\ ~lmb_add_region(rgn, r).fails => Adds(rgn, r, lmb_add_region(rgn, r).rgn)
<1> DEFINE out == lmb_add_region(rgn, r)
<1>1. rgn \in Seq(Entry) /\ \A j \in 1 .. Len(rgn) : InMemory(rgn[j])
  BY TableType, Zenon DEF Table
<1>2. \/ FillsEmpty(rgn, r, out) \/ FindsFull(rgn, r, out) \/ Inserts(rgn, r, out)
      \/ HasIt(rgn, r, out) \/ Extends(rgn, r, out)
  BY <1>1, AddCases, Zenon
<1> HIDE DEF out
<1>3. ~FillsEmpty(rgn, r, out)
  <2> SUFFICES ASSUME Len(rgn) = 1, rgn[1].size = 0 PROVE FALSE
    BY Zenon DEF FillsEmpty
  <2>1. 1 \in 1 .. Len(rgn)
    OBVIOUS
  <2>2. rgn[1].size \in Nat /\ rgn[1].size > 0
    BY <1>1, <2>1, InMemoryNumbers, Zenon
  <2> QED BY <2>2
<1>4. ~HasIt(rgn, r, out)
  <2> SUFFICES ASSUME NEW i \in 1 .. Len(rgn), rgn[i] = r PROVE FALSE
    BY Zenon DEF HasIt
  <2>1. r.base + r.size <= r.base \/ r.base + r.size <= r.base
    BY Zenon DEF Clear
  <2>2. r.base \in Nat /\ r.size \in Nat /\ r.size > 0
    BY InMemoryNumbers, Zenon
  <2> QED BY <2>1, <2>2
<1>5. ASSUME FindsFull(rgn, r, out) PROVE out.fails = TRUE /\ out.rgn = rgn
  BY <1>5, Zenon DEF FindsFull
<1>6. ASSUME Inserts(rgn, r, out) PROVE out.fails = FALSE /\ Adds(rgn, r, out.rgn)
  <2>1. out.fails = FALSE /\ out.rgn = Insert(rgn, r)
    BY <1>6, Zenon DEF Inserts
  <2>2. \A j \in 1 .. Len(rgn) : lmb_addrs_adjacent(r, rgn[j]) = 0
    BY <1>6, Zenon DEF Inserts
  <2> QED BY <2>1, <2>2, InsertKeeps, Zenon
<1>7. ASSUME Extends(rgn, r, out) PROVE out.fails = FALSE /\ Adds(rgn, r, out.rgn)
  <2>1. PICK i \in 1 .. Len(rgn) :
        /\ lmb_addrs_adjacent(r, rgn[i]) # 0
        /\ \A j \in 1 .. (i - 1) : lmb_addrs_adjacent(r, rgn[j]) = 0
        /\ out = [rgn |-> CoalesceNext([rgn EXCEPT ![i] = Grown(rgn, r, i)], i), fails |-> FALSE]
    BY <1>7, Zenon DEF Extends
  <2> DEFINE c == CoalesceNext([rgn EXCEPT ![i] = Grown(rgn, r, i)], i)
  <2>2. Adds(rgn, r, c)
    BY <2>1, ExtendKeeps, Zenon
  <2>3. out = [rgn |-> c, fails |-> FALSE]
    BY <2>1, Zenon
  <2> HIDE DEF c
  <2>4. out.rgn = c /\ out.fails = FALSE
    BY <2>3, Zenon
  <2> QED BY <2>2, <2>4, Zenon
<1> QED BY <1>2, <1>3, <1>4, <1>5, <1>6, <1>7, Zenon DEF out

\* What lmb_free may do at the i-th region, which holds r.
Holds(rgn, r, i) == rgn[i].base <= r.base /\ End(r) <= End(rgn[i])
FreesAll(rgn, r, i, out) ==
    /\ rgn[i].base = r.base /\ End(rgn[i]) = End(r)
    /\ out = [rgn |-> lmb_remove_region(rgn, i), fails |-> FALSE, cut |-> FALSE]
FreesFront(rgn, r, i, out) ==
    /\ rgn[i].base = r.base /\ End(rgn[i]) # End(r)
    /\ out = [rgn |-> [rgn EXCEPT ![i] = FrontFreed(rgn[i], r)], fails |-> FALSE, cut |-> FALSE]
FreesBack(rgn, r, i, out) ==
    /\ rgn[i].base # r.base /\ End(rgn[i]) = End(r)
    /\ out = [rgn |-> [rgn EXCEPT ![i] = Region(rgn[i].base, rgn[i].size - r.size)],
              fails |-> FALSE, cut |-> FALSE]
Front(rgn, r, i) == [rgn EXCEPT ![i] = Region(rgn[i].base, Wrap(r.base - rgn[i].base))]
Rest(rgn, r, i) == Region(End(r), Wrap(End(rgn[i]) - End(r)))
Splits(rgn, r, i, out) ==
    /\ rgn[i].base # r.base /\ End(rgn[i]) # End(r)
    /\ out = [rgn |-> lmb_add_region(Front(rgn, r, i), Rest(rgn, r, i)).rgn,
              fails |-> lmb_add_region(Front(rgn, r, i), Rest(rgn, r, i)).fails,
              cut |-> lmb_add_region(Front(rgn, r, i), Rest(rgn, r, i)).fails]
FreesAt(rgn, r, i, out) ==
    \/ FreesAll(rgn, r, i, out) \/ FreesFront(rgn, r, i, out)
    \/ FreesBack(rgn, r, i, out) \/ Splits(rgn, r, i, out)

\* lmb_free does one of these.
LEMMA FreeCases ==
    ASSUME NEW rgn \in Seq(Entry), NEW r, NEW out, out = lmb_free(rgn, r)
    PROVE  \/ /\ \A i \in 1 .. Len(rgn) : ~Holds(rgn, r, i)
              /\ out = [rgn |-> rgn, fails |-> TRUE, cut |-> FALSE]
           \/ \E i \in 1 .. Len(rgn) : Holds(rgn, r, i) /\ FreesAt(rgn, r, i, out)
<1> DEFINE hits == {i \in DOMAIN rgn : rgn[i].base <= r.base /\ End(r) <= End(rgn[i])}
           i == First(hits)
<1>1. DOMAIN rgn = 1 .. Len(rgn) /\ Len(rgn) \in Nat
  OBVIOUS
<1>2. CASE hits = {}
  <2>1. out = [rgn |-> rgn, fails |-> TRUE, cut |-> FALSE]
    BY <1>2, Zenon DEF lmb_free
  <2>2. \A k \in 1 .. Len(rgn) : ~Holds(rgn, r, k)
    BY <1>1, <1>2, Zenon DEF Holds
  <2> QED BY <2>1, <2>2, Zenon
<1>3. CASE hits # {}
  <2>1. hits \subseteq Nat
    BY <1>1
  <2>2. i \in hits
    <3> HIDE DEF hits
    <3> QED BY <1>3, <2>1, FirstIn, Zenon
  <2>3. i \in 1 .. Len(rgn) /\ Holds(rgn, r, i)
    BY <1>1, <2>2, Zenon DEF Holds
  <2>4. rgn[i] \in Entry
    <3> HIDE DEF i
    <3> QED BY <2>3
  <2>5. CASE rgn[i].base = r.base /\ End(rgn[i]) = End(r)
    <3>1. out = [rgn |-> lmb_remove_region(rgn, i), fails |-> FALSE, cut |-> FALSE]
      BY <1>3, <2>5, Zenon DEF lmb_free
    <3> HIDE DEF i
    <3> QED BY <2>3, <2>5, <3>1, Zenon DEF FreesAt, FreesAll
  <2>6. CASE rgn[i].base = r.base /\ End(rgn[i]) # End(r)
    <3>1. out = [rgn |-> [rgn EXCEPT ![i] = FrontFreed(rgn[i], r)], fails |-> FALSE, cut |-> FALSE]
      BY <1>3, <2>6, Zenon DEF lmb_free
    <3> HIDE DEF i
    <3> QED BY <2>3, <2>6, <3>1, Zenon DEF FreesAt, FreesFront
  <2>7. CASE rgn[i].base # r.base /\ End(rgn[i]) = End(r)
    <3>1. out = [rgn |-> [rgn EXCEPT ![i] = [rgn[i] EXCEPT !.size = rgn[i].size - r.size]],
                 fails |-> FALSE, cut |-> FALSE]
      BY <1>3, <2>7, Zenon DEF lmb_free
    <3> HIDE DEF i
    <3> DEFINE n == rgn[i].size - r.size
    <3> HIDE DEF n
    <3>2. [rgn[i] EXCEPT !.size = n] = Region(rgn[i].base, n)
      BY <2>4, Resized, Zenon
    <3>3. out = [rgn |-> [rgn EXCEPT ![i] = Region(rgn[i].base, n)], fails |-> FALSE, cut |-> FALSE]
      BY <3>1, <3>2, Zenon DEF n
    <3> QED BY <2>3, <2>7, <3>3, Zenon DEF FreesAt, FreesBack, n
  <2>8. CASE rgn[i].base # r.base /\ End(rgn[i]) # End(r)
    <3> DEFINE n == Wrap(r.base - rgn[i].base)
               h == [rgn EXCEPT ![i] = [rgn[i] EXCEPT !.size = n]]
    <3>1. out = [rgn |-> lmb_add_region(h, Rest(rgn, r, i)).rgn,
                 fails |-> lmb_add_region(h, Rest(rgn, r, i)).fails,
                 cut |-> lmb_add_region(h, Rest(rgn, r, i)).fails]
      BY <1>3, <2>8, Zenon DEF lmb_free, Rest
    <3> HIDE DEF i
    <3>2. h = Front(rgn, r, i)
      <4> HIDE DEF n
      <4>1. [rgn[i] EXCEPT !.size = n] = Region(rgn[i].base, n)
        BY <2>4, Resized, Zenon
      <4> QED BY <4>1, Zenon DEF Front, n
    <3> HIDE DEF h
    <3> QED BY <2>3, <2>8, <3>1, <3>2, Zenon DEF FreesAt, Splits
  <2> QED BY <2>5, <2>6, <2>7, <2>8, Zenon
<1> QED BY <1>2, <1>3, Zenon

\* The type of what lmb_free returns.
LEMMA FreeType ==
    ASSUME NEW rgn \in Seq(Entry), NEW r \in Entry
    PROVE  lmb_free(rgn, r).rgn \in Seq(Entry) /\ lmb_free(rgn, r).cut \in BOOLEAN
<1> DEFINE out == lmb_free(rgn, r)
<1> HIDE DEF out
<1>1. CASE out = [rgn |-> rgn, fails |-> TRUE, cut |-> FALSE]
  <2>1. out.rgn = rgn /\ out.cut = FALSE
    BY <1>1, Zenon
  <2> QED BY <2>1, Zenon DEF out
<1>2. ASSUME NEW i \in 1 .. Len(rgn), FreesAt(rgn, r, i, out)
      PROVE  out.rgn \in Seq(Entry) /\ out.cut \in BOOLEAN
  <2>1. rgn[i] \in Entry
    OBVIOUS
  <2>2. rgn[i].base + rgn[i].size \in Int /\ r.base + r.size \in Int /\ r.base - rgn[i].base \in Int
    BY <2>1, SMTT(30) DEF Entry
  <2>3. End(r) \in Nat /\ End(rgn[i]) \in Nat /\ Wrap(r.base - rgn[i].base) \in Nat
    BY <2>2, WrapType, Zenon DEF End
  <2>4. CASE FreesAll(rgn, r, i, out)
    <3>1. lmb_remove_region(rgn, i) \in Seq(Entry)
      BY RemoveType, Zenon
    <3>2. out.rgn = lmb_remove_region(rgn, i) /\ out.cut = FALSE
      BY <2>4, Zenon DEF FreesAll
    <3> QED BY <3>1, <3>2, Zenon
  <2>5. CASE FreesFront(rgn, r, i, out)
    <3> DEFINE x == FrontFreed(rgn[i], r)
    <3>1. x \in Entry
      BY <2>1, <2>3, SMTT(30) DEF FrontFreed, Entry, Region
    <3> HIDE DEF x
    <3>2. [rgn EXCEPT ![i] = x] \in Seq(Entry)
      BY <3>1
    <3>3. out.rgn = [rgn EXCEPT ![i] = x] /\ out.cut = FALSE
      BY <2>5, Zenon DEF FreesFront, x
    <3> QED BY <3>2, <3>3, Zenon
  <2>6. CASE FreesBack(rgn, r, i, out)
    <3> DEFINE x == Region(rgn[i].base, rgn[i].size - r.size)
    <3>1. x \in Entry
      BY <2>1, SMTT(30) DEF Entry, Region
    <3> HIDE DEF x
    <3>2. [rgn EXCEPT ![i] = x] \in Seq(Entry)
      BY <3>1
    <3>3. out.rgn = [rgn EXCEPT ![i] = x] /\ out.cut = FALSE
      BY <2>6, Zenon DEF FreesBack, x
    <3> QED BY <3>2, <3>3, Zenon
  <2>7. CASE Splits(rgn, r, i, out)
    <3>1. Region(rgn[i].base, Wrap(r.base - rgn[i].base)) \in Entry
      BY <2>1, <2>3 DEF Entry, Region
    <3>2. Front(rgn, r, i) \in Seq(Entry)
      BY <3>1 DEF Front
    <3>3. End(rgn[i]) - End(r) \in Int
      BY <2>3
    <3>4. Wrap(End(rgn[i]) - End(r)) \in Nat
      BY <3>3, WrapType, Zenon
    <3>5. Rest(rgn, r, i) \in Entry
      BY <2>3, <3>4 DEF Rest, Entry, Region
    <3> DEFINE s == lmb_add_region(Front(rgn, r, i), Rest(rgn, r, i))
    <3>6. s.rgn \in Seq(Entry) /\ s.fails \in BOOLEAN
      BY <3>2, <3>5, AddType, Zenon
    <3>7. out = [rgn |-> s.rgn, fails |-> s.fails, cut |-> s.fails]
      BY <2>7, Zenon DEF Splits
    <3> HIDE DEF s
    <3>8. out.rgn = s.rgn /\ out.cut = s.fails
      BY <3>7, Zenon
    <3> QED BY <3>6, <3>8, Zenon
  <2> QED BY <1>2, <2>4, <2>5, <2>6, <2>7, Zenon DEF FreesAt
<1> QED BY <1>1, <1>2, FreeCases, Zenon DEF out

\* The table holds the bytes it held, without those of r.
Takes(rgn, r, new) ==
    /\ Table(new)
    /\ \A a \in Nat : Held(new, a) <=> Held(rgn, a) /\ ~In(r, a)

\* r (rb, rs) lies in the region (ib, is), in numbers.
Inside(ib, is, rb, rs) ==
    /\ ib \in Nat /\ is \in Nat /\ is > 0 /\ rb \in Nat /\ rs \in Nat /\ rs > 0
    /\ ib <= rb /\ rb + rs <= ib + is

\* What is left: the bytes after r; the bytes before it; both.
LeftAfter(ib, is, rb, rs) ==
    /\ is - rs \in Nat \ {0} /\ ib <= rb + rs /\ (rb + rs) + (is - rs) = ib + is
    /\ \A a \in Nat : (rb + rs <= a /\ a < (rb + rs) + (is - rs)) <=>
            (ib <= a /\ a < ib + is) /\ ~(rb <= a /\ a < rb + rs)
LeftBefore(ib, is, rb, rs) ==
    /\ is - rs \in Nat \ {0} /\ ib + (is - rs) <= ib + is
    /\ \A a \in Nat : (ib <= a /\ a < ib + (is - rs)) <=>
            (ib <= a /\ a < ib + is) /\ ~(rb <= a /\ a < rb + rs)
LeftBoth(ib, is, rb, rs) ==
    /\ rb - ib \in Nat \ {0} /\ ib + (rb - ib) <= ib + is
    /\ (ib + is) - (rb + rs) \in Nat \ {0}
    /\ (rb + rs) + ((ib + is) - (rb + rs)) = ib + is
    /\ \A a \in Nat : (rb + rs <= a /\ a < (rb + rs) + ((ib + is) - (rb + rs))) =>
            (ib <= a /\ a < ib + is) /\ ~(ib <= a /\ a < ib + (rb - ib))
    /\ \A a \in Nat : (\/ ib <= a /\ a < ib + (rb - ib)
                       \/ rb + rs <= a /\ a < (rb + rs) + ((ib + is) - (rb + rs))) <=>
            (ib <= a /\ a < ib + is) /\ ~(rb <= a /\ a < rb + rs)

\* The arithmetic of the cases of lmb_free.
LEMMA InsideArith ==
    ASSUME NEW ib, NEW is, NEW rb, NEW rs, Inside(ib, is, rb, rs)
    PROVE  /\ ib = rb /\ ib + is # rb + rs => LeftAfter(ib, is, rb, rs)
           /\ ib # rb /\ ib + is = rb + rs => LeftBefore(ib, is, rb, rs)
           /\ ib # rb /\ ib + is # rb + rs => LeftBoth(ib, is, rb, rs)
<1>1. ib = rb /\ ib + is # rb + rs => LeftAfter(ib, is, rb, rs)
  BY DEF Inside, LeftAfter
<1>2. ib # rb /\ ib + is = rb + rs => LeftBefore(ib, is, rb, rs)
  BY DEF Inside, LeftBefore
<1>3. ib # rb /\ ib + is # rb + rs => LeftBoth(ib, is, rb, rs)
  BY DEF Inside, LeftBoth
<1> QED BY <1>1, <1>2, <1>3, Zenon

\* A byte is in one region of a table at most.
LEMMA InOne ==
    ASSUME NEW rgn, Table(rgn), NEW i \in 1 .. Len(rgn), NEW a \in Nat, In(rgn[i], a)
    PROVE  ~HeldBut(rgn, i, a)
<1> SUFFICES ASSUME NEW j \in 1 .. Len(rgn), j # i, In(rgn[j], a) PROVE FALSE
  BY Zenon DEF HeldBut
<1>1. /\ rgn[i].base \in Nat /\ rgn[i].size \in Nat
      /\ rgn[j].base \in Nat /\ rgn[j].size \in Nat
  BY InMemoryNumbers, Zenon DEF Table
<1>2. /\ i < j => rgn[i].base + rgn[i].size < rgn[j].base
      /\ j < i => rgn[j].base + rgn[j].size < rgn[i].base
  BY Zenon DEF Table, Below
<1>3. i < j \/ j < i
  OBVIOUS
<1> QED BY <1>1, <1>2, <1>3, SMTT(30) DEF In

\* A region shrinks.
LEMMA ShrinkKeeps ==
    ASSUME NEW rgn, Table(rgn), NEW i \in 1 .. Len(rgn), NEW x, InMemory(x),
           rgn[i].base <= x.base, x.base + x.size <= rgn[i].base + rgn[i].size
    PROVE  /\ Table([rgn EXCEPT ![i] = x])
           /\ \A a : Held([rgn EXCEPT ![i] = x], a) <=> In(x, a) \/ HeldBut(rgn, i, a)
<1>1. /\ x.base \in Nat /\ x.size \in Nat
      /\ \A j \in 1 .. Len(rgn) : rgn[j].base \in Nat /\ rgn[j].size \in Nat
  BY InMemoryNumbers, Zenon DEF Table
<1>2. ASSUME NEW j \in 1 .. Len(rgn), j < i PROVE Below(rgn[j], x)
  <2>1. Below(rgn[j], rgn[i])
    BY <1>2, Zenon DEF Table
  <2> QED BY <1>1, <2>1, SMTT(30) DEF Below
<1>3. ASSUME NEW j \in 1 .. Len(rgn), i < j PROVE Below(x, rgn[j])
  <2>1. Below(rgn[i], rgn[j])
    BY <1>3, Zenon DEF Table
  <2> QED BY <1>1, <2>1, SMTT(30) DEF Below
<1> QED BY <1>2, <1>3, ReplaceKeeps, Zenon

\* lmb_free of what the table holds takes exactly the bytes of r away, unless
\* it cuts a region off.
LEMMA FreeKeeps ==
    ASSUME BelowTop, NEW rgn, Table(rgn), NEW r, InMemory(r), HeldWhole(rgn, r),
           ~lmb_free(rgn, r).cut
    PROVE  Takes(rgn, r, lmb_free(rgn, r).rgn)
<1> DEFINE out == lmb_free(rgn, r)
<1>1. rgn \in Seq(Entry) /\ \A j \in 1 .. Len(rgn) : InMemory(rgn[j])
  BY TableType, Zenon DEF Table
<1>2. /\ End(r) = r.base + r.size
      /\ \A j \in 1 .. Len(rgn) : End(rgn[j]) = rgn[j].base + rgn[j].size
  BY <1>1, EndIs, Zenon
<1>3. \E i \in 1 .. Len(rgn) : Holds(rgn, r, i)
  BY <1>2, HeldInOne, Zenon DEF Holds
<1>4. PICK i \in 1 .. Len(rgn) : Holds(rgn, r, i) /\ FreesAt(rgn, r, i, out)
  BY <1>1, <1>3, FreeCases, Zenon
<1> HIDE DEF out
<1>5. Inside(rgn[i].base, rgn[i].size, r.base, r.size)
  BY <1>1, <1>2, <1>4, InMemoryNumbers, Zenon DEF Holds, Inside
<1>6. /\ rgn[i].base + rgn[i].size <= MemEnd /\ MemEnd \in Nat
      /\ r.base \in Nat /\ r.size \in Nat /\ r.base + r.size \in Nat
      /\ rgn[i].base \in Nat /\ rgn[i].size \in Nat
  <2>1. r.base \in Nat /\ r.size \in Nat
    BY InMemoryNumbers, Zenon
  <2>2. r.base + r.size \in Nat
    BY <2>1
  <2> QED BY <1>1, <2>1, <2>2, InMemoryNumbers, Memory, Zenon
<1>7. ASSUME NEW a \in Nat, In(r, a) PROVE In(rgn[i], a) /\ ~HeldBut(rgn, i, a)
  <2>1. In(rgn[i], a)
    BY <1>5, <1>7 DEF Inside, In
  <2> QED BY <2>1, InOne, Zenon
<1>8. \A a \in Nat : (Held(rgn, a) /\ ~In(r, a)) <=>
                        (In(rgn[i], a) /\ ~In(r, a)) \/ HeldBut(rgn, i, a)
  BY <1>7, HeldSplit, Zenon
<1>9. CASE FreesAll(rgn, r, i, out)
  <2>1. out.rgn = lmb_remove_region(rgn, i)
    BY <1>9, Zenon DEF FreesAll
  <2>2. rgn[i].base = r.base /\ rgn[i].base + rgn[i].size = r.base + r.size
    BY <1>2, <1>9, Zenon DEF FreesAll
  <2>3. \A a : In(rgn[i], a) <=> In(r, a)
    BY <2>2, Zenon DEF In
  <2> QED BY <1>8, <2>1, <2>3, RemoveKeeps, Zenon DEF Takes, out
<1>10. CASE FreesFront(rgn, r, i, out)
  <2> DEFINE x == Region(r.base + r.size, rgn[i].size - r.size)
  <2>1. LeftAfter(rgn[i].base, rgn[i].size, r.base, r.size)
    BY <1>2, <1>5, <1>10, InsideArith, Zenon DEF FreesFront
  <2>2. x.base = r.base + r.size /\ x.size = rgn[i].size - r.size
    BY ONLY RegionFields, Zenon
  <2>3. FrontFreed(rgn[i], r) = x
    BY <1>2, Zenon DEF FrontFreed
  <2>4. InMemory(x)
    BY <1>6, <2>1, RegionInMemory, Zenon DEF LeftAfter
  <2> HIDE DEF x
  <2>5. rgn[i].base <= x.base /\ x.base + x.size <= rgn[i].base + rgn[i].size
    <3>1. rgn[i].base + rgn[i].size <= rgn[i].base + rgn[i].size
      BY <1>6
    <3> QED BY <2>1, <2>2, <3>1, Zenon DEF LeftAfter
  <2>6. \A a \in Nat : In(x, a) <=> In(rgn[i], a) /\ ~In(r, a)
    BY <2>1, <2>2, Zenon DEF LeftAfter, In
  <2>7. out.rgn = [rgn EXCEPT ![i] = x]
    <3>1. out = [rgn |-> [rgn EXCEPT ![i] = x], fails |-> FALSE, cut |-> FALSE]
      BY <1>10, <2>3, Zenon DEF FreesFront
    <3> QED BY <3>1, Zenon
  <2>8. /\ Table([rgn EXCEPT ![i] = x])
        /\ \A a : Held([rgn EXCEPT ![i] = x], a) <=> In(x, a) \/ HeldBut(rgn, i, a)
    BY <2>4, <2>5, ShrinkKeeps, Zenon
  <2> QED BY <1>8, <2>6, <2>7, <2>8, Zenon DEF Takes, out
<1>11. CASE FreesBack(rgn, r, i, out)
  <2> DEFINE x == Region(rgn[i].base, rgn[i].size - r.size)
  <2>1. LeftBefore(rgn[i].base, rgn[i].size, r.base, r.size)
    BY <1>2, <1>5, <1>11, InsideArith, Zenon DEF FreesBack
  <2>2. x.base = rgn[i].base /\ x.size = rgn[i].size - r.size
    BY ONLY RegionFields, Zenon
  <2>3. rgn[i].base <= rgn[i].base /\ rgn[i].base + (rgn[i].size - r.size) <= MemEnd
    BY <1>6, <2>1 DEF LeftBefore
  <2>4. InMemory(x)
    BY <1>6, <2>1, <2>3, RegionInMemory, Zenon DEF LeftBefore
  <2> HIDE DEF x
  <2>5. rgn[i].base <= x.base /\ x.base + x.size <= rgn[i].base + rgn[i].size
    BY <2>1, <2>2, <2>3, Zenon DEF LeftBefore
  <2>6. \A a \in Nat : In(x, a) <=> In(rgn[i], a) /\ ~In(r, a)
    BY <2>1, <2>2, Zenon DEF LeftBefore, In
  <2>7. out.rgn = [rgn EXCEPT ![i] = x]
    <3>1. out = [rgn |-> [rgn EXCEPT ![i] = x], fails |-> FALSE, cut |-> FALSE]
      BY <1>11, Zenon DEF FreesBack, x
    <3> QED BY <3>1, Zenon
  <2>8. /\ Table([rgn EXCEPT ![i] = x])
        /\ \A a : Held([rgn EXCEPT ![i] = x], a) <=> In(x, a) \/ HeldBut(rgn, i, a)
    BY <2>4, <2>5, ShrinkKeeps, Zenon
  <2> QED BY <1>8, <2>6, <2>7, <2>8, Zenon DEF Takes, out
<1>12. CASE Splits(rgn, r, i, out)
  <2> DEFINE x == Region(rgn[i].base, r.base - rgn[i].base)
             y == Region(r.base + r.size, (rgn[i].base + rgn[i].size) - (r.base + r.size))
             h == [rgn EXCEPT ![i] = x]
             s == lmb_add_region(h, y)
  <2>1. LeftBoth(rgn[i].base, rgn[i].size, r.base, r.size)
    BY <1>2, <1>5, <1>12, InsideArith, Zenon DEF Splits
  <2>2. /\ x.base = rgn[i].base /\ x.size = r.base - rgn[i].base /\ y.base = r.base + r.size
        /\ y.size = (rgn[i].base + rgn[i].size) - (r.base + r.size)
    <3>1. x.base = rgn[i].base /\ x.size = r.base - rgn[i].base
      BY ONLY RegionFields, Zenon
    <3>2. y.base = r.base + r.size /\ y.size = (rgn[i].base + rgn[i].size) - (r.base + r.size)
      BY ONLY RegionFields, Zenon
    <3> QED BY <3>1, <3>2, Zenon
  <2>3. /\ rgn[i].base <= rgn[i].base /\ rgn[i].base + (r.base - rgn[i].base) <= MemEnd
        /\ r.base - rgn[i].base < Space
        /\ (rgn[i].base + rgn[i].size) - (r.base + r.size) < Space
    <3> DEFINE ib == rgn[i].base
               is == rgn[i].size
               rb == r.base
               rs == r.size
    <3>1. /\ ib \in Nat /\ is \in Nat /\ rb \in Nat /\ rs \in Nat /\ ib + is <= MemEnd
          /\ MemEnd \in Nat /\ Space \in Nat /\ MemEnd < Space /\ ib + (rb - ib) <= ib + is
      BY <1>6, <2>1, Memory, Zenon DEF LeftBoth, BelowTop
    <3> HIDE DEF ib, is, rb, rs
    <3>2. /\ ib <= ib /\ ib + (rb - ib) <= MemEnd /\ rb - ib < Space
          /\ (ib + is) - (rb + rs) < Space
      BY ONLY <3>1
    <3> QED BY <3>2, Zenon DEF ib, is, rb, rs
  <2>4. InMemory(x) /\ InMemory(y)
    BY <1>6, <2>1, <2>3, RegionInMemory, Zenon DEF LeftBoth
  <2>5. Wrap(r.base - rgn[i].base) = r.base - rgn[i].base
    BY <2>1, <2>3, WrapSmall, Zenon DEF LeftBoth
  <2>6. Wrap(End(rgn[i]) - End(r)) = (rgn[i].base + rgn[i].size) - (r.base + r.size)
    BY <1>2, <2>1, <2>3, WrapSmall, Zenon DEF LeftBoth
  <2>7. Front(rgn, r, i) = h /\ Rest(rgn, r, i) = y
    BY <1>2, <2>5, <2>6, Zenon DEF Front, Rest
  <2>8. out = [rgn |-> s.rgn, fails |-> s.fails, cut |-> s.fails]
    BY <1>12, <2>7, Zenon DEF Splits
  <2> HIDE DEF x, y
  <2>9. rgn[i].base <= x.base /\ x.base + x.size <= rgn[i].base + rgn[i].size
    BY <2>1, <2>2, <2>3, Zenon DEF LeftBoth
  <2>10. /\ Table(h)
         /\ \A a : Held(h, a) <=> In(x, a) \/ HeldBut(rgn, i, a)
    BY <2>4, <2>9, ShrinkKeeps, Zenon
  <2> HIDE DEF h
  <2>11. ASSUME NEW a \in Nat, In(y, a) PROVE In(rgn[i], a) /\ ~In(x, a)
    BY <2>1, <2>2, <2>11, Zenon DEF LeftBoth, In
  <2>12. \A a \in Nat : ~(In(y, a) /\ Held(h, a))
    BY <2>10, <2>11, InOne, Zenon
  <2>13. Clear(h, y)
    BY <2>4, <2>10, <2>12, ClearOfBytes, Zenon
  <2>14. ~s.fails => Adds(h, y, s.rgn)
    BY <2>4, <2>10, <2>13, AddKeeps, Zenon
  <2> HIDE DEF s
  <2>15. out.rgn = s.rgn /\ out.cut = s.fails
    BY <2>8, Zenon
  <2>16. Adds(h, y, out.rgn)
    BY <2>14, <2>15, Zenon DEF out
  <2>17. \A a \in Nat : In(x, a) \/ In(y, a) <=> In(rgn[i], a) /\ ~In(r, a)
    BY <2>1, <2>2, Zenon DEF LeftBoth, In
  <2> QED BY <1>8, <2>10, <2>16, <2>17, Zenon DEF Takes, Adds, out
<1> QED BY <1>4, <1>9, <1>10, <1>11, <1>12, Zenon DEF FreesAt

-----------------------------------------------------------------------------
(***************************************************************************)
(* Allocation stays within memory and below its limit.                     *)
(***************************************************************************)

\* The constants of an action.
LEMMA Arguments ==
    /\ \A size \in Sizes : size \in Nat \ {0}
    /\ \A align \in Aligns : align \in Nat \ {0}
    /\ \A max \in MaxAddrs : max \in Nat /\ max < Space
BY MemoryAssumption DEF Addr

\* The end of memory as __lmb_alloc_base computes it: 0 at the top.
LEMMA WrappedEnd ==
    \/ MemEnd < Space /\ Wrap(MemEnd) = MemEnd
    \/ MemEnd = Space /\ Wrap(MemEnd) = 0 /\ MemBase > 0
<1>1. CASE MemEnd < Space
  BY <1>1, Memory, WrapSmall, Zenon
<1>2. CASE MemEnd = Space
  <2>1. Space % Space = 0
    BY Memory
  <2>2. Wrap(MemEnd) = 0
    BY <1>2, <2>1, Zenon DEF Wrap
  <2>3. MemBase > 0
    BY <1>2, Memory
  <2> QED BY <1>2, <2>2, <2>3, Zenon
<1>3. MemEnd < Space \/ MemEnd = Space
  BY Memory
<1> QED BY <1>1, <1>2, <1>3, Zenon

\* What is left of memory, or of what is below the limit, above a block of
\* size bytes at its end: the difference does not wrap.
LEMMA StartWord ==
    ASSUME NEW size \in Nat \ {0}, size <= MemSize
    PROVE  /\ Wrap(Wrap(MemEnd) - size) = MemEnd - size /\ MemEnd - size \in Nat
           /\ \A max \in Nat : size <= max /\ max < Space =>
                LET top == IF Wrap(MemEnd) < MemBase THEN Space - 1 ELSE Wrap(MemEnd)
                    m == IF top < max THEN top ELSE max
                IN Wrap(m - size) = m - size /\ m - size \in Nat /\ m <= MemEnd /\ m <= max
<1>1. size <= MemEnd /\ size < Space /\ MemEnd - size \in Nat
  BY Memory
<1>2. Wrap(Wrap(MemEnd) - size) = MemEnd - size
  <2>1. CASE MemEnd < Space /\ Wrap(MemEnd) = MemEnd
    <3>1. MemEnd - size < Space
      BY <1>1, <2>1, Memory
    <3> QED BY <1>1, <2>1, <3>1, WrapSmall, Zenon
  <2>2. CASE MemEnd = Space /\ Wrap(MemEnd) = 0
    <3>1. (0 - size) % Space = Space - size
      <4>1. size <= Space /\ Space \in Nat \ {0}
        BY <1>1, Memory
      <4> QED BY <4>1, ModNegative, Zenon
    <3> QED BY <2>2, <3>1, Zenon DEF Wrap
  <2> QED BY <2>1, <2>2, WrappedEnd, Zenon
<1>3. ASSUME NEW max \in Nat, size <= max, max < Space
      PROVE  LET top == IF Wrap(MemEnd) < MemBase THEN Space - 1 ELSE Wrap(MemEnd)
                 m == IF top < max THEN top ELSE max
             IN Wrap(m - size) = m - size /\ m - size \in Nat /\ m <= MemEnd /\ m <= max
  <2> DEFINE top == IF Wrap(MemEnd) < MemBase THEN Space - 1 ELSE Wrap(MemEnd)
             m == IF top < max THEN top ELSE max
  <2>1. top \in Nat /\ top < Space /\ top <= MemEnd /\ size <= top
    <3>1. CASE MemEnd < Space /\ Wrap(MemEnd) = MemEnd
      BY <1>1, <3>1, Memory
    <3>2. CASE MemEnd = Space /\ Wrap(MemEnd) = 0 /\ MemBase > 0
      BY <1>1, <3>2, Memory
    <3> QED BY <3>1, <3>2, WrappedEnd, Zenon
  <2> HIDE DEF top
  <2>2. m - size \in Nat /\ m - size < Space /\ m <= MemEnd /\ m <= max
    BY <1>3, <2>1, Memory
  <2> HIDE DEF m
  <2>3. Wrap(m - size) = m - size
    BY <2>2, WrapSmall, Zenon
  <2> QED BY <2>2, <2>3, Zenon DEF m, top
<1> QED BY <1>1, <1>2, <1>3, Zenon

\* An aligned address below what is left.
LEMMA AlignedFits ==
    ASSUME NEW m \in Nat, NEW size \in Nat, m - size \in Nat, NEW align \in Nat \ {0}
    PROVE  /\ lmb_align_down(m - size, align) \in Nat
           /\ lmb_align_down(m - size, align) % align = 0
           /\ lmb_align_down(m - size, align) + size <= m
<1>1. /\ lmb_align_down(m - size, align) \in Nat
      /\ lmb_align_down(m - size, align) <= m - size
      /\ lmb_align_down(m - size, align) % align = 0
  BY AlignDown, Zenon
<1> QED BY <1>1

\* The search begins where what it asks for fits, or not at all.
LEMMA StartFits ==
    ASSUME LimitsFit, NEW size \in Sizes, NEW align \in Aligns, NEW max \in MaxAddrs
    PROVE  /\ FirstBase(size, align, max) \in Nat
           /\ FirstBase(size, align, max) # 0 =>
                /\ FirstBase(size, align, max) % align = 0
                /\ FirstBase(size, align, max) + size <= MemEnd
                /\ max # 0 => FirstBase(size, align, max) + size <= max
<1> DEFINE b == FirstBase(size, align, max)
           top == IF Wrap(MemEnd) < MemBase THEN Space - 1 ELSE Wrap(MemEnd)
           m == IF top < max THEN top ELSE max
<1>1. size \in Nat \ {0} /\ align \in Nat \ {0} /\ max \in Nat /\ max < Space
  BY Arguments, Zenon
<1>2. CASE MemSize < size
  <2>1. b = 0
    BY <1>2, Zenon DEF FirstBase
  <2> QED BY <2>1
<1>3. CASE ~(MemSize < size) /\ max = 0
  <2>1. size <= MemSize
    BY <1>1, <1>3, Memory
  <2>2. b = lmb_align_down(MemEnd - size, align) /\ MemEnd - size \in Nat
    BY <1>1, <1>3, <2>1, StartWord, Zenon DEF FirstBase
  <2> HIDE DEF b
  <2>3. MemEnd \in Nat /\ size \in Nat
    BY <1>1, Memory, Zenon
  <2>4. b \in Nat /\ b % align = 0 /\ b + size <= MemEnd
    BY <1>1, <2>2, <2>3, AlignedFits, Zenon
  <2> QED BY <1>3, <2>4, Zenon DEF b
<1>4. CASE ~(MemSize < size) /\ max # 0 /\ MemBase < max
  <2>1. size <= MemSize /\ size <= max
    BY <1>1, <1>4, Memory DEF LimitsFit
  <2>2. b = lmb_align_down(Wrap(m - size), align)
    BY <1>4, Zenon DEF FirstBase
  <2>3. Wrap(m - size) = m - size /\ m - size \in Nat /\ m <= MemEnd /\ m <= max
    BY <1>1, <2>1, StartWord, Zenon
  <2>4. m \in Nat
    <3>1. MemEnd \in Nat /\ Space - 1 \in Nat
      BY Memory
    <3>2. Wrap(MemEnd) \in Nat
      <4>1. MemEnd \in Int
        BY <3>1
      <4> QED BY <4>1, WrapType, Zenon
    <3> QED BY <1>1, <3>1, <3>2, Zenon
  <2> HIDE DEF b, m
  <2>5. size \in Nat
    BY <1>1, Zenon
  <2>6. b \in Nat /\ b % align = 0 /\ b + size <= m
    <3>1. b = lmb_align_down(m - size, align)
      BY <2>2, <2>3, Zenon
    <3> QED BY <1>1, <2>3, <2>4, <2>5, <3>1, AlignedFits, Zenon
  <2>7. b + size <= MemEnd /\ b + size <= max
    <3>1. MemEnd \in Nat
      BY Memory, Zenon
    <3>2. b + size \in Nat
      BY <2>5, <2>6
    <3> QED BY <1>1, <2>3, <2>4, <2>6, <3>1, <3>2
  <2> QED BY <2>6, <2>7, Zenon DEF b
<1>5. CASE ~(MemSize < size) /\ max # 0 /\ ~(MemBase < max)
  <2>1. b = 0
    BY <1>5, Zenon DEF FirstBase
  <2> QED BY <2>1
<1> QED BY <1>2, <1>3, <1>4, <1>5, Zenon

\* U-Boot's own block, up to the end of memory.
LEMMA UBootIs ==
    /\ InMemory(UBoot) /\ UBoot \in Interval /\ UBoot \in Entry
    /\ UBoot.base = UBootBase /\ UBoot.size = MemEnd - UBootBase
    /\ UBoot.base + UBoot.size = MemEnd
<1>1. MemEnd - UBootBase \in Nat \ {0} /\ UBootBase + (MemEnd - UBootBase) = MemEnd
  BY Memory
<1>2. MemEnd <= MemEnd
  BY Memory
<1>3. UBoot.base = UBootBase /\ UBoot.size = MemEnd - UBootBase
  BY RegionFields, Zenon DEF UBoot
<1>4. InMemory(UBoot)
  BY <1>1, <1>2, Memory, RegionInMemory, Zenon DEF UBoot
<1> QED BY <1>1, <1>3, <1>4, InMemoryNumbers, Zenon

\* boot_start_lmb: the empty table takes U-Boot's block.
LEMMA BootTable ==
    lmb_add_region(<<Region(0, 0)>>, UBoot).rgn = <<UBoot>>
<1> DEFINE e == <<Region(0, 0)>>
<1>1. Len(e) = 1 /\ e[1].size = 0
  BY Zenon DEF Region
<1> HIDE DEF e
<1>2. lmb_add_region(e, UBoot) = [rgn |-> <<UBoot>>, fails |-> FALSE]
  BY <1>1, Zenon DEF lmb_add_region
<1>3. lmb_add_region(e, UBoot).rgn = <<UBoot>>
  BY <1>2
<1> QED BY <1>3, Zenon DEF e

\* A search under way is one of the type, and what it asks for fits.
LEMMA SearchIs ==
    ASSUME TypeOK, search # NoSearch
    PROVE  /\ search[1] \in SearchType /\ Fits(search[1])
           /\ search[1].base \in Nat /\ search[1].size \in Nat \ {0}
           /\ search[1].align \in Nat \ {0} /\ search[1].max \in Nat
<1>1. PICK s \in SearchType : search = <<s>> /\ Fits(s)
  BY Zenon DEF TypeOK
<1>2. search[1] = s
  BY <1>1, Zenon
<1>3. s.base \in Nat /\ s.size \in Nat \ {0} /\ s.align \in Nat \ {0} /\ s.max \in Nat
  BY Zenon DEF SearchType
<1> QED BY <1>1, <1>2, <1>3, Zenon

\* The first region in the way lies below the end of what the search asks for.
LEMMA FirstInTheWay ==
    ASSUME TypeOK, search # NoSearch, InTheWay(search[1]) # {}
    PROVE  /\ First(InTheWay(search[1])) \in 1 .. Len(reserved)
           /\ reserved[First(InTheWay(search[1]))].base \in Nat
           /\ reserved[First(InTheWay(search[1]))].base < search[1].base + search[1].size
<1> DEFINE s == search[1]
           S == InTheWay(s)
           i == First(S)
<1>1. s.base \in Nat /\ s.size \in Nat
  BY SearchIs, Zenon
<1>2. reserved \in Seq(Entry) /\ DOMAIN reserved = 1 .. Len(reserved) /\ Len(reserved) \in Nat
  BY DEF TypeOK
<1>3. S \subseteq 1 .. Len(reserved)
  BY <1>2, Zenon DEF InTheWay
<1>4. S \subseteq Nat
  BY <1>2, <1>3
<1>5. i \in S
  <2> HIDE DEF S
  <2> QED BY <1>4, FirstIn, Zenon DEF S
<1>6. i \in 1 .. Len(reserved) /\ lmb_addrs_overlap(Region(s.base, s.size), reserved[i])
  BY <1>2, <1>5, Zenon DEF InTheWay
<1> HIDE DEF i
<1>7. reserved[i].base \in Nat
  <2>1. reserved[i] \in Entry
    BY <1>2, <1>6
  <2> QED BY <2>1, Zenon DEF Entry
<1>8. reserved[i].base < Wrap(s.base + s.size)
  <2>1. Region(s.base, s.size).base = s.base /\ Region(s.base, s.size).size = s.size
    BY ONLY RegionFields, Zenon
  <2>2. reserved[i].base < End(Region(s.base, s.size))
    BY <1>6, Zenon DEF lmb_addrs_overlap
  <2> QED BY <2>1, <2>2, Zenon DEF End
<1> HIDE DEF s
<1>9. s.base + s.size \in Nat
  BY <1>1
<1>10. Wrap(s.base + s.size) <= s.base + s.size /\ Wrap(s.base + s.size) \in Nat
  <2>1. Space \in Nat \ {0} /\ s.base + s.size \in Int
    BY <1>9, Memory
  <2> QED BY <1>9, <2>1, ModBelow, WrapType, Zenon DEF Wrap
<1>11. reserved[i].base < s.base + s.size
  BY <1>7, <1>8, <1>9, <1>10
<1> QED BY <1>6, <1>7, <1>11, Zenon DEF i, s

\* The search goes on where what it asks for fits, and strictly below.
LEMMA GoesBelow ==
    ASSUME TypeOK, alloc_below
    PROVE  \E s \in SearchType : search' = <<s>> /\ Fits(s) /\ s.base < search[1].base
<1> DEFINE s == search[1]
           b == reserved[First(InTheWay(s))].base
           n == lmb_align_down(b - s.size, s.align)
           t == [s EXCEPT !.base = n]
<1>1. search # NoSearch /\ Searching(s) /\ InTheWay(s) # {} /\ b >= s.size /\ search' = <<t>>
  BY Zenon DEF alloc_below
<1>2. /\ s \in SearchType /\ Fits(s) /\ s.base \in Nat /\ s.size \in Nat \ {0}
      /\ s.align \in Nat \ {0} /\ s.max \in Nat
  BY <1>1, SearchIs, Zenon
<1>3. b \in Nat /\ b < s.base + s.size
  BY <1>1, FirstInTheWay, Zenon
<1> HIDE DEF b
<1>4. b - s.size \in Nat /\ s.size \in Nat
  BY <1>1, <1>2, <1>3
<1>5. n \in Nat /\ n % s.align = 0 /\ n + s.size <= b
  BY <1>2, <1>3, <1>4, AlignedFits, Zenon
<1> HIDE DEF n
<1>6. t \in SearchType /\ t.base = n /\ t.size = s.size /\ t.align = s.align /\ t.max = s.max
  BY <1>2, <1>5, Zenon DEF SearchType
<1> HIDE DEF t
<1>7. /\ s.base + s.size <= MemEnd /\ MemEnd \in Nat
      /\ s.max # 0 => s.base + s.size <= s.max
  BY <1>1, <1>2, Memory, Zenon DEF Fits
<1>8. /\ n < s.base /\ n + s.size <= MemEnd
      /\ s.max # 0 => n + s.size <= s.max
  <2> HIDE DEF s
  <2> QED BY <1>2, <1>3, <1>4, <1>5, <1>7
<1>9. Fits(t) /\ t.base < s.base
  BY <1>5, <1>6, <1>8, Zenon DEF Fits
<1> QED BY <1>1, <1>6, <1>9, Zenon

\* The type of a sequence of one block, and of two.
LEMMA BlockSeqs ==
    ASSUME NEW r \in Interval
    PROVE  /\ <<r>> \in Seq(Interval) /\ Len(<<r>>) = 1 /\ <<r>>[1] = r
           /\ <<r, r>> \in Seq(Interval) /\ Len(<<r, r>>) = 2
OBVIOUS

\* The device tree's block is one, after Owner.
LEMMA OwnerType ==
    ASSUME fdt \in Seq(Interval), NEW done, NEW r \in Interval, Owner(done, r)
    PROVE  fdt' \in Seq(Interval)
BY BlockSeqs, Zenon DEF Owner

\* Region(b, n) of numbers.
LEMMA RegionType ==
    ASSUME NEW b \in Nat, NEW n \in Nat \ {0}
    PROVE  Region(b, n) \in Interval /\ Region(b, n) \in Entry
BY DEF Region, Interval, Entry

\* A request for memory, in numbers.
LEMMA ReserveArgs ==
    ASSUME NEW base \in MemBase .. (MemEnd - 1), NEW size \in Sizes
    PROVE  base \in Nat /\ size \in Nat \ {0}
<1>1. base \in Nat
  BY Memory
<1> QED BY <1>1, Arguments, Zenon

\* Init has the types.
LEMMA InitTypes == ASSUME Init PROVE TypeOK
<1>1. reserved = <<UBoot>> /\ fdt = <<>> /\ search = NoSearch /\ torn = FALSE
  BY BootTable, Zenon DEF Init, NoFdt
<1>2. <<UBoot>> \in Seq(Entry) /\ <<>> \in Seq(Interval)
  BY UBootIs
<1> QED BY <1>1, <1>2, Zenon DEF TypeOK

\* Every step keeps the types, and what a search asks for within memory.
LEMMA StepTypes ==
    ASSUME LimitsFit, TypeOK, [Next]_vars
    PROVE  TypeOK'
<1>0. /\ reserved \in Seq(Entry) /\ fdt \in Seq(Interval) /\ torn \in BOOLEAN
      /\ search = NoSearch \/ \E s \in SearchType : search = <<s>> /\ Fits(s)
  BY Zenon DEF TypeOK
<1>1. ASSUME NEW base \in MemBase .. (MemEnd - 1), NEW size \in Sizes, lmb_reserve(base, size)
      PROVE  TypeOK'
  <2>1. Region(base, size) \in Interval /\ Region(base, size) \in Entry
    BY ReserveArgs, RegionType, Zenon
  <2>2. /\ reserved' = lmb_add_region(reserved, Region(base, size)).rgn
        /\ Owner(~lmb_add_region(reserved, Region(base, size)).fails, Region(base, size))
        /\ search' = search /\ torn' = torn
    BY <1>1, Zenon DEF lmb_reserve
  <2>3. reserved' \in Seq(Entry) /\ fdt' \in Seq(Interval)
    BY <1>0, <2>1, <2>2, AddType, OwnerType, Zenon
  <2> QED BY <1>0, <2>2, <2>3, Zenon DEF TypeOK
<1>2. ASSUME NEW size \in Sizes, NEW align \in Aligns, NEW max \in MaxAddrs,
             lmb_alloc_base(size, align, max)
      PROVE  TypeOK'
  <2> DEFINE b == FirstBase(size, align, max)
             s == [base |-> b, size |-> size, align |-> align, max |-> max]
  <2>1. search' = <<s>> /\ reserved' = reserved /\ fdt' = fdt /\ torn' = torn
    BY <1>2, Zenon DEF lmb_alloc_base
  <2>2. /\ b \in Nat
        /\ b # 0 => /\ b % align = 0 /\ b + size <= MemEnd
                    /\ max # 0 => b + size <= max
    BY StartFits, Zenon
  <2> HIDE DEF b
  <2>3. size \in Nat \ {0} /\ align \in Nat \ {0} /\ max \in Nat
    BY Arguments, Zenon
  <2>4. s \in SearchType /\ s.base = b /\ s.size = size /\ s.align = align /\ s.max = max
    BY <2>2, <2>3, Zenon DEF SearchType
  <2> HIDE DEF s
  <2>5. Fits(s)
    BY <2>2, <2>4, Zenon DEF Fits, Searching
  <2> QED BY <1>0, <2>1, <2>4, <2>5, Zenon DEF TypeOK
<1>3. ASSUME alloc_below PROVE TypeOK'
  <2>1. reserved' = reserved /\ fdt' = fdt /\ torn' = torn
    BY <1>3, Zenon DEF alloc_below
  <2>2. \E s \in SearchType : search' = <<s>> /\ Fits(s)
    BY <1>3, GoesBelow, Zenon
  <2> QED BY <1>0, <2>1, <2>2, Zenon DEF TypeOK
<1>4. ASSUME alloc_fails PROVE TypeOK'
  BY <1>0, <1>4, Zenon DEF alloc_fails, TypeOK
<1>5. ASSUME alloc_takes PROVE TypeOK'
  <2> DEFINE s == search[1]
             n == lmb_align_up(s.size, s.align)
             added == lmb_add_region(reserved, Region(s.base, n))
  <2>1. /\ search # NoSearch /\ search' = NoSearch /\ reserved' = added.rgn
        /\ Owner(~added.fails, Region(s.base, s.size))
        /\ torn' = \/ torn
                   \/ /\ ~added.fails
                      /\ Bytes(Region(s.base + s.size, n - s.size)) \cap AllBytes(Regions(reserved)) # {}
    BY <1>5, Zenon DEF alloc_takes
  <2>2. /\ s.base \in Nat /\ s.size \in Nat \ {0} /\ s.align \in Nat \ {0}
    BY <2>1, SearchIs, Zenon
  <2> HIDE DEF s
  <2>3. n \in Nat /\ n \in Int
    <3>1. s.size \in Nat
      BY <2>2, Zenon
    <3>2. n \in Nat
      BY <2>2, <3>1, AlignUp, Zenon
    <3> HIDE DEF n
    <3> QED BY <3>2
  <2> HIDE DEF n
  <2>4. Region(s.base, n) \in Entry /\ Region(s.base, s.size) \in Interval
    BY <2>2, <2>3, Zenon DEF Region, Entry, Interval
  <2>5. reserved' \in Seq(Entry) /\ fdt' \in Seq(Interval)
    BY <1>0, <2>1, <2>4, AddType, OwnerType, Zenon
  <2>6. torn' \in BOOLEAN
    BY <2>1, Zenon
  <2> QED BY <2>1, <2>5, <2>6, Zenon DEF TypeOK
<1>6. ASSUME NEW size \in Sizes, image_setup_libfdt(size) PROVE TypeOK'
  <2> DEFINE blob == fdt[1]
             freed == lmb_free(reserved, blob)
             added == lmb_add_region(freed.rgn, Region(blob.base, size))
  <2>1. /\ Len(fdt) = 1 /\ reserved' = added.rgn /\ fdt' = <<blob, blob>>
        /\ torn' = (torn \/ freed.cut) /\ search' = search
    BY <1>6, Zenon DEF image_setup_libfdt
  <2>2. blob \in Interval
    <3>1. fdt \in Seq(Interval) /\ Len(fdt) = 1
      BY <1>0, <2>1, Zenon
    <3> QED BY ONLY <3>1
  <2> HIDE DEF blob
  <2>3. blob \in Entry /\ blob.base \in Nat
    BY <2>2 DEF Interval, Entry
  <2>4. freed.rgn \in Seq(Entry) /\ freed.cut \in BOOLEAN
    BY <1>0, <2>3, FreeType, Zenon
  <2> HIDE DEF freed
  <2>5. size \in Nat \ {0}
    BY Arguments, Zenon
  <2>6. added.rgn \in Seq(Entry)
    BY <2>3, <2>4, <2>5, RegionType, AddType, Zenon
  <2>7. torn' \in BOOLEAN
    BY <2>1, Zenon
  <2> QED BY <1>0, <2>1, <2>2, <2>6, <2>7, BlockSeqs, Zenon DEF TypeOK
<1>7. ASSUME boot_start_lmb PROVE TypeOK'
  <2>1. /\ reserved' = <<UBoot>> /\ fdt' = <<>> /\ torn' = FALSE /\ search' = search
    BY <1>7, BootTable, Zenon DEF boot_start_lmb, NoFdt
  <2>2. <<UBoot>> \in Seq(Entry) /\ <<>> \in Seq(Interval)
    BY UBootIs
  <2> QED BY <1>0, <2>1, <2>2, Zenon DEF TypeOK
<1>8. CASE UNCHANGED vars
  BY <1>0, <1>8, Zenon DEF vars, TypeOK
<1> QED BY <1>1, <1>2, <1>3, <1>4, <1>5, <1>6, <1>7, <1>8, Zenon DEF Next

-----------------------------------------------------------------------------
(***************************************************************************)
(* Blocks.                                                                 *)
(***************************************************************************)

\* An address between the ends of a region is one of its bytes.
LEMMA ByteOf ==
    ASSUME NEW b \in Nat, NEW n \in Nat, NEW a \in Nat, a < Space, b <= a, a < b + n
    PROVE  a \in Bytes(Region(b, n))
<1>1. a - b \in 0 .. (n - 1) /\ b + (a - b) = a
  OBVIOUS
<1>2. Region(b, n).base = b /\ Region(b, n).size = n
  BY RegionFields, Zenon
<1>3. Wrap(b + (a - b)) = a
  BY <1>1, WrapSmall, Zenon
<1> QED BY <1>1, <1>2, <1>3, Zenon DEF Bytes

\* The bytes of a part of memory, below the top.
LEMMA BytesAre ==
    ASSUME BelowTop, NEW r, InMemory(r), NEW a
    PROVE  a \in Bytes(r) <=> a \in Nat /\ In(r, a)
<1>1. /\ r.base \in Nat /\ r.size \in Nat /\ r.base + r.size <= MemEnd
      /\ r = Region(r.base, r.size) /\ MemEnd \in Nat /\ Space \in Nat /\ MemEnd < Space
  BY InMemoryNumbers, Memory, Zenon DEF BelowTop
<1>2. ASSUME a \in Bytes(r) PROVE a \in Nat /\ In(r, a)
  <2>1. PICK k \in 0 .. (r.size - 1) : a = Wrap(r.base + k)
    BY <1>2, Zenon DEF Bytes
  <2>2. /\ r.base + k \in Nat /\ r.base + k < Space
        /\ r.base <= r.base + k /\ r.base + k < r.base + r.size
    BY <1>1
  <2>3. a = r.base + k
    BY <2>1, <2>2, WrapSmall, Zenon
  <2> QED BY <2>2, <2>3, Zenon DEF In
<1>3. ASSUME a \in Nat, In(r, a) PROVE a \in Bytes(r)
  <2>1. a < Space /\ r.base <= a /\ a < r.base + r.size
    BY <1>1, <1>3 DEF In
  <2>2. a \in Bytes(Region(r.base, r.size))
    BY <1>1, <1>3, <2>1, ByteOf, Zenon
  <2> QED BY <1>1, <2>2, Zenon
<1> QED BY <1>2, <1>3, Zenon

\* The bytes of a table.
LEMMA TableBytes ==
    ASSUME BelowTop, NEW rgn, Table(rgn), NEW a
    PROVE  a \in AllBytes(Regions(rgn)) <=> a \in Nat /\ Held(rgn, a)
<1>1. DOMAIN rgn = 1 .. Len(rgn) /\ \A i \in 1 .. Len(rgn) : InMemory(rgn[i])
  BY TableType, Zenon DEF Table
<1>2. ASSUME a \in AllBytes(Regions(rgn)) PROVE a \in Nat /\ Held(rgn, a)
  <2>1. PICK i \in 1 .. Len(rgn) : a \in Bytes(rgn[i])
    BY <1>1, <1>2, Zenon DEF AllBytes, Regions
  <2> QED BY <1>1, <2>1, BytesAre, Zenon DEF Held
<1>3. ASSUME a \in Nat, Held(rgn, a) PROVE a \in AllBytes(Regions(rgn))
  <2>1. PICK i \in 1 .. Len(rgn) : In(rgn[i], a)
    BY <1>3, Zenon DEF Held
  <2>2. a \in Bytes(rgn[i])
    BY <1>1, <1>3, <2>1, BytesAre, Zenon
  <2> QED BY <1>1, <2>2, Zenon DEF AllBytes, Regions
<1> QED BY <1>2, <1>3, Zenon

\* A new block, of bytes that were not held, beside the others.
LEMMA BlockAdded ==
    ASSUME NEW rgn, NEW bs, BlocksOK(rgn, bs), NEW r, InMemory(r),
           \A a \in Nat : ~(In(r, a) /\ Held(rgn, a)),
           NEW new, Table(new),
           \A a \in Nat : Held(rgn, a) \/ In(r, a) => Held(new, a)
    PROVE  BlocksOK(new, bs \cup {r}) /\ r # UBoot /\ r \notin bs
<1>1. /\ UBoot \in bs
      /\ \A b \in bs : InMemory(b) /\ HeldWhole(rgn, b)
      /\ \A b, c \in bs : b # c => Disjoint(b, c)
  BY Zenon DEF BlocksOK
<1>2. r.base \in Nat /\ In(r, r.base)
  <2>1. r.base \in Nat /\ r.size \in Nat /\ r.size > 0
    BY InMemoryNumbers, Zenon
  <2> QED BY <2>1 DEF In
<1>3. ASSUME NEW b \in bs PROVE b # r /\ Disjoint(b, r) /\ Disjoint(r, b)
  BY <1>1, <1>2, Zenon DEF HeldWhole, Disjoint
<1>4. \A b \in bs \cup {r} : InMemory(b) /\ HeldWhole(new, b)
  BY <1>1, Zenon DEF HeldWhole
<1>5. \A b, c \in bs \cup {r} : b # c => Disjoint(b, c)
  BY <1>1, <1>3, Zenon
<1> QED BY <1>1, <1>3, <1>4, <1>5, Zenon DEF BlocksOK

\* A block is given up, and its bytes are no longer held.
LEMMA BlockTaken ==
    ASSUME NEW rgn, NEW bs, BlocksOK(rgn, bs), NEW r \in bs, r # UBoot, NEW new,
           Takes(rgn, r, new)
    PROVE  BlocksOK(new, bs \ {r})
<1>1. /\ UBoot \in bs
      /\ \A b \in bs : InMemory(b) /\ HeldWhole(rgn, b)
      /\ \A b, c \in bs : b # c => Disjoint(b, c)
  BY Zenon DEF BlocksOK
<1>2. Table(new) /\ \A a \in Nat : Held(new, a) <=> Held(rgn, a) /\ ~In(r, a)
  BY Zenon DEF Takes
<1>3. ASSUME NEW b \in bs \ {r} PROVE InMemory(b) /\ HeldWhole(new, b)
  <2>1. InMemory(b) /\ HeldWhole(rgn, b) /\ Disjoint(b, r)
    BY <1>1, Zenon
  <2> QED BY <1>2, <2>1, Zenon DEF HeldWhole, Disjoint
<1> QED BY <1>1, <1>2, <1>3, Zenon DEF BlocksOK

\* The device tree's block is one of the blocks, after Owner.
LEMMA OwnerKeeps ==
    ASSUME NEW bs, FdtOK(fdt, bs), NEW done, NEW r \in Interval, Owner(done, r),
           NEW new, bs \subseteq new, done => r \in new /\ r # UBoot
    PROVE  FdtOK(fdt', new)
<1>1. CASE fdt' = fdt
  BY <1>1, Zenon DEF FdtOK
<1>2. CASE done /\ fdt' = <<r>>
  BY <1>2, BlockSeqs, Zenon DEF FdtOK
<1> QED BY <1>1, <1>2, Zenon DEF Owner

\* lmb_reserve keeps the blocks.
LEMMA ReserveKeeps ==
    ASSUME BelowTop, TypeOK, ~torn, BlocksOK(reserved, blocks), FdtOK(fdt, blocks),
           NEW base \in MemBase .. (MemEnd - 1), NEW size \in Sizes, lmb_reserve(base, size)
    PROVE  BlocksOK(reserved', blocks') /\ FdtOK(fdt', blocks')
<1> DEFINE r == Region(base, size)
           added == lmb_add_region(reserved, r)
<1>1. /\ base + size <= MemEnd /\ Bytes(r) \cap AllBytes(Regions(reserved)) = {}
      /\ reserved' = added.rgn
      /\ blocks' = IF added.fails THEN blocks ELSE blocks \cup {r}
      /\ Owner(~added.fails, r)
  BY Zenon DEF lmb_reserve
<1>2. InMemory(r) /\ r \in Interval
  BY <1>1, ReserveArgs, RegionInMemory, InMemoryNumbers, Zenon
<1> HIDE DEF r
<1>3. Table(reserved)
  BY Zenon DEF BlocksOK
<1>4. \A a \in Nat : ~(In(r, a) /\ Held(reserved, a))
  BY <1>1, <1>2, <1>3, BytesAre, TableBytes, Zenon
<1>5. Clear(reserved, r)
  BY <1>2, <1>3, <1>4, ClearOfBytes, Zenon
<1>6. /\ added.fails => added.rgn = reserved
      /\ ~added.fails => Adds(reserved, r, added.rgn)
  BY <1>2, <1>3, <1>5, AddKeeps, Zenon
<1> HIDE DEF added
<1>7. CASE added.fails
  <2>1. reserved' = reserved /\ blocks' = blocks /\ Owner(FALSE, r)
    BY <1>1, <1>6, <1>7, Zenon
  <2> QED BY <1>2, <2>1, OwnerKeeps, Zenon
<1>8. CASE ~added.fails
  <2>1. blocks' = blocks \cup {r} /\ Adds(reserved, r, reserved')
    BY <1>1, <1>6, <1>8, Zenon
  <2>2. BlocksOK(reserved', blocks \cup {r}) /\ r # UBoot
    BY <1>2, <1>4, <2>1, BlockAdded, Zenon DEF Adds
  <2> QED BY <1>1, <1>2, <2>1, <2>2, OwnerKeeps, Zenon
<1> QED BY <1>7, <1>8, Zenon

\* lmb_add_region fails without a change.
LEMMA AddFails ==
    ASSUME NEW rgn \in Seq(Entry), NEW r, lmb_add_region(rgn, r).fails
    PROVE  lmb_add_region(rgn, r).rgn = rgn
<1> DEFINE out == lmb_add_region(rgn, r)
<1>1. \/ FillsEmpty(rgn, r, out) \/ FindsFull(rgn, r, out) \/ Inserts(rgn, r, out)
      \/ HasIt(rgn, r, out) \/ Extends(rgn, r, out)
  BY AddCases, Zenon
<1> HIDE DEF out
<1>2. /\ FillsEmpty(rgn, r, out) => out.fails = FALSE
      /\ Inserts(rgn, r, out) => out.fails = FALSE
      /\ HasIt(rgn, r, out) => out.fails = FALSE
      /\ Extends(rgn, r, out) => out.fails = FALSE
  <2>1. FillsEmpty(rgn, r, out) => out.fails = FALSE
    BY DEF FillsEmpty
  <2>2. Inserts(rgn, r, out) => out.fails = FALSE
    BY DEF Inserts
  <2>3. HasIt(rgn, r, out) => out.fails = FALSE
    BY DEF HasIt
  <2>4. Extends(rgn, r, out) => out.fails = FALSE
    BY DEF Extends
  <2> QED BY <2>1, <2>2, <2>3, <2>4, Zenon
<1>3. FindsFull(rgn, r, out) => out.rgn = rgn
  BY DEF FindsFull
<1> QED BY <1>1, <1>2, <1>3, Zenon DEF out

\* What lmb_overlaps_region finds no region in the way of shares no byte with
\* the table.
LEMMA FoundClear ==
    ASSUME BelowTop, TypeOK, search # NoSearch, Found(search[1]), Table(reserved)
    PROVE  LET r == Region(search[1].base, search[1].size)
           IN InMemory(r) /\ \A a \in Nat : ~(In(r, a) /\ Held(reserved, a))
<1> DEFINE s == search[1]
           r == Region(s.base, s.size)
<1>1. s.base \in Nat /\ s.size \in Nat \ {0} /\ s.base + s.size <= MemEnd
  BY SearchIs, Zenon DEF Found, Fits
<1>2. InMemory(r)
  BY <1>1, RegionInMemory, Zenon
<1>3. /\ DOMAIN reserved = 1 .. Len(reserved)
      /\ \A i \in 1 .. Len(reserved) : InMemory(reserved[i])
  BY TableType, Zenon DEF Table
<1>4. \A i \in 1 .. Len(reserved) : ~lmb_addrs_overlap(r, reserved[i])
  BY <1>3, Zenon DEF Found, InTheWay
<1> HIDE DEF r
<1>5. ASSUME NEW a \in Nat, In(r, a), NEW i \in 1 .. Len(reserved), In(reserved[i], a)
      PROVE  FALSE
  <2>1. /\ r.base \in Nat /\ r.size \in Nat /\ End(r) = r.base + r.size
        /\ reserved[i].base \in Nat /\ reserved[i].size \in Nat
        /\ End(reserved[i]) = reserved[i].base + reserved[i].size
    BY <1>2, <1>3, InMemoryNumbers, EndIs, Zenon
  <2>2. lmb_addrs_overlap(r, reserved[i])
    BY <1>5, <2>1, SMTT(30) DEF lmb_addrs_overlap, In
  <2> QED BY <1>4, <2>2, Zenon
<1> QED BY <1>2, <1>5, Zenon DEF Held, r

\* Rounding up does not reach U-Boot's block unless it tears the table.
LEMMA RoundingFits ==
    ASSUME BelowTop, BlocksOK(reserved, blocks), NEW b \in Nat, NEW k \in Nat \ {0}, NEW n \in Nat,
           n >= k, InMemory(Region(b, k)),
           \A a \in Nat : ~(In(Region(b, k), a) /\ Held(reserved, a)),
           Bytes(Region(b + k, n - k)) \cap AllBytes(Regions(reserved)) = {}
    PROVE  /\ InMemory(Region(b, n))
           /\ \A a \in Nat : ~(In(Region(b, n), a) /\ Held(reserved, a))
           /\ \A a \in Nat : In(Region(b, k), a) => In(Region(b, n), a)
<1> DEFINE r == Region(b, k)
           q == Region(b, n)
<1>1. /\ r.base = b /\ r.size = k /\ q.base = b /\ q.size = n
  BY RegionFields, Zenon
<1>2. b + k <= MemEnd
  BY <1>1, Zenon DEF InMemory
<1> HIDE DEF r, q
<1>3. b + k \in Nat /\ n - k \in Nat /\ (b + k) + (n - k) = b + n /\ b + n \in Nat
  OBVIOUS
<1>4. \A a \in Nat : UBootBase <= a /\ a < MemEnd => Held(reserved, a)
  <2>1. HeldWhole(reserved, UBoot)
    BY Zenon DEF BlocksOK
  <2> QED BY <2>1, UBootIs, Zenon DEF HeldWhole, In
<1>5. Table(reserved)
  BY Zenon DEF BlocksOK
<1>6. \A a \in Nat : a < Space /\ b + k <= a /\ a < b + n => ~Held(reserved, a)
  <2>1. ASSUME NEW a \in Nat, a < Space, b + k <= a, a < b + n PROVE ~Held(reserved, a)
    <3>1. a \in Bytes(Region(b + k, n - k))
      BY <1>3, <2>1, ByteOf, Zenon
    <3> QED BY <1>5, <2>1, <3>1, TableBytes, Zenon
  <2> QED BY <2>1, Zenon
<1>7. b + k <= UBootBase
  <2> SUFFICES ASSUME ~(b + k <= UBootBase) PROVE FALSE
    BY Zenon
  <2>1. /\ (b + k) - 1 \in Nat /\ UBootBase <= (b + k) - 1 /\ (b + k) - 1 < MemEnd
        /\ b <= (b + k) - 1 /\ (b + k) - 1 < b + k
    BY <1>2, <1>3, Memory
  <2>2. In(r, (b + k) - 1)
    BY <1>1, <2>1, Zenon DEF In
  <2> QED BY <1>4, <2>1, <2>2, Zenon DEF r
<1>8. b + n <= UBootBase
  <2> SUFFICES ASSUME ~(b + n <= UBootBase) PROVE FALSE
    BY Zenon
  <2>1. UBootBase \in Nat /\ UBootBase < Space /\ UBootBase < b + n /\ UBootBase <= UBootBase
        /\ UBootBase < MemEnd
    BY <1>3, Memory
  <2> QED BY <1>4, <1>6, <1>7, <2>1, Zenon
<1>9. n \in Nat \ {0} /\ b + n <= MemEnd
  BY <1>3, <1>8, Memory
<1>10. InMemory(q)
  BY <1>9, RegionInMemory, Zenon DEF q
<1>11. ASSUME NEW a \in Nat, In(q, a) PROVE ~Held(reserved, a)
  <2>1. a < Space /\ b <= a /\ a < b + n /\ (a < b + k \/ b + k <= a)
    BY <1>1, <1>3, <1>9, <1>11, Memory, SMTT(30) DEF In
  <2>2. CASE a < b + k
    <3>1. In(r, a)
      BY <1>1, <2>1, <2>2, Zenon DEF In
    <3> QED BY <3>1, Zenon DEF r
  <2>3. CASE b + k <= a
    BY <1>6, <2>1, <2>3, Zenon
  <2> QED BY <2>1, <2>2, <2>3, Zenon
<1>12. ASSUME NEW a \in Nat, In(r, a) PROVE In(q, a)
  <2>1. b <= a /\ a < b + k
    BY <1>1, <1>12, Zenon DEF In
  <2>2. a < b + n
    BY <1>3, <2>1
  <2> QED BY <1>1, <2>1, <2>2, Zenon DEF In
<1> QED BY <1>10, <1>11, <1>12, Zenon DEF q, r

\* What an allocation takes is apart from every block, and held from then on.
LEMMA TakesKeeps ==
    ASSUME BelowTop, TypeOK, BlocksOK(reserved, blocks), FdtOK(fdt, blocks), alloc_takes, ~torn'
    PROVE  BlocksOK(reserved', blocks') /\ FdtOK(fdt', blocks')
<1> DEFINE s == search[1]
           r == Region(s.base, s.size)
           n == lmb_align_up(s.size, s.align)
           q == Region(s.base, n)
           added == lmb_add_region(reserved, q)
<1>1. /\ search # NoSearch /\ Found(s) /\ reserved' = added.rgn
      /\ blocks' = IF added.fails THEN blocks ELSE blocks \cup {r}
      /\ Owner(~added.fails, r)
      /\ torn' = \/ torn
                 \/ /\ ~added.fails
                    /\ Bytes(Region(s.base + s.size, n - s.size)) \cap AllBytes(Regions(reserved)) # {}
  BY Zenon DEF alloc_takes
<1>2. Table(reserved) /\ reserved \in Seq(Entry)
  BY TableType, Zenon DEF BlocksOK
<1>3. InMemory(r) /\ r \in Interval /\ \A a \in Nat : ~(In(r, a) /\ Held(reserved, a))
  BY <1>1, <1>2, FoundClear, InMemoryNumbers, Zenon
<1>4. s.base \in Nat /\ s.size \in Nat \ {0} /\ s.align \in Nat \ {0} /\ s.size \in Nat
  <2>1. s.base \in Nat /\ s.size \in Nat \ {0} /\ s.align \in Nat \ {0}
    BY <1>1, SearchIs, Zenon
  <2> QED BY <2>1, Zenon
<1>5. n \in Nat /\ n >= s.size
  BY <1>4, AlignUp, Zenon
<1> HIDE DEF n
<1>6. CASE added.fails
  <2>1. reserved' = reserved
    BY <1>1, <1>2, <1>6, AddFails, Zenon
  <2>2. blocks' = blocks /\ Owner(FALSE, r)
    BY <1>1, <1>6, Zenon
  <2> HIDE DEF r
  <2> QED BY <1>3, <2>1, <2>2, OwnerKeeps, Zenon
<1>7. CASE ~added.fails
  <2>1. Bytes(Region(s.base + s.size, n - s.size)) \cap AllBytes(Regions(reserved)) = {}
    BY <1>1, <1>7, Zenon
  <2>2. /\ InMemory(q) /\ \A a \in Nat : ~(In(q, a) /\ Held(reserved, a))
        /\ \A a \in Nat : In(r, a) => In(q, a)
    BY <1>3, <1>4, <1>5, <2>1, RoundingFits, Zenon
  <2> HIDE DEF q, r
  <2>3. Clear(reserved, q)
    BY <1>2, <2>2, ClearOfBytes, Zenon
  <2>4. Adds(reserved, q, reserved')
    BY <1>1, <1>2, <1>7, <2>2, <2>3, AddKeeps, Zenon
  <2>5. BlocksOK(reserved', blocks \cup {r}) /\ r # UBoot
    BY <1>3, <2>2, <2>4, BlockAdded, Zenon DEF Adds
  <2>6. blocks' = blocks \cup {r}
    BY <1>1, <1>7, Zenon
  <2> QED BY <1>1, <1>3, <2>5, <2>6, OwnerKeeps, Zenon
<1> QED BY <1>6, <1>7, Zenon

\* image_setup_libfdt: lmb_free gives up exactly the device tree's bytes, and
\* the smaller block is reserved in their place.
LEMMA SetupKeeps ==
    ASSUME BelowTop, TypeOK, BlocksOK(reserved, blocks), FdtOK(fdt, blocks),
           NEW size \in Sizes, image_setup_libfdt(size), ~torn'
    PROVE  BlocksOK(reserved', blocks') /\ FdtOK(fdt', blocks')
<1> DEFINE blob == fdt[1]
           freed == lmb_free(reserved, blob)
           q == Region(blob.base, size)
           added == lmb_add_region(freed.rgn, q)
           rest == blocks \ {blob}
<1>1. /\ Len(fdt) = 1 /\ size <= blob.size /\ reserved' = added.rgn
      /\ blocks' = IF added.fails THEN rest ELSE rest \cup {q}
      /\ fdt' = <<blob, blob>> /\ torn' = (torn \/ freed.cut)
  BY Zenon DEF image_setup_libfdt
<1>2. blob \in blocks /\ blob # UBoot
  BY <1>1, Zenon DEF FdtOK
<1>3. Table(reserved) /\ InMemory(blob) /\ HeldWhole(reserved, blob)
  BY <1>2, Zenon DEF BlocksOK
<1>4. Takes(reserved, blob, freed.rgn)
  BY <1>1, <1>3, FreeKeeps, Zenon
<1>5. BlocksOK(freed.rgn, rest)
  BY <1>2, <1>4, BlockTaken, Zenon
<1> HIDE DEF freed, rest, blob
<1>6. /\ blob.base \in Nat /\ blob.size \in Nat /\ blob.base + blob.size <= MemEnd
      /\ size \in Nat \ {0} /\ MemEnd \in Nat /\ blob \in Interval
  BY <1>3, InMemoryNumbers, Arguments, Memory, Zenon
<1>7. blob.base + size <= MemEnd
  BY <1>1, <1>6
<1>8. InMemory(q) /\ q.base = blob.base /\ q.size = size
  BY <1>6, <1>7, RegionInMemory, RegionFields, Zenon
<1> HIDE DEF q
<1>9. ASSUME NEW a \in Nat, In(q, a) PROVE ~Held(freed.rgn, a)
  <2>1. In(blob, a)
    BY <1>1, <1>6, <1>8, <1>9 DEF In
  <2> QED BY <1>4, <2>1, Zenon DEF Takes
<1>10. Table(freed.rgn) /\ Clear(freed.rgn, q)
  BY <1>4, <1>8, <1>9, ClearOfBytes, Zenon DEF Takes
<1>11. /\ added.fails => added.rgn = freed.rgn
       /\ ~added.fails => Adds(freed.rgn, q, added.rgn)
  BY <1>8, <1>10, AddKeeps, Zenon
<1> HIDE DEF added
<1>12. BlocksOK(reserved', blocks')
  <2>1. CASE added.fails
    BY <1>1, <1>5, <1>11, <2>1, Zenon
  <2>2. CASE ~added.fails
    <3>1. blocks' = rest \cup {q} /\ Adds(freed.rgn, q, reserved')
      BY <1>1, <1>11, <2>2, Zenon
    <3> QED BY <1>5, <1>8, <1>9, <3>1, BlockAdded, Zenon DEF Adds
  <2> QED BY <2>1, <2>2, Zenon
<1>13. FdtOK(fdt', blocks')
  <2>1. Len(fdt') = 2
    BY <1>1, <1>6, BlockSeqs, Zenon
  <2>2. Len(fdt') # 1
    BY <2>1
  <2> QED BY <2>2, Zenon DEF FdtOK
<1> QED BY <1>12, <1>13, Zenon

\* boot_start_lmb, and Init: U-Boot's block is all there is.
LEMMA StartKeeps ==
    BlocksOK(<<UBoot>>, {UBoot}) /\ FdtOK(<<>>, {UBoot})
<1>1. <<UBoot>> \in Seq(Interval) /\ Len(<<UBoot>>) = 1 /\ <<UBoot>>[1] = UBoot
  BY UBootIs, BlockSeqs, Zenon
<1> DEFINE t == <<UBoot>>
<1> HIDE DEF t
<1>2. t \in Seq(Interval) /\ Len(t) = 1 /\ t[1] = UBoot
  BY <1>1, Zenon DEF t
<1>3. 1 .. Len(t) = {1}
  BY <1>2
<1>4. \A i, j \in 1 .. Len(t) : ~(i < j)
  BY <1>2
<1>5. Table(t)
  BY <1>2, <1>3, <1>4, UBootIs, Zenon DEF Table
<1>6. \A a : In(UBoot, a) => Held(t, a)
  BY <1>2, <1>3, Zenon DEF Held
<1>7. BlocksOK(t, {UBoot})
  BY <1>5, <1>6, UBootIs, Zenon DEF BlocksOK, HeldWhole
<1>8. Len(<<>>) # 1
  OBVIOUS
<1> QED BY <1>7, <1>8, Zenon DEF t, FdtOK

-----------------------------------------------------------------------------
(***************************************************************************)
(* The theorems.                                                           *)
(***************************************************************************)

\* Every step keeps the blocks.
LEMMA StepBlocks ==
    ASSUME BelowTop, TypeOK, BlocksInv, [Next]_vars
    PROVE  BlocksInv'
<1> SUFFICES ASSUME ~torn' PROVE BlocksOK(reserved', blocks') /\ FdtOK(fdt', blocks')
  BY Zenon DEF BlocksInv
<1>1. ASSUME NEW base \in MemBase .. (MemEnd - 1), NEW size \in Sizes, lmb_reserve(base, size)
      PROVE  BlocksOK(reserved', blocks') /\ FdtOK(fdt', blocks')
  <2>1. ~torn
    BY <1>1, Zenon DEF lmb_reserve
  <2> QED BY <1>1, <2>1, ReserveKeeps, Zenon DEF BlocksInv
<1>2. ASSUME alloc_takes PROVE BlocksOK(reserved', blocks') /\ FdtOK(fdt', blocks')
  <2>1. ~torn
    BY <1>2, Zenon DEF alloc_takes
  <2> QED BY <1>2, <2>1, TakesKeeps, Zenon DEF BlocksInv
<1>3. ASSUME NEW size \in Sizes, image_setup_libfdt(size)
      PROVE  BlocksOK(reserved', blocks') /\ FdtOK(fdt', blocks')
  <2>1. ~torn
    BY <1>3, Zenon DEF image_setup_libfdt
  <2> QED BY <1>3, <2>1, SetupKeeps, Zenon DEF BlocksInv
<1>4. ASSUME boot_start_lmb PROVE BlocksOK(reserved', blocks') /\ FdtOK(fdt', blocks')
  <2>1. reserved' = <<UBoot>> /\ blocks' = {UBoot} /\ fdt' = <<>>
    BY <1>4, BootTable, Zenon DEF boot_start_lmb, NoFdt
  <2> QED BY <2>1, StartKeeps, Zenon
<1>5. ASSUME UNCHANGED <<reserved, fdt, blocks, torn>>
      PROVE  BlocksOK(reserved', blocks') /\ FdtOK(fdt', blocks')
  BY <1>5, Zenon DEF BlocksInv
<1>6. ASSUME NEW size \in Sizes, NEW align \in Aligns, NEW max \in MaxAddrs,
             lmb_alloc_base(size, align, max)
      PROVE  UNCHANGED <<reserved, fdt, blocks, torn>>
  BY <1>6, Zenon DEF lmb_alloc_base
<1>7. alloc_below \/ alloc_fails \/ UNCHANGED vars => UNCHANGED <<reserved, fdt, blocks, torn>>
  BY Zenon DEF alloc_below, alloc_fails, vars
<1> QED BY <1>1, <1>2, <1>3, <1>4, <1>5, <1>6, <1>7, Zenon DEF Next

\* The search of __lmb_alloc_base is at a place where what it asks for fits,
\* whether or not the table was torn, and at the top of the address space too.
THEOREM LmbTypes == LimitsFit => (Spec => []TypeInv)
<1>1. LimitsFit => (Init => TypeInv)
  BY InitTypes, Zenon DEF TypeInv
<1>2. TypeInv /\ [Next]_vars => TypeInv'
  BY StepTypes, Zenon DEF TypeInv, LimitsFit
<1> QED BY <1>1, <1>2, PTL DEF Spec

\* The inductive invariant of the table and the blocks.
THEOREM LmbInvariant == BelowTop /\ LimitsFit => (Spec => []IInv)
<1>1. BelowTop /\ LimitsFit => (Init => IInv)
  <2> SUFFICES ASSUME BelowTop, LimitsFit, Init PROVE IInv
    BY Zenon
  <2>1. reserved = <<UBoot>> /\ blocks = {UBoot} /\ fdt = <<>>
    BY BootTable, Zenon DEF Init, NoFdt
  <2>2. BlocksInv
    BY <2>1, StartKeeps, Zenon DEF BlocksInv
  <2> QED BY <2>2, InitTypes, Zenon DEF IInv, TypeInv
<1>2. IInv /\ [Next]_vars => IInv'
  BY StepTypes, StepBlocks, Zenon DEF IInv, TypeInv, LimitsFit, BelowTop
<1> QED BY <1>1, <1>2, PTL DEF Spec

\* lmb_add_region, looking at one neighbour only, keeps the table sorted with a
\* gap between regions, however regions are merged, extended, split and freed.
THEOREM LmbCanonical == BelowTop /\ LimitsFit => (Spec => []Canonical)
<1>1. IInv => Canonical
  <2> SUFFICES ASSUME IInv, ~torn, NEW i \in 1 .. (Len(reserved) - 1)
               PROVE  reserved[i].base + reserved[i].size < reserved[i + 1].base
    BY Zenon DEF Canonical
  <2>1. Table(reserved)
    BY Zenon DEF IInv, BlocksInv, BlocksOK
  <2>2. Len(reserved) \in Nat
    BY <2>1, TableType, Zenon
  <2>3. i \in 1 .. Len(reserved) /\ i + 1 \in 1 .. Len(reserved) /\ i < i + 1
    BY <2>2
  <2> QED BY <2>1, <2>3, Zenon DEF Table, Below
<1> QED BY <1>1, LmbInvariant, PTL

\* lmb_free and lmb_add_region never lose a byte of a block that is in use.
THEOREM LmbCovered == BelowTop /\ LimitsFit => (Spec => []Covered)
<1>1. IInv => Covered
  <2> SUFFICES ASSUME IInv, ~torn, NEW b \in blocks, NEW a \in Bytes(b)
               PROVE  a \in AllBytes(Regions(reserved))
    BY Zenon DEF Covered, AllBytes
  <2>1. BelowTop /\ Table(reserved) /\ InMemory(b) /\ HeldWhole(reserved, b)
    BY Zenon DEF IInv, BlocksInv, BlocksOK
  <2> QED BY <2>1, BytesAre, TableBytes, Zenon DEF HeldWhole
<1> QED BY <1>1, LmbInvariant, PTL

\* No two blocks overlap: neither lmb_reserve nor an allocation hands out what
\* is in use, and U-Boot itself is one of the blocks.
THEOREM LmbApart == BelowTop /\ LimitsFit => (Spec => []Apart)
<1>1. IInv => Apart
  <2> SUFFICES ASSUME IInv, ~torn, NEW b \in blocks, NEW c \in blocks, b # c,
                      NEW a, a \in Bytes(b), a \in Bytes(c)
               PROVE  FALSE
    BY Zenon DEF Apart
  <2>1. BelowTop /\ InMemory(b) /\ InMemory(c) /\ Disjoint(b, c)
    BY Zenon DEF IInv, BlocksInv, BlocksOK
  <2> QED BY <2>1, BytesAre, Zenon DEF Disjoint
<1> QED BY <1>1, LmbInvariant, PTL

\* What an allocation takes is aligned, within memory and below its limit.
THEOREM LmbAllocFits == LimitsFit => (Spec => []AllocFits)
<1>1. TypeInv => AllocFits
  BY SearchIs, Zenon DEF TypeInv, AllocFits, Found, Fits
<1> QED BY <1>1, LmbTypes, PTL

\* The loop of __lmb_alloc_base ends: each turn goes on strictly below, and it
\* stops at 0.
SearchDescends ==
    [][search # NoSearch /\ search' # NoSearch /\ search' # search =>
            search'[1].base < search[1].base]_vars

\* Every turn of the loop of __lmb_alloc_base takes it strictly lower.
THEOREM LmbSearchDescends == LimitsFit => (Spec => SearchDescends)
<1>1. TypeInv /\ [Next]_vars =>
        [search # NoSearch /\ search' # NoSearch /\ search' # search =>
            search'[1].base < search[1].base]_vars
  <2> SUFFICES ASSUME TypeInv, Next, search # NoSearch, search' # NoSearch, search' # search
               PROVE  search'[1].base < search[1].base
    BY Zenon
  <2>1. alloc_below
    BY Zenon DEF Next, lmb_reserve, lmb_alloc_base, alloc_fails, alloc_takes,
                 image_setup_libfdt, boot_start_lmb
  <2>2. PICK s \in SearchType : search' = <<s>> /\ s.base < search[1].base
    BY <2>1, GoesBelow, Zenon DEF TypeInv
  <2>3. search'[1] = s
    BY <2>2, Zenon
  <2> QED BY <2>2, <2>3, Zenon
<1> QED BY <1>1, LmbTypes, PTL DEF Spec, SearchDescends

\* lmb_add_region never meets an empty table, where it would look at entries
\* that are not there (cnt - 1 wraps): not in a state, and not after lmb_free.
NeverEmpty ==
    ~torn => /\ reserved # <<>>
             /\ Len(fdt) = 1 /\ ~lmb_free(reserved, fdt[1]).cut =>
                    lmb_free(reserved, fdt[1]).rgn # <<>>

\* U-Boot's block is never freed, so the table of reserved regions never is empty.
THEOREM LmbNeverEmpty == BelowTop /\ LimitsFit => (Spec => []NeverEmpty)
<1>1. ASSUME NEW rgn, NEW bs, BlocksOK(rgn, bs) PROVE rgn # <<>>
  <2>1. HeldWhole(rgn, UBoot)
    BY <1>1, Zenon DEF BlocksOK
  <2>2. UBootBase \in Nat /\ In(UBoot, UBootBase)
    BY UBootIs, Memory DEF In
  <2>3. PICK i \in 1 .. Len(rgn) : In(rgn[i], UBootBase)
    BY <2>1, <2>2, Zenon DEF HeldWhole, Held
  <2>4. 1 .. Len(<<>>) = {}
    OBVIOUS
  <2> QED BY <2>3, <2>4, Zenon
<1>2. IInv => NeverEmpty
  <2> SUFFICES ASSUME IInv, ~torn PROVE NeverEmpty
    BY Zenon DEF NeverEmpty
  <2>1. BelowTop /\ BlocksOK(reserved, blocks) /\ FdtOK(fdt, blocks)
    BY Zenon DEF IInv, BlocksInv
  <2>2. ASSUME Len(fdt) = 1, ~lmb_free(reserved, fdt[1]).cut
        PROVE  lmb_free(reserved, fdt[1]).rgn # <<>>
    <3>1. fdt[1] \in blocks /\ fdt[1] # UBoot
      BY <2>1, <2>2, Zenon DEF FdtOK
    <3>2. Table(reserved) /\ InMemory(fdt[1]) /\ HeldWhole(reserved, fdt[1])
      BY <2>1, <3>1, Zenon DEF BlocksOK
    <3>3. BlocksOK(lmb_free(reserved, fdt[1]).rgn, blocks \ {fdt[1]})
      BY <2>1, <2>2, <3>1, <3>2, FreeKeeps, BlockTaken, Zenon
    <3> QED BY <1>1, <3>3, Zenon
  <2> QED BY <1>1, <2>1, <2>2, Zenon DEF NeverEmpty
<1> QED BY <1>2, LmbInvariant, PTL
=============================================================================
