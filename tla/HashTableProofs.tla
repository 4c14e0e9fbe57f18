-------------------------- MODULE HashTableProofs --------------------------
(***************************************************************************)
(* Proofs about HashTable, for any names, values, hash function and size   *)
(* of the table, as long as the probe path of every hash value visits      *)
(* every bucket (ProbeAssumption, which holds because the size is prime).  *)
(*                                                                         *)
(* The inductive invariant says where an entry lies: on the probe path of  *)
(* its name, behind buckets that were all used before (KeysReachable), and *)
(* in one bucket only (KeysOnce).  That makes the search complete, in      *)
(* every state.  As long as a bucket was never used (Roomy) the place of a *)
(* new entry is not in use (EntryFree), and the table agrees with the      *)
(* environment the console was promised (Agreement).                       *)
(***************************************************************************)
EXTENDS HashTable, FiniteSetTheorems, WellFoundedInduction, TLAPS

\* Bucket s is where the search for k gets, if k is there.
OnPath(k, s) == \E n \in 0..(Size - 1) : s = Probe[Hash[k]][n] /\ Reached(k, n)

KeysReachable ==
    \A s \in Slots : key[s] # None => used[s] = Hash[key[s]] /\ OnPath(key[s], s)

KeysOnce ==
    \A s, t \in Slots : key[s] # None /\ key[s] = key[t] => s = t

EntriesWhole ==
    oom = 0 => \A s \in Slots : used[s] > 0 => key[s] # None /\ data[s] # None

Agreement ==
    Roomy /\ oom = 0 =>
        /\ \A s \in Slots : key[s] # None => data[s] = env[key[s]]
        /\ \A k \in Keys : env[k] # None => \E s \in Slots : key[s] = k

LiveSlots == {s \in Slots : used[s] > 0}

Counted == Roomy /\ oom = 0 => filled = Cardinality(LiveSlots)

TableType ==
    /\ used \in [Slots -> (0..Size) \cup {-1}]
    /\ key \in [Slots -> Keys \cup {None}]
    /\ data \in [Slots -> Values \cup {None}]
    /\ filled \in Int
    /\ env \in [Keys -> Values \cup {None}]
    /\ oom \in 0..MaxOom

TableInv ==
    TableType /\ KeysReachable /\ KeysOnce /\ EntriesWhole /\ Agreement /\ Counted

IInv == TypeOK /\ TableInv

(***************************************************************************)
(* A set of natural numbers has a smallest element: the loop of hsearch_r  *)
(* stops at a first bucket.                                                *)
(***************************************************************************)
LEMMA HasMin ==
    ASSUME NEW S \in SUBSET Nat, S # {}
    PROVE  \E n \in S : \A m \in S : n <= m
<1> DEFINE R == OpToRel(<, Nat)
<1>1. IsWellFoundedOn(R, Nat)
  BY NatLessThanWellFounded
<1>2. \E x \in S : \A y \in S : ~(<<y, x>> \in R)
  <2> HIDE DEF R
  <2> QED BY <1>1, WFMin
<1>3. \A x, y \in Nat : <<y, x>> \in R <=> y < x
  BY DEF OpToRel
<1> HIDE DEF R
<1>4. PICK x \in S : \A y \in S : ~(<<y, x>> \in R)
  BY <1>2
<1>5. ASSUME NEW m \in S PROVE x <= m
  <2>1. ~(<<m, x>> \in R)
    BY <1>4
  <2>2. x \in Nat /\ m \in Nat
    OBVIOUS
  <2>3. ~(m < x)
    BY <2>1, <2>2, <1>3
  <2> QED BY <2>2, <2>3
<1> QED BY <1>5

(***************************************************************************)
(* Probing stays inside the table and never comes to a bucket twice.       *)
(***************************************************************************)
LEMMA ProbeSlots ==
    ASSUME NEW h \in Slots, NEW n \in 0..(Size - 1)
    PROVE  /\ Probe[h][n] \in Slots
           /\ \A m \in 0..(Size - 1) : Probe[h][m] = Probe[h][n] => m = n
<1>1. Probe[h] \in [0..(Size - 1) -> Slots]
  BY ProbeAssumption
<1>2. Probe[h][n] \in Slots
  BY <1>1
<1>3. \A m \in 0..(Size - 1) : Probe[h][m] = Probe[h][n] => m = n
  BY ProbeAssumption
<1> QED BY <1>2, <1>3

(***************************************************************************)
(* The search of hsearch_r is complete: it finds a name exactly when some  *)
(* bucket has it, in that bucket.                                          *)
(***************************************************************************)
LEMMA SearchComplete ==
    ASSUME TableType, KeysReachable, KeysOnce, NEW k \in Keys
    PROVE  /\ \A s \in Slots : key[s] = k => Hits(k) = {s} /\ FoundSlot(k) = s
           /\ Found(k) => FoundSlot(k) \in Slots /\ key[FoundSlot(k)] = k
           /\ Found(k) <=> \E s \in Slots : key[s] = k
<1>0. k # None /\ Hash[k] \in Slots /\ Size \in Nat
  BY NoneAssumption, HashAssumption, ProbeAssumption
<1>1. \A s \in Hits(k) : s \in Slots /\ key[s] = k
  BY <1>0, ProbeSlots DEF Hits, Holds
<1>2. ASSUME NEW s \in Slots, key[s] = k
      PROVE  s \in Hits(k)
  <2>2. used[s] = Hash[k] /\ OnPath(k, s)
    BY <1>2, <1>0 DEF KeysReachable
  <2>3. PICK n \in 0..(Size - 1) : s = Probe[Hash[k]][n] /\ Reached(k, n)
    BY <2>2 DEF OnPath
  <2>4. ASSUME NEW m \in 0..(n - 1), Holds(k, Probe[Hash[k]][m])
        PROVE  FALSE
    <3>1. m \in 0..(Size - 1) /\ m # n
      BY <1>0
    <3>2. Probe[Hash[k]][m] \in Slots
      BY <3>1, <1>0, ProbeSlots
    <3>3. Probe[Hash[k]][m] = s
      BY <2>4, <3>2, <1>2, <1>0 DEF Holds, KeysOnce
    <3> QED BY <3>1, <3>3, <2>3, <1>0, ProbeSlots
  <2> QED BY <1>2, <2>2, <2>3, <2>4 DEF Hits, Holds
<1>3. ASSUME NEW s \in Slots, key[s] = k
      PROVE  Hits(k) = {s} /\ FoundSlot(k) = s
  <2>1. \A t \in Hits(k) : t = s
    BY <1>0, <1>1, <1>3 DEF KeysOnce
  <2>2. s \in Hits(k)
    BY <1>2, <1>3
  <2>3. Hits(k) = {s}
    BY <2>1, <2>2
  <2> QED BY <2>3 DEF FoundSlot
<1>4. ASSUME Found(k) PROVE FoundSlot(k) \in Slots /\ key[FoundSlot(k)] = k
  <2>1. PICK s \in Hits(k) : TRUE
    BY <1>4 DEF Found
  <2>2. s \in Slots /\ key[s] = k
    BY <1>1, <2>1
  <2> QED BY <2>2, <1>3
<1>5. Found(k) <=> \E s \in Slots : key[s] = k
  BY <1>2, <1>4 DEF Found
<1> QED BY <1>3, <1>4, <1>5

(***************************************************************************)
(* Where hsearch_r creates an entry: on the probe path of the name, behind *)
(* used buckets; and while a bucket was never used, not where another      *)
(* variable lives.                                                         *)
(***************************************************************************)
LEMMA EntryFree ==
    ASSUME TableType, NEW k \in Keys
    PROVE  /\ EntrySlot(k) \in Slots
           /\ OnPath(k, EntrySlot(k))
           /\ Roomy => used[EntrySlot(k)] <= 0
<1>0. Hash[k] \in Slots /\ 0 \in 0..(Size - 1) /\ Size \in Nat
  BY HashAssumption, ProbeAssumption
<1>1. OnPath(k, Hash[k])
  <2>1. Probe[Hash[k]][0] = Hash[k]
    BY <1>0, ProbeAssumption
  <2>2. Reached(k, 0)
    BY DEF Reached
  <2> QED BY <1>0, <2>1, <2>2 DEF OnPath
<1>2. ASSUME Roomy PROVE Empties(k) # {}
  <2>1. PICK s \in Slots : used[s] = 0
    BY <1>2 DEF Roomy, NeverUsed
  <2>a. PICK i \in 0..(Size - 1) : Probe[Hash[k]][i] = s
    BY <1>0, ProbeAssumption
  <2> DEFINE Z == {n \in 0..(Size - 1) : used[Probe[Hash[k]][n]] = 0}
  <2>2. i \in Z /\ Z \in SUBSET Nat
    BY <1>0, <2>1, <2>a
  <2>z. \A n \in 0..(Size - 1) : n \in Z <=> used[Probe[Hash[k]][n]] = 0
    OBVIOUS
  <2>y. \A n \in Z : n \in 0..(Size - 1)
    OBVIOUS
  <2> HIDE DEF Z
  <2>3. PICK n \in Z : \A m \in Z : n <= m
    BY <2>2, HasMin
  <2>4. n \in 0..(Size - 1) /\ used[Probe[Hash[k]][n]] = 0
    BY <2>3, <2>y, <2>z
  <2>b. Probe[Hash[k]][n] \in Slots
    BY <1>0, <2>4, ProbeSlots
  <2>5. ASSUME NEW m \in 0..(n - 1) PROVE used[Probe[Hash[k]][m]] # 0
    <3>1. m \in 0..(Size - 1) /\ ~(n <= m)
      BY <1>0, <2>4
    <3> QED BY <3>1, <2>3, <2>z
  <2> QED BY <2>4, <2>b, <2>5 DEF Empties, Reached
<1>3. \A s \in Empties(k) : s \in Slots /\ OnPath(k, s) /\ used[s] = 0
  BY <1>0, ProbeSlots DEF Empties, OnPath
<1>4. CASE used[Hash[k]] = -1 \/ Empties(k) = {}
  <2>1. EntrySlot(k) = Hash[k]
    BY <1>4 DEF EntrySlot
  <2>2. Roomy => used[Hash[k]] = -1
    BY <1>2, <1>4
  <2> QED BY <1>0, <1>1, <2>1, <2>2
<1>5. CASE ~(used[Hash[k]] = -1 \/ Empties(k) = {})
  <2>1. EntrySlot(k) \in Empties(k)
    BY <1>3, <1>5 DEF EntrySlot
  <2>2. EntrySlot(k) \in Slots /\ OnPath(k, EntrySlot(k)) /\ used[EntrySlot(k)] = 0
    BY <1>3, <2>1
  <2> QED BY <2>2
<1> QED BY <1>4, <1>5

(***************************************************************************)
(* A bucket, once used, never becomes a never-used one again: every probe  *)
(* path that was open stays open.                                          *)
(***************************************************************************)
LEMMA OneSlot ==
    ASSUME TableType, NEW idx \in Slots, NEW u \in (1..Size) \cup {-1},
           used' = [used EXCEPT ![idx] = u]
    PROVE  /\ used' \in [Slots -> (0..Size) \cup {-1}]
           /\ \A s \in Slots : used'[s] = IF s = idx THEN u ELSE used[s]
           /\ \A k \in Keys, s \in Slots : OnPath(k, s) => OnPath(k, s)'
           /\ Roomy' => Roomy
<1>0. Size \in Nat
  BY ProbeAssumption
<1>1. used' \in [Slots -> (0..Size) \cup {-1}]
  BY <1>0 DEF TableType
<1>2. \A s \in Slots : used'[s] = IF s = idx THEN u ELSE used[s]
  BY DEF TableType
<1>a. u # 0
  OBVIOUS
<1>3. \A s \in Slots : used[s] # 0 => used'[s] # 0
  BY <1>2, <1>a
<1>4. ASSUME NEW k \in Keys, NEW s \in Slots, OnPath(k, s)
      PROVE  OnPath(k, s)'
  <2>1. PICK n \in 0..(Size - 1) : s = Probe[Hash[k]][n] /\ Reached(k, n)
    BY <1>4 DEF OnPath
  <2>2. ASSUME NEW m \in 0..(n - 1)
        PROVE  used'[Probe[Hash[k]][m]] # 0
    <3>1. m \in 0..(Size - 1)
      BY <1>0
    <3>2. Probe[Hash[k]][m] \in Slots
      BY <3>1, HashAssumption, ProbeSlots
    <3>3. used[Probe[Hash[k]][m]] # 0
      BY <2>1 DEF Reached
    <3> QED BY <3>2, <3>3, <1>3
  <2>3. Reached(k, n)'
    BY <2>2 DEF Reached
  <2> QED BY <2>1, <2>3 DEF OnPath
<1>5. Roomy' => Roomy
  BY <1>3 DEF Roomy, NeverUsed
<1> QED BY <1>1, <1>2, <1>4, <1>5

\* The buckets in use are finitely many.
LEMMA LiveFinite == IsFiniteSet(LiveSlots)
<1>1. IsFiniteSet(Slots)
  BY FS_Interval, ProbeAssumption DEF Slots
<1> QED BY <1>1, FS_Subset DEF LiveSlots

\* A bucket that is not in use has no name.
LEMMA UnusedNameless ==
    ASSUME TableType, KeysReachable, NEW i \in Slots, used[i] <= 0
    PROVE  key[i] = None
<1> SUFFICES ASSUME key[i] # None PROVE FALSE
  OBVIOUS
<1>1. PICK j \in Keys : j = key[i]
  BY DEF TableType
<1>2. used[i] = Hash[j]
  BY <1>1 DEF KeysReachable
<1>3. Hash[j] \in 1..Size /\ Size \in Nat
  BY HashAssumption, ProbeAssumption DEF Slots
<1> QED BY <1>2, <1>3

\* A call that changes nothing keeps the invariant.
LEMMA NothingKeeps == TableInv /\ Nothing => TableInv'
<1> SUFFICES ASSUME TableInv, Nothing PROVE TableInv'
  OBVIOUS
<1> USE DEF Nothing, TableInv
<1>1. TableType'
  BY DEF TableType
<1>2. KeysReachable' /\ KeysOnce'
  BY DEF KeysReachable, OnPath, Reached, KeysOnce
<1>3. EntriesWhole'
  BY DEF EntriesWhole
<1>4. Agreement'
  BY DEF Agreement, Roomy, NeverUsed
<1>5. Counted'
  BY DEF Counted, LiveSlots, Roomy, NeverUsed
<1> QED BY <1>1, <1>2, <1>3, <1>4, <1>5

\* After a strdup() failed, only the places of the entries are promised.
LEMMA OomCounts ==
    ASSUME oom \in 0..MaxOom, oom < MaxOom, oom' = oom + 1
    PROVE  /\ oom' \in 0..MaxOom
           /\ EntriesWhole' /\ Agreement' /\ Counted'
<1>1. oom' \in 0..MaxOom /\ oom' # 0
  BY ImportAssumption
<1> QED BY <1>1 DEF EntriesWhole, Agreement, Counted

(***************************************************************************)
(* hsearch_r replacing the value of an existing variable.                  *)
(***************************************************************************)
LEMMA OverwriteKeeps ==
    ASSUME TableInv, NEW k \in Keys, NEW v \in Values, Overwrite(k, v)
    PROVE  TableInv'
<1> USE DEF TableInv
<1>0. k # None /\ v # None
  BY NoneAssumption
<1> DEFINE i == FoundSlot(k)
<1>1. i \in Slots /\ key[i] = k
  BY SearchComplete DEF Overwrite
<1> HIDE DEF i
<1>2. CASE Nothing
  BY <1>2, NothingKeeps
<1>3. ASSUME UNCHANGED <<used, key, filled>>
      PROVE  KeysReachable' /\ KeysOnce'
  BY <1>3 DEF KeysReachable, OnPath, Reached, KeysOnce
<1>4. CASE /\ data' = [data EXCEPT ![i] = v] /\ env' = [env EXCEPT ![k] = v]
           /\ UNCHANGED <<used, key, filled, oom>>
  <2>1. TableType'
    BY <1>4 DEF TableType
  <2>2. EntriesWhole'
    BY <1>4, <1>0, <1>1 DEF EntriesWhole, TableType
  <2>3. Agreement'
    BY <1>4, <1>1 DEF Agreement, TableType, Roomy, NeverUsed, KeysOnce
  <2>4. Counted'
    BY <1>4 DEF Counted, LiveSlots, Roomy, NeverUsed
  <2> QED BY <1>3, <1>4, <2>1, <2>2, <2>3, <2>4
<1>5. CASE /\ oom < MaxOom /\ oom' = oom + 1
           /\ data' = [data EXCEPT ![i] = None]
           /\ UNCHANGED <<used, key, filled, env>>
  <2>1. oom' \in 0..MaxOom /\ EntriesWhole' /\ Agreement' /\ Counted'
    BY <1>5, OomCounts DEF TableType
  <2>2. TableType'
    BY <1>5, <2>1 DEF TableType
  <2> QED BY <1>3, <1>5, <2>1, <2>2
<1> QED BY <1>2, <1>4, <1>5 DEF Overwrite, i

(***************************************************************************)
(* hsearch_r creating a variable; refused, or out of memory half way.      *)
(***************************************************************************)
LEMMA CreateKeeps ==
    ASSUME TableInv, NEW k \in Keys, NEW v \in Values, Create(k, v)
    PROVE  TableInv'
<1> USE DEF TableInv
<1>0. k # None /\ v # None /\ Hash[k] \in 1..Size /\ Size \in Nat
  BY NoneAssumption, HashAssumption, ProbeAssumption DEF Slots
<1> DEFINE i == EntrySlot(k)
<1>1. i \in Slots /\ OnPath(k, i) /\ (Roomy => used[i] <= 0)
  BY EntryFree
<1>2. \A s \in Slots : key[s] # k
  BY SearchComplete DEF Create
<1> HIDE DEF i
<1>3. ASSUME NEW u \in {Hash[k], -1}, NEW q \in {k, None}, NEW w \in Values \cup {None},
             q = k => u = Hash[k],
             used' = [used EXCEPT ![i] = u],
             key' = [key EXCEPT ![i] = q],
             data' = [data EXCEPT ![i] = w]
      PROVE  /\ KeysReachable' /\ KeysOnce'
             /\ used' \in [Slots -> (0..Size) \cup {-1}]
             /\ key' \in [Slots -> Keys \cup {None}]
             /\ data' \in [Slots -> Values \cup {None}]
             /\ \A s \in Slots : used'[s] = IF s = i THEN u ELSE used[s]
             /\ \A s \in Slots : key'[s] = IF s = i THEN q ELSE key[s]
             /\ \A s \in Slots : data'[s] = IF s = i THEN w ELSE data[s]
             /\ Roomy' => Roomy
  <2>1. u \in (1..Size) \cup {-1}
    BY <1>0
  <2>2. /\ used' \in [Slots -> (0..Size) \cup {-1}]
        /\ \A s \in Slots : used'[s] = IF s = i THEN u ELSE used[s]
        /\ \A j \in Keys, s \in Slots : OnPath(j, s) => OnPath(j, s)'
        /\ Roomy' => Roomy
    BY <1>1, <1>3, <2>1, OneSlot
  <2>3. /\ key' \in [Slots -> Keys \cup {None}]
        /\ data' \in [Slots -> Values \cup {None}]
        /\ \A s \in Slots : key'[s] = IF s = i THEN q ELSE key[s]
        /\ \A s \in Slots : data'[s] = IF s = i THEN w ELSE data[s]
    BY <1>1, <1>3 DEF TableType
  <2>4. ASSUME NEW s \in Slots, key'[s] # None
        PROVE  (used[s] = Hash[key[s]] /\ OnPath(key[s], s))'
    <3>1. PICK j \in Keys : j = key'[s]
      BY <2>3, <2>4
    <3>2. CASE s = i
      <4>1. j = k /\ used'[s] = Hash[j]
        BY <1>3, <2>2, <2>3, <2>4, <3>1, <3>2
      <4>2. OnPath(j, s)'
        BY <1>1, <2>2, <3>2, <4>1
      <4> QED BY <3>1, <4>1, <4>2
    <3>3. CASE s # i
      <4>1. key[s] = j /\ used'[s] = used[s] /\ j # None
        BY <2>2, <2>3, <2>4, <3>1, <3>3
      <4>2. used[s] = Hash[j] /\ OnPath(j, s)
        BY <4>1 DEF KeysReachable
      <4>3. OnPath(j, s)'
        BY <2>2, <4>2
      <4> QED BY <3>1, <4>1, <4>2, <4>3
    <3> QED BY <3>2, <3>3
  <2>5. KeysReachable'
    BY <2>4 DEF KeysReachable
  <2>6. KeysOnce'
    BY <1>2, <2>3 DEF KeysOnce
  <2> QED BY <2>2, <2>3, <2>5, <2>6
<1>4. CASE /\ used' = [used EXCEPT ![i] = Hash[k]]
           /\ key' = [key EXCEPT ![i] = k]
           /\ data' = [data EXCEPT ![i] = v]
           /\ filled' = filled + 1
           /\ env' = [env EXCEPT ![k] = v]
           /\ UNCHANGED oom
  <2>1. /\ KeysReachable' /\ KeysOnce'
        /\ used' \in [Slots -> (0..Size) \cup {-1}]
        /\ key' \in [Slots -> Keys \cup {None}]
        /\ data' \in [Slots -> Values \cup {None}]
        /\ \A s \in Slots : used'[s] = IF s = i THEN Hash[k] ELSE used[s]
        /\ \A s \in Slots : key'[s] = IF s = i THEN k ELSE key[s]
        /\ \A s \in Slots : data'[s] = IF s = i THEN v ELSE data[s]
        /\ Roomy' => Roomy
    BY <1>3, <1>4
  <2>2. TableType'
    BY <1>4, <2>1 DEF TableType
  <2>3. EntriesWhole'
    BY <1>0, <1>4, <2>1 DEF EntriesWhole
  <2>4. Agreement'
    <3> SUFFICES ASSUME Roomy, oom = 0
                 PROVE  /\ \A s \in Slots : key'[s] # None => data'[s] = env'[key'[s]]
                        /\ \A j \in Keys : env'[j] # None => \E s \in Slots : key'[s] = j
      BY <1>4, <2>1 DEF Agreement
    <3>1. \A j \in Keys : env'[j] = IF j = k THEN v ELSE env[j]
      BY <1>4 DEF TableType
    <3>2. key[i] = None
      BY <1>1, UnusedNameless
    <3>3. \A s \in Slots : key[s] \in Keys \cup {None}
      BY DEF TableType
    <3>4. \A s \in Slots : key'[s] # None => data'[s] = env'[key'[s]]
      BY <1>2, <2>1, <3>1, <3>3 DEF Agreement
    <3>5. ASSUME NEW j \in Keys, env'[j] # None
          PROVE  \E s \in Slots : key'[s] = j
      <4>1. CASE j = k
        BY <1>1, <2>1, <4>1
      <4>2. CASE j # k
        <5>1. PICK s \in Slots : key[s] = j
          BY <3>1, <3>5, <4>2 DEF Agreement
        <5>2. s # i
          BY <5>1, <3>2, NoneAssumption
        <5> QED BY <2>1, <5>1, <5>2
      <4> QED BY <4>1, <4>2
    <3> QED BY <3>4, <3>5
  <2>5. Counted'
    <3> SUFFICES ASSUME Roomy, oom = 0 PROVE filled' = Cardinality(LiveSlots')
      BY <1>4, <2>1 DEF Counted
    <3>1. i \notin LiveSlots
      BY <1>1 DEF LiveSlots, TableType
    <3>2. LiveSlots' = LiveSlots \cup {i}
      BY <1>0, <1>1, <2>1 DEF LiveSlots
    <3>3. Cardinality(LiveSlots \cup {i}) = Cardinality(LiveSlots) + 1
      BY <3>1, LiveFinite, FS_AddElement
    <3> QED BY <1>4, <3>2, <3>3 DEF Counted
  <2> QED BY <2>1, <2>2, <2>3, <2>4, <2>5
<1>5. CASE /\ oom < MaxOom /\ oom' = oom + 1
           /\ used' = [used EXCEPT ![i] = Hash[k]]
           /\ \/ key' = [key EXCEPT ![i] = k] /\ data' = [data EXCEPT ![i] = None]
              \/ key' = [key EXCEPT ![i] = None] /\ data' = [data EXCEPT ![i] = v]
           /\ UNCHANGED <<filled, env>>
  <2>1. /\ KeysReachable' /\ KeysOnce'
        /\ used' \in [Slots -> (0..Size) \cup {-1}]
        /\ key' \in [Slots -> Keys \cup {None}]
        /\ data' \in [Slots -> Values \cup {None}]
    BY <1>0, <1>3, <1>5
  <2>2. oom' \in 0..MaxOom /\ EntriesWhole' /\ Agreement' /\ Counted'
    BY <1>5, OomCounts DEF TableType
  <2>3. TableType'
    BY <1>5, <2>1, <2>2 DEF TableType
  <2> QED BY <2>1, <2>2, <2>3
<1>6. CASE /\ used' = [used EXCEPT ![i] = -1]
           /\ key' = [key EXCEPT ![i] = None]
           /\ data' = [data EXCEPT ![i] = None]
           /\ UNCHANGED <<filled, env, oom>>
  <2>1. /\ KeysReachable' /\ KeysOnce'
        /\ used' \in [Slots -> (0..Size) \cup {-1}]
        /\ key' \in [Slots -> Keys \cup {None}]
        /\ data' \in [Slots -> Values \cup {None}]
        /\ \A s \in Slots : used'[s] = IF s = i THEN -1 ELSE used[s]
        /\ \A s \in Slots : key'[s] = IF s = i THEN None ELSE key[s]
        /\ \A s \in Slots : data'[s] = IF s = i THEN None ELSE data[s]
        /\ Roomy' => Roomy
    BY <1>0, <1>3, <1>6
  <2>2. TableType'
    BY <1>6, <2>1 DEF TableType
  <2>3. EntriesWhole'
    BY <1>6, <2>1 DEF EntriesWhole
  <2>4. Roomy => key[i] = None
    BY <1>1, UnusedNameless
  <2>5. Agreement'
    BY <1>6, <2>1, <2>4, NoneAssumption DEF Agreement
  <2>6. Counted'
    <3> SUFFICES ASSUME Roomy PROVE LiveSlots' = LiveSlots
      BY <1>6, <2>1 DEF Counted
    <3> QED BY <1>1, <2>1 DEF LiveSlots, TableType
  <2> QED BY <2>1, <2>2, <2>3, <2>5, <2>6
<1> QED BY <1>4, <1>5, <1>6 DEF Create, i

(***************************************************************************)
(* hdelete_r.                                                              *)
(***************************************************************************)
LEMMA DeleteKeeps ==
    ASSUME TableInv, NEW k \in Keys, hdelete_r(k)
    PROVE  TableInv'
<1> USE DEF TableInv
<1>1. CASE Nothing
  BY <1>1, NothingKeeps
<1>2. CASE /\ Found(k) /\ _hdelete(FoundSlot(k))
           /\ env' = [env EXCEPT ![k] = None] /\ UNCHANGED oom
  <2>0. k # None /\ Size \in Nat
    BY NoneAssumption, ProbeAssumption
  <2> DEFINE i == FoundSlot(k)
  <2>1. i \in Slots /\ key[i] = k
    BY <1>2, SearchComplete
  <2>2. /\ used' = [used EXCEPT ![i] = -1]
        /\ key' = [key EXCEPT ![i] = None]
        /\ data' = [data EXCEPT ![i] = None]
        /\ filled' = filled - 1
    BY <1>2 DEF _hdelete
  <2> HIDE DEF i
  <2>3. /\ used' \in [Slots -> (0..Size) \cup {-1}]
        /\ \A s \in Slots : used'[s] = IF s = i THEN -1 ELSE used[s]
        /\ \A j \in Keys, s \in Slots : OnPath(j, s) => OnPath(j, s)'
        /\ Roomy' => Roomy
    BY <2>1, <2>2, OneSlot
  <2>4. /\ \A s \in Slots : key'[s] = IF s = i THEN None ELSE key[s]
        /\ \A s \in Slots : data'[s] = IF s = i THEN None ELSE data[s]
        /\ \A j \in Keys : env'[j] = IF j = k THEN None ELSE env[j]
    BY <1>2, <2>1, <2>2 DEF TableType
  <2>5. TableType'
    BY <1>2, <2>2, <2>3 DEF TableType
  <2>6. KeysReachable'
    <3> SUFFICES ASSUME NEW s \in Slots, key'[s] # None
                 PROVE  (used[s] = Hash[key[s]] /\ OnPath(key[s], s))'
      BY DEF KeysReachable
    <3>0. PICK j \in Keys : j = key'[s]
      BY <2>5 DEF TableType
    <3>1. s # i /\ key[s] = j /\ used'[s] = used[s] /\ j # None
      BY <2>3, <2>4, <3>0
    <3>2. used[s] = Hash[j] /\ OnPath(j, s)
      BY <3>1 DEF KeysReachable
    <3>3. OnPath(j, s)'
      BY <2>3, <3>2
    <3> QED BY <3>0, <3>1, <3>2, <3>3
  <2>7. KeysOnce'
    BY <2>4 DEF KeysOnce
  <2>8. EntriesWhole'
    BY <1>2, <2>3, <2>4 DEF EntriesWhole
  <2>9. Agreement'
    <3> SUFFICES ASSUME Roomy, oom = 0
                 PROVE  /\ \A s \in Slots : key'[s] # None => data'[s] = env'[key'[s]]
                        /\ \A j \in Keys : env'[j] # None => \E s \in Slots : key'[s] = j
      BY <1>2, <2>3 DEF Agreement
    <3>1. \A s \in Slots : key[s] \in Keys \cup {None}
      BY DEF TableType
    <3>2. \A s \in Slots : key'[s] # None => data'[s] = env'[key'[s]]
      BY <2>0, <2>1, <2>4, <3>1 DEF Agreement, KeysOnce
    <3>3. \A j \in Keys : env'[j] # None => \E s \in Slots : key'[s] = j
      BY <2>1, <2>4 DEF Agreement
    <3> QED BY <3>2, <3>3
  <2>10. Counted'
    <3> SUFFICES ASSUME Roomy, oom = 0 PROVE filled' = Cardinality(LiveSlots')
      BY <1>2, <2>3 DEF Counted
    <3>1. i \in LiveSlots
      <4>1. used[i] = Hash[k] /\ Hash[k] > 0
        BY <2>0, <2>1, HashAssumption DEF KeysReachable, Slots
      <4> QED BY <2>1, <4>1 DEF LiveSlots
    <3>2. LiveSlots' = LiveSlots \ {i}
      BY <2>1, <2>3 DEF LiveSlots
    <3>3. Cardinality(LiveSlots \ {i}) = Cardinality(LiveSlots) - 1
      BY <3>1, LiveFinite, FS_RemoveElement
    <3> QED BY <2>2, <3>2, <3>3 DEF Counted
  <2> QED BY <2>5, <2>6, <2>7, <2>8, <2>9, <2>10
<1> QED BY <1>1, <1>2 DEF hdelete_r

LEMMA EnterKeeps ==
    ASSUME TableInv, NEW k \in Keys, NEW v \in Values, Enter(k, v)
    PROVE  TableInv'
<1> QED BY OverwriteKeeps, CreateKeeps, NothingKeeps DEF Enter, TableFull

(***************************************************************************)
(* The import, line by line.                                               *)
(***************************************************************************)
LEMMA ImportLineKeeps ==
    ASSUME IInv, ImportLine
    PROVE  IInv'
<1> USE DEF IInv
<1> DEFINE line == Head(todo)
<1>1. line \in Lines /\ Tail(todo) \in Seq(Lines)
  BY DEF TypeOK, ImportLine
<1>2. CASE line.op = "noname"
  <2>1. Nothing /\ todo' = <<>> /\ listed' = {} /\ pc' = "console" /\ UNCHANGED nvars
    BY <1>2 DEF ImportLine
  <2>2. TypeOK'
    BY <2>1 DEF TypeOK, Nothing
  <2> QED BY <2>1, <2>2, NothingKeeps
<1>3. CASE line.op # "noname"
  <2>1. /\ todo' = Tail(todo) /\ listed' = listed \ {line.key} /\ UNCHANGED <<pc, nvars>>
        /\ \/ Nothing
           \/ line.op = "set" /\ Enter(line.key, line.val)
           \/ line.op = "del" /\ hdelete_r(line.key)
    BY <1>3 DEF ImportLine
  <2>2. line.key \in Keys /\ (line.op = "set" => line.val \in Values)
    BY <1>1 DEF Lines
  <2> HIDE DEF line
  <2>3. TableInv'
    BY <2>1, <2>2, NothingKeeps, EnterKeeps, DeleteKeeps
  <2>4. TypeOK'
    BY <1>1, <2>1, <2>3 DEF TypeOK, TableInv, TableType
  <2> QED BY <2>3, <2>4
<1> QED BY <1>2, <1>3

LEMMA ImportBeginKeeps ==
    ASSUME IInv, NEW script \in Scripts, NEW names \in VarLists,
           NEW noclear \in BOOLEAN, ImportBegin(script, names, noclear)
    PROVE  IInv'
<1> USE DEF IInv
<1>1. script \in Seq(Lines) /\ names \in SUBSET Keys
  BY ImportAssumption
<1>2. TableInv'
  <2>1. CASE Nothing
    BY <2>1, NothingKeeps
  <2>2. CASE /\ used' = [s \in Slots |-> 0] /\ key' = [s \in Slots |-> None]
             /\ data' = [s \in Slots |-> None] /\ filled' = 0
             /\ env' = [k \in Keys |-> None] /\ UNCHANGED oom
    <3>1. TableType'
      BY <2>2, ProbeAssumption DEF TypeOK, TableType
    <3>2. KeysReachable' /\ KeysOnce' /\ EntriesWhole' /\ Agreement'
      BY <2>2 DEF KeysReachable, KeysOnce, EntriesWhole, Agreement
    <3>3. LiveSlots' = {}
      BY <2>2 DEF LiveSlots
    <3>4. Counted'
      BY <2>2, <3>3, FS_EmptySet DEF Counted
    <3> QED BY <3>1, <3>2, <3>4 DEF TableInv
  <2> QED BY <2>1, <2>2 DEF ImportBegin
<1>3. TypeOK'
  BY <1>1, <1>2 DEF TypeOK, TableInv, TableType, ImportBegin
<1> QED BY <1>2, <1>3

(***************************************************************************)
(* The inductive invariant.                                                *)
(***************************************************************************)
LEMMA InitIInv == Init => IInv
<1> SUFFICES ASSUME Init PROVE IInv
  OBVIOUS
<1>0. Size \in Nat /\ MaxOom \in Nat
  BY ImportAssumption, ProbeAssumption
<1>a. used \in [Slots -> (0..Size) \cup {-1}] /\ oom \in 0..MaxOom /\ filled \in Int
  BY <1>0 DEF Init
<1>b. /\ key \in [Slots -> Keys \cup {None}] /\ data \in [Slots -> Values \cup {None}]
      /\ env \in [Keys -> Values \cup {None}]
  BY DEF Init
<1>c. todo \in Seq(Lines) /\ listed \in SUBSET Keys
  BY DEF Init
<1>d. nvars \in BOOLEAN /\ pc \in {"console", "lines"}
  BY DEF Init
<1>1. TypeOK
  BY <1>a, <1>b, <1>c, <1>d DEF TypeOK
<1>2. TableType
  BY <1>1 DEF TypeOK, TableType
<1>3. KeysReachable /\ KeysOnce /\ EntriesWhole /\ Agreement
  BY DEF Init, KeysReachable, KeysOnce, EntriesWhole, Agreement
<1>4. LiveSlots = {}
  BY DEF Init, LiveSlots
<1>5. Counted
  BY <1>4, FS_EmptySet DEF Counted, Init
<1> QED BY <1>1, <1>2, <1>3, <1>5 DEF IInv, TableInv

LEMMA StepIInv == IInv /\ [Next]_vars => IInv'
<1> SUFFICES ASSUME IInv, [Next]_vars PROVE IInv'
  OBVIOUS
<1> USE DEF IInv
<1>0. ASSUME TableInv', UNCHANGED import PROVE TypeOK'
  BY <1>0 DEF TypeOK, TableInv, TableType, import
<1>1. ASSUME NEW k \in Keys, NEW v \in Values, setenv(k, v) PROVE IInv'
  BY <1>0, <1>1, EnterKeeps DEF setenv
<1>2. ASSUME NEW k \in Keys, unsetenv(k) PROVE IInv'
  BY <1>0, <1>2, DeleteKeeps DEF unsetenv
<1>3. ASSUME NEW script \in Scripts, NEW names \in VarLists, NEW noclear \in BOOLEAN,
             ImportBegin(script, names, noclear)
      PROVE  IInv'
  BY <1>3, ImportBeginKeeps
<1>4. CASE ImportLine
  BY <1>4, ImportLineKeeps
<1>5. ASSUME NEW k \in Keys, ImportRest(k) PROVE IInv'
  <2>1. TableInv'
    BY <1>5, DeleteKeeps DEF ImportRest
  <2>2. TypeOK'
    BY <1>5, <2>1 DEF ImportRest, TypeOK, TableInv, TableType
  <2> QED BY <2>1, <2>2
<1>6. CASE ImportEnd
  <2>1. TableInv'
    BY <1>6, NothingKeeps DEF ImportEnd
  <2>2. TypeOK'
    BY <1>6, <2>1 DEF ImportEnd, TypeOK, TableInv, TableType
  <2> QED BY <2>1, <2>2
<1>7. CASE UNCHANGED vars
  <2>1. TableInv'
    BY <1>7, NothingKeeps DEF vars, Nothing
  <2> QED BY <1>0, <1>7, <2>1 DEF vars, import
<1> QED BY <1>1, <1>2, <1>3, <1>4, <1>5, <1>6, <1>7 DEF Next

LEMMA Invariance == Spec => []IInv
<1> QED BY InitIInv, StepIInv, PTL DEF Spec

(***************************************************************************)
(* Every variable of the model keeps its type.                             *)
(***************************************************************************)
THEOREM TypeCorrect == Spec => []TypeOK
<1>1. IInv => TypeOK
  BY DEF IInv
<1> QED BY <1>1, Invariance, PTL

(***************************************************************************)
(* Whatever the names and their collisions, hsearch_r finds what was set,  *)
(* as long as memory lasts and one bucket was never used.                  *)
(***************************************************************************)
THEOREM LookupCorrect == Spec => []LookupIsEnv
<1>1. IInv => LookupIsEnv
  <2> SUFFICES ASSUME IInv, Roomy, oom = 0, NEW k \in Keys
               PROVE  Lookup(k) = env[k]
    BY DEF LookupIsEnv
  <2> USE DEF IInv, TableInv
  <2>1. CASE Found(k)
    <3>1. FoundSlot(k) \in Slots /\ key[FoundSlot(k)] = k
      BY <2>1, SearchComplete
    <3> QED BY <2>1, <3>1, NoneAssumption DEF Lookup, Agreement
  <2>2. CASE ~Found(k)
    <3>1. ~ \E s \in Slots : key[s] = k
      BY <2>2, SearchComplete
    <3> QED BY <2>2, <3>1 DEF Lookup, Agreement
  <2> QED BY <2>1, <2>2
<1> QED BY <1>1, Invariance, PTL

(***************************************************************************)
(* What hexport_r writes for saveenv is the environment, and filled counts *)
(* it.                                                                     *)
(***************************************************************************)
THEOREM ExportCorrect == Spec => []ExportIsEnv
<1>1. IInv => ExportIsEnv
  <2> SUFFICES ASSUME IInv, Roomy, oom = 0
               PROVE  /\ Exported = {<<k, env[k]>> : k \in {j \in Keys : env[j] # None}}
                      /\ filled = Cardinality(LiveSlots)
    BY DEF ExportIsEnv, LiveSlots
  <2> USE DEF IInv, TableInv
  <2>1. ASSUME NEW s \in Slots, used[s] > 0
        PROVE  key[s] \in Keys /\ data[s] = env[key[s]] /\ env[key[s]] # None
    BY <2>1 DEF EntriesWhole, Agreement, TableType
  <2>2. ASSUME NEW k \in Keys, env[k] # None
        PROVE  \E s \in Slots : used[s] > 0 /\ key[s] = k /\ data[s] = env[k]
    <3>1. PICK s \in Slots : key[s] = k
      BY <2>2 DEF Agreement
    <3>2. k # None /\ Hash[k] \in 1..Size /\ Size \in Nat
      BY NoneAssumption, HashAssumption, ProbeAssumption DEF Slots
    <3>3. used[s] = Hash[k] /\ data[s] = env[k]
      BY <3>1, <3>2 DEF KeysReachable, Agreement
    <3>4. used[s] > 0
      BY <3>2, <3>3
    <3> QED BY <3>1, <3>3, <3>4
  <2>3. Exported = {<<k, env[k]>> : k \in {j \in Keys : env[j] # None}}
    BY <2>1, <2>2 DEF Exported
  <2> QED BY <2>3 DEF Counted
<1> QED BY <1>1, Invariance, PTL

(***************************************************************************)
(* What getenv returns, in terms of the buckets.                           *)
(***************************************************************************)
LookupRead ==
    \A j \in Keys :
        /\ \A s \in Slots : key[s] = j => Lookup(j) = data[s]
        /\ (\A s \in Slots : key[s] # j) => Lookup(j) = None

LEMMA LookupReads == TableInv => LookupRead
<1> SUFFICES ASSUME TableInv, NEW j \in Keys
             PROVE  /\ \A s \in Slots : key[s] = j => Lookup(j) = data[s]
                    /\ (\A s \in Slots : key[s] # j) => Lookup(j) = None
  BY DEF LookupRead
<1> QED BY SearchComplete DEF TableInv, Lookup

TouchesOnly(k) == \A j \in Keys \ {k} : Lookup(j)' = Lookup(j)

\* The step leaves all buckets alone but one, which is k's or nobody's.
OneBucket(k) ==
    \E i \in Slots :
        /\ key[i] \in {k, None} /\ key'[i] \in {k, None}
        /\ \A s \in Slots \ {i} : key'[s] = key[s] /\ data'[s] = data[s]

LEMMA OneBucketTouches ==
    ASSUME TableInv, TableInv', NEW k \in Keys,
           OneBucket(k) \/ (UNCHANGED <<key, data>>)
    PROVE  TouchesOnly(k)
<1>1. LookupRead
  BY LookupReads
<1>2. LookupRead'
  BY LookupReads, PTL
<1>3. ASSUME NEW j \in Keys \ {k} PROVE Lookup(j)' = Lookup(j)
  <2>0. j # None /\ j # k
    BY NoneAssumption
  <2>1. \A s \in Slots : (key'[s] = j) <=> (key[s] = j)
    BY <2>0 DEF OneBucket
  <2>2. \A s \in Slots : key[s] = j => data'[s] = data[s]
    BY <2>0 DEF OneBucket
  <2>3. CASE \E s \in Slots : key[s] = j
    <3>1. PICK s \in Slots : key[s] = j
      BY <2>3
    <3>2. Lookup(j) = data[s]
      BY <1>1, <3>1 DEF LookupRead
    <3>3. Lookup(j)' = data'[s]
      BY <1>2, <2>1, <3>1 DEF LookupRead
    <3> QED BY <2>2, <3>1, <3>2, <3>3
  <2>4. CASE \A s \in Slots : key[s] # j
    BY <1>1, <1>2, <2>1, <2>4 DEF LookupRead
  <2> QED BY <2>3, <2>4
<1> QED BY <1>3 DEF TouchesOnly

LEMMA EnterTouches ==
    ASSUME TableInv, TableInv', Roomy, NEW k \in Keys, NEW v \in Values, Enter(k, v)
    PROVE  TouchesOnly(k)
<1> USE DEF TableInv
<1>1. CASE Overwrite(k, v)
  <2> DEFINE i == FoundSlot(k)
  <2>1. i \in Slots /\ key[i] = k
    BY <1>1, SearchComplete DEF Overwrite
  <2>2. \/ UNCHANGED <<key, data>>
        \/ key' = key /\ \A s \in Slots \ {i} : data'[s] = data[s]
    BY <1>1, <2>1 DEF Overwrite, Nothing, TableType
  <2> HIDE DEF i
  <2>3. OneBucket(k) \/ UNCHANGED <<key, data>>
    BY <2>1, <2>2 DEF OneBucket
  <2> QED BY <2>3, OneBucketTouches
<1>2. CASE Create(k, v)
  <2> DEFINE i == EntrySlot(k)
  <2>1. i \in Slots /\ key[i] = None
    BY EntryFree, UnusedNameless
  <2>2. PICK q \in {k, None}, w \in Values \cup {None} :
            key' = [key EXCEPT ![i] = q] /\ data' = [data EXCEPT ![i] = w]
    BY <1>2 DEF Create
  <2> HIDE DEF i
  <2>3. OneBucket(k)
    BY <2>1, <2>2 DEF OneBucket, TableType
  <2> QED BY <2>3, OneBucketTouches
<1>3. CASE TableFull(k)
  BY <1>3, OneBucketTouches DEF TableFull, Nothing
<1> QED BY <1>1, <1>2, <1>3 DEF Enter

LEMMA DeleteTouches ==
    ASSUME TableInv, TableInv', NEW k \in Keys, hdelete_r(k)
    PROVE  TouchesOnly(k)
<1> USE DEF TableInv
<1>1. CASE Nothing
  BY <1>1, OneBucketTouches DEF Nothing
<1>2. CASE Found(k) /\ _hdelete(FoundSlot(k))
  <2> DEFINE i == FoundSlot(k)
  <2>1. i \in Slots /\ key[i] = k
    BY <1>2, SearchComplete
  <2>2. key' = [key EXCEPT ![i] = None] /\ data' = [data EXCEPT ![i] = None]
    BY <1>2 DEF _hdelete
  <2> HIDE DEF i
  <2>3. OneBucket(k)
    BY <2>1, <2>2 DEF OneBucket, TableType
  <2> QED BY <2>3, OneBucketTouches
<1> QED BY <1>1, <1>2 DEF hdelete_r

(***************************************************************************)
(* While one bucket was never used, an operation on one variable, even one *)
(* that is refused or fails for lack of memory, leaves every other         *)
(* variable as it was.                                                     *)
(***************************************************************************)
THEOREM OthersKept == Spec => OthersIntact
<1> DEFINE Intact ==
      Roomy => \A j \in Keys : Changed(j) =>
        /\ \A k \in Keys \ {j} :
              ~unsetenv(k) /\ ~ImportRest(k) /\ \A v \in Values : ~setenv(k, v)
        /\ ImportLine => Head(todo).key = j
<1>1. ASSUME IInv, IInv' PROVE Intact
  <2> SUFFICES ASSUME Roomy, NEW j \in Keys, Changed(j)
               PROVE  /\ \A k \in Keys \ {j} : /\ ~unsetenv(k) /\ ~ImportRest(k)
                                               /\ \A v \in Values : ~setenv(k, v)
                      /\ ImportLine => Head(todo).key = j
    OBVIOUS
  <2>0. TableInv /\ TableInv'
    BY <1>1 DEF IInv
  <2>1. \A k \in Keys, v \in Values : setenv(k, v) => TouchesOnly(k)
    BY <2>0, EnterTouches DEF setenv
  <2>2. \A k \in Keys : unsetenv(k) \/ ImportRest(k) => TouchesOnly(k)
    BY <2>0, DeleteTouches DEF unsetenv, ImportRest
  <2>3. ASSUME ImportLine PROVE TouchesOnly(Head(todo).key)
    <3> DEFINE line == Head(todo)
    <3>1. line \in Lines
      BY <1>1, <2>3 DEF IInv, TypeOK, ImportLine
    <3>2. \/ Nothing
          \/ line.op = "set" /\ Enter(line.key, line.val)
          \/ line.op = "del" /\ hdelete_r(line.key)
      BY <2>3 DEF ImportLine
    <3>3. line.key \in Keys /\ (line.op = "set" => line.val \in Values)
      BY <3>1 DEF Lines
    <3> HIDE DEF line
    <3>4. TouchesOnly(line.key)
      BY <2>0, <3>2, <3>3, EnterTouches, DeleteTouches, OneBucketTouches DEF Nothing
    <3> QED BY <3>4 DEF line
  <2> QED BY <2>1, <2>2, <2>3 DEF TouchesOnly, Changed
<1>2. IInv /\ IInv' => [Intact]_vars
  BY <1>1
<1> QED BY <1>2, Invariance, PTL DEF OthersIntact
=============================================================================
