---------------------------- MODULE MCHashTable ----------------------------
(***************************************************************************)
(* A table of five buckets.  Two of the three names collide in bucket 1    *)
(* (one of them through the remainder that would be zero); the third one's *)
(* first bucket, 4, is the second on their probe path.                     *)
(***************************************************************************)
EXTENDS HashTable, TLC

CONSTANTS a, b, c, x, y

MCHashValue == (a :> 1) @@ (b :> 10) @@ (c :> 9)

Set(k, v) == [op |-> "set", key |-> k, val |-> v]
Del(k) == [op |-> "del", key |-> k, val |-> None]

\* a name given twice; a deletion, and a line without a name after it
MCScripts == {<<Set(a, x), Set(a, y)>>,
              <<Del(b), [op |-> "noname", key |-> a, val |-> None]>>}

MCVarLists == {{}, {a, c}}
=============================================================================
