----------------------------- MODULE HashTable -----------------------------
(***************************************************************************)
(* The hash table behind the environment: lib/hashtable.c, with its two    *)
(* kinds of clients, setenv (cmd/nvedit.c) and the import of a linear      *)
(* environment (himport_r).                                                *)
(*                                                                         *)
(* Collisions are resolved by double hashing with open addressing.  The    *)
(* "used" field of a bucket is 0 when the bucket was never used, -1 when   *)
(* its entry was deleted, and the entry's first hash value otherwise.      *)
(*                                                                         *)
(* The strings are abstracted: a name is a member of Keys, its hash value  *)
(* is Hash[k].  What change_ok() and the callbacks of a variable answer,   *)
(* and whether strdup() finds memory, is chosen freely at every call.      *)
(***************************************************************************)
EXTENDS Integers, FiniteSets, Sequences

CONSTANTS
    Keys,       \* the names of variables
    Values,     \* the values of variables
    None,       \* no value, no name: a NULL pointer
    Nel,        \* the number of elements hcreate_r is asked for
    HashValue,  \* the hash value of a name, before it is reduced to the size
    Scripts,    \* the texts that may be imported: sequences of Lines
    VarLists,   \* the sets of names that may be given to an import
    MaxOom      \* bound: how many strdup() calls may fail

(***************************************************************************)
(* hcreate_r: the size of the table.                                       *)
(***************************************************************************)

\* The divisor the loop of isprime stops at: 3, 5, 7, ... until its square
\* reaches the number or it divides the number.
LastDivisor(number) ==
    CHOOSE d \in 3..(number + 3) :
        /\ d % 2 = 1
        /\ d * d >= number \/ number % d = 0
        /\ \A c \in 3..(d - 1) : c % 2 = 1 => c * c < number /\ number % c # 0

isprime(number) == number % LastDivisor(number) # 0

hcreate_size(nel) ==
    LET odd == IF nel % 2 = 1 THEN nel ELSE nel + 1
    IN  CHOOSE n \in odd..(2 * odd + 5) :
            /\ n % 2 = 1 /\ isprime(n)
            /\ \A m \in odd..(n - 1) : m % 2 = 1 => ~isprime(m)

Size == hcreate_size(Nel)

Slots == 1..Size

\* The first hash function: the remainder, but never zero.
Hash == [k \in Keys |-> IF HashValue[k] % Size = 0 THEN 1
                                                   ELSE HashValue[k] % Size]

\* The second hash function, and the bucket tried after bucket idx.
NextSlot(hval, idx) ==
    LET hval2 == 1 + (hval % (Size - 2))
    IN  IF idx <= hval2 THEN Size + idx - hval2 ELSE idx - hval2

\* Probe[h][n] is the n-th bucket tried for a name whose hash is h.
Probe ==
    [h \in Slots |->
        LET p[n \in 0..(Size - 1)] == IF n = 0 THEN h ELSE NextSlot(h, p[n - 1])
        IN  p]

Lines == [op : {"set"}, key : Keys, val : Values]
            \cup [op : {"del", "noname"}, key : Keys, val : {None}]

ASSUME NoneAssumption == None \notin Keys /\ None \notin Values

ASSUME HashAssumption == Hash \in [Keys -> Slots]

(***************************************************************************)
(* "Because SIZE is prime this guarantees to step through all available    *)
(* indices."                                                               *)
(***************************************************************************)
ASSUME ProbeAssumption ==
    /\ Size \in Nat /\ Size >= 5
    /\ Probe \in [Slots -> [0..(Size - 1) -> Slots]]
    /\ \A h \in Slots : Probe[h][0] = h
    /\ \A h, s \in Slots : \E n \in 0..(Size - 1) : Probe[h][n] = s
    /\ \A h \in Slots : \A m, n \in 0..(Size - 1) :
          Probe[h][m] = Probe[h][n] => m = n

ASSUME ImportAssumption ==
    /\ Scripts \subseteq Seq(Lines)
    /\ VarLists \subseteq SUBSET Keys
    /\ MaxOom \in Nat

VARIABLES
    used, key, data,  \* the buckets
    filled,           \* htab->filled
    todo,             \* himport_r: the lines still to be parsed
    listed,           \* himport_r: localvars, the names not yet met
    nvars,            \* himport_r: whether a list of names was given
    pc,               \* "console", or where himport_r is
    env,              \* ghost: the environment the console was promised
    oom               \* ghost: how many strdup() calls failed

table == <<used, key, data, filled>>
import == <<todo, listed, nvars, pc>>
vars == <<used, key, data, filled, todo, listed, nvars, pc, env, oom>>

-----------------------------------------------------------------------------
(***************************************************************************)
(* The search of hsearch_r.                                                *)
(***************************************************************************)

\* _compare_and_overwrite_entry: bucket s holds the name k.
Holds(k, s) == used[s] = Hash[k] /\ key[s] = k

\* Mutant of Reached: a deleted bucket ends the search.
ReachedOverLive(k, n) == \A m \in 0..(n - 1) : used[Probe[Hash[k]][m]] > 0

\* The loop gets as far as the n-th bucket for k.
Reached(k, n) == \A m \in 0..(n - 1) : used[Probe[Hash[k]][m]] # 0

\* The buckets in which the search for k ends with a hit: at most the first.
Hits(k) ==
    {Probe[Hash[k]][n] : n \in {i \in 0..(Size - 1) :
        /\ Holds(k, Probe[Hash[k]][i]) /\ Reached(k, i)
        /\ \A m \in 0..(i - 1) : ~Holds(k, Probe[Hash[k]][m])}}

Found(k) == Hits(k) # {}

FoundSlot(k) == CHOOSE s \in Slots : s \in Hits(k)

\* The buckets in which an unsuccessful search for k ends before it is back
\* at its first bucket.
Empties(k) ==
    {Probe[Hash[k]][n] : n \in {i \in 0..(Size - 1) :
        used[Probe[Hash[k]][i]] = 0 /\ Reached(k, i)}}

\* first_deleted can only be the first bucket; a search that visited all the
\* buckets leaves idx at the first bucket too.
EntrySlot(k) ==
    IF used[Hash[k]] = -1 \/ Empties(k) = {} THEN Hash[k]
    ELSE CHOOSE s \in Slots : s \in Empties(k)

-----------------------------------------------------------------------------
(***************************************************************************)
(* hsearch_r with ENTER, hdelete_r.                                        *)
(***************************************************************************)

Nothing == UNCHANGED <<used, key, data, filled, env, oom>>

\* The name exists, its value is replaced.
Overwrite(k, v) ==
    /\ Found(k)
    /\ \/ Nothing                               \* refused
       \/ /\ data' = [data EXCEPT ![FoundSlot(k)] = v]
          /\ env' = [env EXCEPT ![k] = v]
          /\ UNCHANGED <<used, key, filled, oom>>
       \/ /\ oom < MaxOom                       \* freed, and no memory
          /\ oom' = oom + 1
          /\ data' = [data EXCEPT ![FoundSlot(k)] = None]
          /\ UNCHANGED <<used, key, filled, env>>

\* Mutant of Create: the hash value is stored before it is reduced.
CreateUnreduced(k, v) ==
    LET idx == EntrySlot(k)
    IN  /\ ~Found(k)
        /\ filled # Size
        /\ used' = [used EXCEPT ![idx] = HashValue[k]]
        /\ key' = [key EXCEPT ![idx] = k]
        /\ data' = [data EXCEPT ![idx] = v]
        /\ filled' = filled + 1
        /\ env' = [env EXCEPT ![k] = v]
        /\ UNCHANGED oom

\* The name does not exist, and there is room for it.
Create(k, v) ==
    LET idx == EntrySlot(k)
    IN  /\ ~Found(k)
        /\ filled # Size
        /\ \/ /\ used' = [used EXCEPT ![idx] = Hash[k]]
              /\ key' = [key EXCEPT ![idx] = k]
              /\ data' = [data EXCEPT ![idx] = v]
              /\ filled' = filled + 1
              /\ env' = [env EXCEPT ![k] = v]
              /\ UNCHANGED oom
           \/ /\ oom < MaxOom                   \* left used, not counted
              /\ oom' = oom + 1
              /\ used' = [used EXCEPT ![idx] = Hash[k]]
              /\ \/ key' = [key EXCEPT ![idx] = k] /\ data' = [data EXCEPT ![idx] = None]
                 \/ key' = [key EXCEPT ![idx] = None] /\ data' = [data EXCEPT ![idx] = v]
              /\ UNCHANGED <<filled, env>>
           \/ /\ used' = [used EXCEPT ![idx] = -1]   \* refused: _hdelete
              /\ key' = [key EXCEPT ![idx] = None]
              /\ data' = [data EXCEPT ![idx] = None]
              /\ UNCHANGED <<filled, env, oom>>

TableFull(k) == ~Found(k) /\ filled = Size /\ Nothing

Enter(k, v) == Overwrite(k, v) \/ Create(k, v) \/ TableFull(k)

\* Mutant of _hdelete: the bucket is marked as never used.
DeleteFreesBucket(s) ==
    /\ used' = [used EXCEPT ![s] = 0]
    /\ key' = [key EXCEPT ![s] = None]
    /\ data' = [data EXCEPT ![s] = None]
    /\ filled' = filled - 1

\* Mutant of _hdelete: the entry is still counted.
DeleteStillCounted(s) ==
    /\ used' = [used EXCEPT ![s] = -1]
    /\ key' = [key EXCEPT ![s] = None]
    /\ data' = [data EXCEPT ![s] = None]
    /\ UNCHANGED filled

_hdelete(s) ==
    /\ used' = [used EXCEPT ![s] = -1]
    /\ key' = [key EXCEPT ![s] = None]
    /\ data' = [data EXCEPT ![s] = None]
    /\ filled' = filled - 1

hdelete_r(k) ==
    \/ ~Found(k) /\ Nothing
    \/ Found(k) /\ Nothing                      \* refused
    \/ /\ Found(k)
       /\ _hdelete(FoundSlot(k))
       /\ env' = [env EXCEPT ![k] = None]
       /\ UNCHANGED oom

-----------------------------------------------------------------------------
(***************************************************************************)
(* setenv, at the console.                                                 *)
(***************************************************************************)

setenv(k, v) == pc = "console" /\ Enter(k, v) /\ UNCHANGED import

unsetenv(k) == pc = "console" /\ hdelete_r(k) /\ UNCHANGED import

-----------------------------------------------------------------------------
(***************************************************************************)
(* himport_r, one step per line of the text.  Nothing else runs meanwhile. *)
(***************************************************************************)

NeverUsed == {s \in Slots : used[s] = 0}

\* Without H_NOCLEAR the old table is destroyed and a new one created.
ImportBegin(script, names, noclear) ==
    /\ pc = "console"
    /\ pc' = "lines"
    /\ todo' = script
    /\ nvars' = (names # {})
    /\ listed' = names
    /\ \/ noclear /\ Nothing
       \/ /\ ~noclear
          /\ used' = [s \in Slots |-> 0]
          /\ key' = [s \in Slots |-> None]
          /\ data' = [s \in Slots |-> None]
          /\ filled' = 0
          /\ env' = [k \in Keys |-> None]
          /\ UNCHANGED oom

\* drop_var_from_set: the line is for us; the name is struck off the list.
Considered(k) == nvars => k \in listed

ImportLine ==
    /\ pc = "lines" /\ todo # <<>>
    /\ LET line == Head(todo)
       IN  \/ /\ line.op = "noname"           \* returns 0 at once
              /\ todo' = <<>> /\ listed' = {} /\ pc' = "console"
              /\ UNCHANGED nvars /\ Nothing
           \/ /\ line.op # "noname"
              /\ todo' = Tail(todo)
              /\ listed' = listed \ {line.key}
              /\ UNCHANGED <<pc, nvars>>
              /\ \/ ~Considered(line.key) /\ Nothing
                 \/ Considered(line.key) /\ line.op = "set" /\ Enter(line.key, line.val)
                 \/ Considered(line.key) /\ line.op = "del" /\ hdelete_r(line.key)

\* The listed names the text did not have are deleted.
ImportRest(k) ==
    /\ pc = "lines" /\ todo = <<>>
    /\ k \in listed
    /\ hdelete_r(k)
    /\ listed' = listed \ {k}
    /\ UNCHANGED <<todo, nvars, pc>>

ImportEnd ==
    /\ pc = "lines" /\ todo = <<>> /\ listed = {}
    /\ pc' = "console"
    /\ UNCHANGED <<todo, listed, nvars>> /\ Nothing

-----------------------------------------------------------------------------

Init ==
    /\ used = [s \in Slots |-> 0]
    /\ key = [s \in Slots |-> None]
    /\ data = [s \in Slots |-> None]
    /\ filled = 0
    /\ todo = <<>> /\ listed = {} /\ nvars = FALSE /\ pc = "console"
    /\ env = [k \in Keys |-> None]
    /\ oom = 0

Next ==
    \/ \E k \in Keys, v \in Values : setenv(k, v)
    \/ \E k \in Keys : unsetenv(k)
    \/ \E script \in Scripts, names \in VarLists, noclear \in BOOLEAN :
          ImportBegin(script, names, noclear)
    \/ ImportLine
    \/ \E k \in Keys : ImportRest(k)
    \/ ImportEnd

Spec == Init /\ [][Next]_vars

-----------------------------------------------------------------------------

TypeOK ==
    /\ used \in [Slots -> (0..Size) \cup {-1}]
    /\ key \in [Slots -> Keys \cup {None}]
    /\ data \in [Slots -> Values \cup {None}]
    /\ filled \in Int
    /\ todo \in Seq(Lines)
    /\ listed \in SUBSET Keys
    /\ nvars \in BOOLEAN
    /\ pc \in {"console", "lines"}
    /\ env \in [Keys -> Values \cup {None}]
    /\ oom \in 0..MaxOom

\* getenv
Lookup(k) == IF Found(k) THEN data[FoundSlot(k)] ELSE None

\* hexport_r, for saveenv and printenv
Exported == {<<key[s], data[s]>> : s \in {t \in Slots : used[t] > 0}}

\* The table has a bucket that no entry was ever put in.
Roomy == NeverUsed # {}

(***************************************************************************)
(* As long as memory lasts and one bucket was never used, hsearch_r finds  *)
(* exactly the variables that were set and not deleted, with the value     *)
(* last set, whatever collisions, deletions, refusals and imports there    *)
(* were.                                                                   *)
(***************************************************************************)
LookupIsEnv == Roomy /\ oom = 0 => \A k \in Keys : Lookup(k) = env[k]

(***************************************************************************)
(* Under the same condition the linear form hexport_r writes for saveenv   *)
(* has each variable once, no deleted one and no old value, and filled is  *)
(* the number of its entries, so that no variable is refused for lack of   *)
(* room.                                                                   *)
(***************************************************************************)
ExportIsEnv ==
    Roomy /\ oom = 0 =>
        /\ Exported = {<<k, env[k]>> : k \in {j \in Keys : env[j] # None}}
        /\ filled = Cardinality({s \in Slots : used[s] > 0})

Changed(j) == Lookup(j)' # Lookup(j)

(***************************************************************************)
(* While one bucket was never used, a call of hsearch_r or hdelete_r for   *)
(* one name never changes what is found for another, even when it is       *)
(* refused, or strdup() fails in the middle of it.                         *)
(***************************************************************************)
OthersIntact ==
    [][Roomy => \A j \in Keys : Changed(j) =>
        /\ \A k \in Keys \ {j} :
              ~unsetenv(k) /\ ~ImportRest(k) /\ \A v \in Values : ~setenv(k, v)
        /\ ImportLine => Head(todo).key = j]_vars

(***************************************************************************)
(* "An empty bucket has been found." (hsearch_r, before it creates an      *)
(* entry): a new entry is never put where another variable lives.          *)
(***************************************************************************)
EmptyBucketFound ==
    [][\A s \in Slots : used[s] > 0 /\ key[s] # None /\ used'[s] > 0 /\ pc' = pc
        => key'[s] = key[s]]_vars
=============================================================================
