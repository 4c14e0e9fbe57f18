---------------------------- MODULE StorageProofs ----------------------------
(***************************************************************************)
(* Proofs about what is kept on storage when power may fail at any write.  *)
(*                                                                         *)
(* EnvSerial, for every set of environments: on a medium that does what it *)
(* is told the redundant environment loads the last one saved, keeps a     *)
(* good copy, and implements the store of EnvStore.                        *)
(*                                                                         *)
(* FatWrite, for every set of files, size of the volume, partition and FAT *)
(* window: files whose write succeeded stay whole, and no two files share  *)
(* a cluster.                                                              *)
(***************************************************************************)
EXTENDS EnvSerial, FatWrite, TLAPS

-----------------------------------------------------------------------------
(***************************************************************************)
(* The inductive invariant of the files.  Every file has a set of clusters *)
(* of its own, from which the FAT on the device does not lead out: the     *)
(* file's chain, and while the file is being written also what is in its   *)
(* old chain and its new one, in the buffer and on the device.             *)
(***************************************************************************)

FatVals == Entries \cup {Free, Eof}
FatTables == [Entries -> FatVals]
DirEntries == {NoFile} \cup [start : Entries \cup {0}, size : 0..MaxSize]

Writes ==
    [pc : {"clear", "clear_flush", "find", "probe", "link", "part", "last", "eof", "flush", "dir"},
     f : Files, size : 0..MaxSize, left : Nat, off : Nat, start : Entries \cup {0},
     cur : Entries \cup {0}, end : Entries \cup {0}, act : Nat, p : Nat, win : Int,
     buf : FatTables]

FatTypeOK ==
    /\ fat \in FatTables
    /\ dir \in [Files -> DirEntries]
    /\ wr = NoWrite \/ wr \in Writes
    /\ DOMAIN good = Files /\ cut \subseteq Files

\* A file that is promised to be kept: none of its clusters is free.
KeptFile(g, C) ==
    /\ good[g] = -1 => dir[g] = NoFile
    /\ good[g] # -1 => /\ good[g] \in Nat /\ dir[g].size = good[g]
                       /\ good[g] = 0 => dir[g].start = 0
                       /\ good[g] > 0 => \E s \in [1..good[g] -> C] :
                                            Whole(g, good[g], s, dir[g].start, fat)
    /\ \A e \in C : fat[e] # Free

\* The clusters of the files are apart; S[g] are the ones of g.
Apart(S) ==
    /\ \A g \in Files : /\ Closed(S[g], fat)
                        /\ dir[g].start \in Entries => dir[g].start \in S[g]
    /\ \A g, h \in Files : g # h => S[g] \cap S[h] = {}

Kept(S) == \A g \in Files \ cut : KeptFile(g, S[g])

\* The write in progress may have changed something on the device.
Touched == wr # NoWrite /\ wr.pc # "find"

\* A file without a first cluster has none, but for the one being written.
NoneLeft(S) ==
    \A g \in Files : dir[g].start \notin Entries /\ ~(Touched /\ g = wr.f) => S[g] = {}

\* The new chain b of the clusters found so far: it goes up, its last wr.act
\* clusters are one run, and the ones before the run are written.
NewChain(b, n, w) ==
    /\ b[1] = w.start /\ b[n] = w.end
    /\ \A i, j \in 1..n : i < j => b[i] < b[j]
    /\ \A i \in 1..(n - 1) : w.buf[b[i]] = b[i + 1]

Found(b, w) ==
    /\ w.off + w.left = w.size /\ 1 <= w.act /\ w.act <= w.left
    /\ NewChain(b, w.off + w.act, w)
    /\ \A i \in 1..w.act : b[w.off + i] = w.cur + i - 1
    /\ \A i \in 1..w.off : clus[b[i]] = <<w.f, w.size, i - 1>>

\* Where the search for the next cluster is.
SearchAt(C, w) ==
    /\ w.pc \in {"probe", "link", "part"} => w.act < w.left /\ w.end < w.p
    /\ w.pc = "link" => w.p \in Entries /\ w.buf[w.p] = Free
    /\ w.pc = "part" => w.p \in C /\ w.buf[w.end] = w.p
    /\ w.pc = "last" => w.act = w.left

\* The call w, with C the clusters of its file.
CallAt(C, w) ==
    /\ w.pc \in {"clear", "clear_flush"} =>
           /\ w.start \in C /\ w.cur \in C /\ w.end = w.start
           /\ w.left = w.size /\ w.off = 0 /\ w.act = 1
           /\ w.pc = "clear_flush" => w.cur = w.start
    /\ w.pc \in {"probe", "link", "part", "last"} =>
           /\ \E b \in [1..(w.off + w.act) -> C] : Found(b, w)
           /\ SearchAt(C, w)
    /\ w.pc = "eof" =>
           /\ w.size >= 1
           /\ \E b \in [1..w.size -> C] :
                 /\ NewChain(b, w.size, w)
                 /\ \A i \in 1..w.size : clus[b[i]] = <<w.f, w.size, i - 1>>
    /\ w.pc \in {"flush", "dir"} =>
           /\ w.size = 0 => w.start = 0
           /\ w.size > 0 => \E b \in [1..w.size -> C] : Whole(w.f, w.size, b, w.start, w.buf)

\* The table in the buffer leads out of the file's clusters no more than the
\* one on the device, and is the same elsewhere.
BufferAt(S, w) ==
    /\ w.win = -1 => w.buf = fat
    /\ w.pc = "dir" => w.buf = fat
    /\ w.pc = "find" => /\ w.buf = fat /\ dir[w.f].start \notin Entries
                        /\ w.left = w.size /\ w.size > 0 /\ w.off = 0 /\ w.act = 1
    /\ w.pc # "find" => /\ w.f \in cut /\ Closed(S[w.f], w.buf)
                        /\ \A e \in Entries \ S[w.f] : w.buf[e] = fat[e]
                        /\ \A h \in cut \ {w.f} : S[h] = {}

Writing(S) == wr # NoWrite => BufferAt(S, wr) /\ CallAt(S[wr.f], wr)

FilesAt(S) == Apart(S) /\ Kept(S) /\ NoneLeft(S) /\ Writing(S)

FatInv ==
    /\ crossed \in BOOLEAN
    /\ crossed \/ (FatTypeOK /\ \E S \in [Files -> SUBSET Entries] : FilesAt(S))

-----------------------------------------------------------------------------
(***************************************************************************)
(* What the steps of a write have in common.                               *)
(***************************************************************************)

\* No mark of the FAT is a cluster.
LEMMA Marks ==
    /\ Entries \subseteq Nat /\ \A e \in Entries : e >= 3
    /\ Free \notin Entries /\ Eof \notin Entries /\ 0 \notin Entries
    /\ Free # Eof /\ NoFile.start \notin Entries /\ Free = 0
BY SizeAssumption DEF Entries, Free, Eof, NoFile

\* The fields of a call.
LEMMA WriteIs ==
    ASSUME NEW w \in Writes
    PROVE  /\ w.f \in Files /\ w.size \in 0..MaxSize /\ w.left \in Nat /\ w.off \in Nat
           /\ w.start \in Entries \cup {0} /\ w.cur \in Entries \cup {0} /\ w.end \in Entries \cup {0}
           /\ w.act \in Nat /\ w.p \in Nat /\ w.win \in Int /\ w.buf \in FatTables
           /\ w.pc \in {"clear", "clear_flush", "find", "probe", "link", "part", "last", "eof",
                        "flush", "dir"}
           /\ w # NoWrite /\ w.pc # "idle"
           /\ w.start \in Nat /\ w.cur \in Nat /\ w.end \in Nat
<1>1. /\ w.f \in Files /\ w.size \in 0..MaxSize /\ w.left \in Nat /\ w.off \in Nat
      /\ w.start \in Entries \cup {0} /\ w.cur \in Entries \cup {0} /\ w.end \in Entries \cup {0}
      /\ w.act \in Nat /\ w.p \in Nat /\ w.win \in Int /\ w.buf \in FatTables
      /\ w.pc \in {"clear", "clear_flush", "find", "probe", "link", "part", "last", "eof",
                   "flush", "dir"}
  BY DEF Writes
<1>2. w.pc # "idle"
  BY <1>1
<1>3. w # NoWrite
  BY <1>2 DEF NoWrite
<1>4. \A x \in Entries \cup {0} : x \in Nat
  BY Marks
<1> QED BY <1>1, <1>2, <1>3, <1>4

\* A file that nothing was written to is kept.
LEMMA KeptFrame ==
    ASSUME NEW g, NEW C, KeptFile(g, C), dir'[g] = dir[g], good'[g] = good[g],
           \A e \in C : fat'[e] = fat[e] /\ clus'[e] = clus[e]
    PROVE  KeptFile(g, C)'
<1>1. (good[g] = -1 => dir'[g] = NoFile) /\ \A e \in C : fat'[e] # Free
  BY DEF KeptFile
<1>2. ASSUME good[g] # -1
      PROVE  /\ good[g] \in Nat /\ dir'[g].size = good[g]
             /\ good[g] = 0 => dir'[g].start = 0
             /\ good[g] > 0 => \E s \in [1..good[g] -> C] :
                                  Whole(g, good[g], s, dir[g].start, fat)
  BY <1>2 DEF KeptFile
<1>3. ASSUME NEW n \in Nat, n > 0, NEW s \in [1..n -> C], NEW first, Whole(g, n, s, first, fat)
      PROVE  Whole(g, n, s, first, fat)'
  <2>1. /\ n \in 1..n /\ \A i \in 1..(n - 1) : i \in 1..n
    BY <1>3
  <2>2. \A i \in 1..n : s[i] \in C
    BY <1>3
  <2> QED BY <1>3, <2>1, <2>2, Zenon DEF Whole
<1>4. ASSUME good[g] # -1, good[g] > 0
      PROVE  (\E s \in [1..good[g] -> C] : Whole(g, good[g], s, dir[g].start, fat))'
  <2>1. PICK n, first : n = good[g] /\ first = dir[g].start
    OBVIOUS
  <2>2. PICK s \in [1..n -> C] : Whole(g, n, s, first, fat)
    BY <1>2, <1>4, <2>1
  <2>3. Whole(g, n, s, first, fat)'
    BY <1>2, <1>3, <1>4, <2>1, <2>2
  <2>4. good'[g] = n /\ dir'[g].start = first
    BY <2>1
  <2> QED BY <2>2, <2>3, <2>4, Zenon
<1>5. KeptFile(g, C)' <=>
        /\ good'[g] = -1 => dir'[g] = NoFile
        /\ good'[g] # -1 => /\ good'[g] \in Nat /\ dir'[g].size = good'[g]
                            /\ good'[g] = 0 => dir'[g].start = 0
                            /\ good'[g] > 0 => (\E s \in [1..good[g] -> C] :
                                                  Whole(g, good[g], s, dir[g].start, fat))'
        /\ \A e \in C : fat'[e] # Free
  BY Zenon DEF KeptFile
<1> QED BY <1>1, <1>2, <1>4, <1>5, Zenon

\* What a step leaves alone: everything on the device but the clusters C.
Outside(C) ==
    /\ \A e \in Entries \ C : fat'[e] = fat[e] /\ clus'[e] = clus[e]
    /\ dir' = dir /\ good' = good

\* The files other than f keep their clusters.
LEMMA OthersKept ==
    ASSUME NEW S \in [Files -> SUBSET Entries], Apart(S), Kept(S),
           NEW C, Outside(C), NEW g \in Files, S[g] \cap C = {}
    PROVE  /\ Closed(S[g], fat') /\ (dir'[g].start \in Entries => dir'[g].start \in S[g])
           /\ g \notin cut => KeptFile(g, S[g])'
<1>1. \A e \in S[g] : fat'[e] = fat[e] /\ clus'[e] = clus[e]
  BY DEF Outside
<1>2. Closed(S[g], fat')
  BY <1>1 DEF Apart, Closed
<1>3. dir'[g] = dir[g] /\ good'[g] = good[g]
  BY DEF Outside
<1>4. g \notin cut => KeptFile(g, S[g])
  BY DEF Kept
<1> QED BY <1>1, <1>2, <1>3, <1>4, KeptFrame DEF Apart

\* The clusters C of f in place of the ones it had.
LEMMA NewSets ==
    ASSUME NEW S \in [Files -> SUBSET Entries], NEW f \in Files, NEW C \in SUBSET Entries,
           \A h \in Files \ {f} : S[h] \cap C = {},
           \A g, h \in Files : g # h => S[g] \cap S[h] = {}
    PROVE  LET S2 == [S EXCEPT ![f] = C]
           IN /\ S2 \in [Files -> SUBSET Entries] /\ S2[f] = C
              /\ \A h \in Files \ {f} : S2[h] = S[h]
              /\ \A g, h \in Files : g # h => S2[g] \cap S2[h] = {}
<1> DEFINE S2 == [S EXCEPT ![f] = C]
<1>1. /\ S2 \in [Files -> SUBSET Entries] /\ S2[f] = C /\ \A h \in Files \ {f} : S2[h] = S[h]
  OBVIOUS
<1> HIDE DEF S2
<1>2. ASSUME NEW g \in Files, NEW h \in Files, g # h PROVE S2[g] \cap S2[h] = {}
  <2>1. CASE g = f
    BY <1>1, <1>2, <2>1
  <2>2. CASE h = f
    BY <1>1, <1>2, <2>2
  <2>3. CASE g # f /\ h # f
    BY <1>1, <1>2, <2>3, Zenon
  <2> QED BY <2>1, <2>2, <2>3
<1> QED BY <1>1, <1>2 DEF S2

\* Nothing leads out of C, on the device or in the buffer of the call w, and
\* outside of C the two are the same.
Around(C, w, t) ==
    /\ Closed(C, t) /\ Closed(C, w.buf)
    /\ \A e \in Entries \ C : w.buf[e] = t[e]
    /\ w.win = -1 => w.buf = t
    /\ w.pc = "dir" => w.buf = t

\* A step of a write that may have changed something: the other files are as
\* they were.
LEMMA TouchedStep ==
    ASSUME NEW S \in [Files -> SUBSET Entries], Apart(S), Kept(S), NoneLeft(S),
           NEW f \in Files, NEW C \in SUBSET Entries, S[f] \subseteq C,
           \A h \in Files \ {f} : S[h] \cap C = {},
           Outside(C), cut \subseteq Files, cut' = cut \cup {f}, \A h \in cut \ {f} : S[h] = {},
           wr' \in Writes, wr'.pc # "find", wr'.f = f, ~Touched \/ wr.f = f,
           Around(C, wr', fat'), CallAt(C, wr)'
    PROVE  \E S2 \in [Files -> SUBSET Entries] : FilesAt(S2)'
<1> DEFINE S2 == [S EXCEPT ![f] = C]
<1>1. /\ S2 \in [Files -> SUBSET Entries] /\ S2[f] = C
      /\ \A h \in Files \ {f} : S2[h] = S[h]
      /\ \A g, h \in Files : g # h => S2[g] \cap S2[h] = {}
  BY NewSets DEF Apart
<1> HIDE DEF S2
<1>2. wr' # NoWrite
  BY WriteIs
<1>3. dir' = dir
  BY Zenon DEF Outside
<1>4. \A h \in Files \ {f} : Closed(S[h], fat') /\ (dir'[h].start \in Entries => dir'[h].start \in S[h])
  BY OthersKept, Zenon
<1>5. \A h \in Files \ {f} : h \notin cut => KeptFile(h, S[h])'
  BY OthersKept, Zenon
<1>6. Apart(S2)'
  <2>1. Closed(C, fat') /\ (dir'[f].start \in Entries => dir'[f].start \in C)
    BY <1>3, Zenon DEF Around, Apart
  <2>2. \A g \in Files : /\ Closed(S2[g], fat')
                         /\ dir'[g].start \in Entries => dir'[g].start \in S2[g]
    BY <1>1, <1>4, <2>1, Zenon
  <2> QED BY <1>1, <2>2, Zenon DEF Apart
<1>7. Kept(S2)'
  <2>1. ASSUME NEW g \in Files \ cut' PROVE KeptFile(g, S2[g])'
    <3>1. g # f /\ g \notin cut /\ S2[g] = S[g]
      BY <1>1
    <3>2. KeptFile(g, S[g])'
      BY <1>5, <3>1
    <3> QED BY <3>1, <3>2, Zenon
  <2> QED BY <2>1 DEF Kept
<1>8. NoneLeft(S2)'
  <2>1. ASSUME NEW g \in Files, dir'[g].start \notin Entries, ~(Touched' /\ g = wr'.f)
        PROVE  S2[g] = {}
    <3>1. Touched'
      BY <1>2, Zenon DEF Touched
    <3>2. g # f /\ S2[g] = S[g]
      BY <1>1, <2>1, <3>1
    <3> QED BY <1>3, <2>1, <3>2 DEF NoneLeft
  <2> QED BY <2>1, Zenon DEF NoneLeft
<1>9. Writing(S2)'
  <2>1. \A h \in cut' \ {f} : S2[h] = {}
    <3>1. \A h \in cut' \ {f} : h \in cut \ {f}
      BY Zenon
    <3> QED BY <1>1, <3>1
  <2>2. BufferAt(S2, wr)'
    BY <1>1, <2>1, Zenon DEF BufferAt, Around
  <2>3. CallAt(S2[wr.f], wr)'
    BY <1>1
  <2> QED BY <2>2, <2>3 DEF Writing
<1> QED BY <1>1, <1>6, <1>7, <1>8, <1>9, Zenon DEF FilesAt

\* A write that may have changed something ends: only what it has reached on
\* the device is left of it.
LEMMA CutStep ==
    ASSUME NEW S \in [Files -> SUBSET Entries], Apart(S), Kept(S), NoneLeft(S),
           NEW f \in Files, f \in cut, wr.f = f, cut' = cut, Outside(S[f]),
           wr' = NoWrite, Closed(S[f], fat')
    PROVE  \E S2 \in [Files -> SUBSET Entries] : FilesAt(S2)'
<1>1. PICK C \in SUBSET Entries : C = IF dir[f].start \in Entries THEN S[f] ELSE {}
  BY Zenon
<1> DEFINE S2 == [S EXCEPT ![f] = C]
<1>2. \A h \in Files \ {f} : S[h] \cap C = {} /\ S[h] \cap S[f] = {}
  BY <1>1 DEF Apart
<1>3. /\ S2 \in [Files -> SUBSET Entries] /\ S2[f] = C
      /\ \A h \in Files \ {f} : S2[h] = S[h]
      /\ \A g, h \in Files : g # h => S2[g] \cap S2[h] = {}
  BY <1>2, NewSets, SMTT(20) DEF Apart
<1> HIDE DEF S2
<1>4. dir' = dir
  BY DEF Outside
<1>5. \A h \in Files \ {f} : Closed(S[h], fat') /\ (dir'[h].start \in Entries => dir'[h].start \in S[h])
  BY <1>2, OthersKept
<1>6. \A h \in Files \ {f} : h \notin cut => KeptFile(h, S[h])'
  BY <1>2, OthersKept
<1>7. Apart(S2)'
  <2>1. Closed(C, fat') /\ (dir'[f].start \in Entries => dir'[f].start \in C)
    BY <1>1, <1>4, Zenon DEF Apart, Closed
  <2>2. \A g \in Files : /\ Closed(S2[g], fat')
                         /\ dir'[g].start \in Entries => dir'[g].start \in S2[g]
    BY <1>3, <1>5, <2>1
  <2> QED BY <1>3, <2>2 DEF Apart
<1>8. Kept(S2)'
  <2>1. ASSUME NEW g \in Files \ cut' PROVE KeptFile(g, S2[g])'
    <3>1. g # f /\ g \notin cut /\ S2[g] = S[g]
      BY <1>3
    <3>2. KeptFile(g, S[g])'
      BY <1>6, <3>1
    <3> QED BY <3>1, <3>2
  <2> QED BY <2>1 DEF Kept
<1>9. NoneLeft(S2)'
  <2>1. ASSUME NEW g \in Files, dir'[g].start \notin Entries PROVE S2[g] = {}
    <3>1. CASE g = f
      BY <1>1, <1>3, <1>4, <2>1, <3>1
    <3>2. CASE g # f
      BY <1>3, <1>4, <2>1, <3>2 DEF NoneLeft
    <3> QED BY <3>1, <3>2, Zenon
  <2> QED BY <2>1 DEF NoneLeft
<1>10. Writing(S2)'
  BY DEF Writing
<1> QED BY <1>3, <1>7, <1>8, <1>9, <1>10 DEF FilesAt

\* A step before anything is touched: the device is as it was.
LEMMA UntouchedStep ==
    ASSUME NEW S \in [Files -> SUBSET Entries], Apart(S), Kept(S), NoneLeft(S), ~Touched,
           fat' = fat, clus' = clus, dir' = dir, good' = good, cut' = cut,
           wr' = NoWrite \/ (wr'.pc = "find" /\ BufferAt(S, wr)')
    PROVE  FilesAt(S)'
<1>1. Apart(S)'
  BY DEF Apart
<1>2. Kept(S)'
  <2>1. ASSUME NEW g \in Files \ cut' PROVE KeptFile(g, S[g])'
    BY KeptFrame DEF Kept
  <2> QED BY <2>1, Zenon DEF Kept
<1>3. ~Touched'
  BY DEF Touched
<1>4. NoneLeft(S)'
  BY <1>3 DEF NoneLeft
<1>5. Writing(S)'
  <2>1. wr'.pc = "find" => CallAt(S[wr.f], wr)'
    BY Zenon DEF CallAt
  <2> QED BY <2>1, Zenon DEF Writing
<1> QED BY <1>1, <1>2, <1>4, <1>5 DEF FilesAt

\* What the invariant says of a write that may have changed something.
LEMMA TouchedIs ==
    ASSUME FatTypeOK, NEW S \in [Files -> SUBSET Entries], FilesAt(S), NEW w, w = wr,
           w # NoWrite, w.pc # "find"
    PROVE  /\ w \in Writes /\ w.f \in Files /\ w.f \in cut /\ Touched
           /\ Apart(S) /\ Kept(S) /\ NoneLeft(S) /\ cut \subseteq Files
           /\ Around(S[w.f], w, fat) /\ S[w.f] \in SUBSET Entries
           /\ \A h \in cut \ {w.f} : S[h] = {}
           /\ \A h \in Files \ {w.f} : S[h] \cap S[w.f] = {}
           /\ CallAt(S[w.f], w)
<1>1. w \in Writes /\ w.f \in Files /\ cut \subseteq Files
  BY WriteIs DEF FatTypeOK
<1>2. Touched /\ Apart(S) /\ Kept(S) /\ NoneLeft(S)
  BY DEF FilesAt, Touched
<1>3. BufferAt(S, w) /\ CallAt(S[w.f], w)
  BY DEF FilesAt, Writing
<1>4. Closed(S[w.f], fat) /\ \A h \in Files \ {w.f} : S[h] \cap S[w.f] = {}
  BY <1>1, <1>2 DEF Apart
<1> QED BY <1>1, <1>2, <1>3, <1>4, Zenon DEF BufferAt, Around

\* What is written back is the table in the buffer.
LEMMA FlushedIs ==
    ASSUME NEW C, Around(C, wr, fat)
    PROVE  Flushed = wr.buf
BY DEF Around, Flushed

\* The table's windows are numbered from 0.
LEMMA WinNat ==
    ASSUME NEW e \in Nat
    PROVE  Win(e) \in Int /\ Win(e) # -1
BY SizeAssumption DEF Win

\* A buffer that holds the entry of a cluster was read.
LEMMA ReadyIs ==
    ASSUME FatTypeOK, NEW q, Ready(q), wr \in Writes
    PROVE  wr.pc = q /\ wr.win # -1
<1>1. wr.cur \in Nat /\ wr.p \in Nat /\ wr.end \in Nat
  BY WriteIs
<1>2. Wanted \in Nat
  BY <1>1 DEF Wanted
<1> QED BY <1>2, WinNat DEF Ready

\* Two calls that differ in the window alone.
SameCall(w, w2) ==
    /\ w2.pc = w.pc /\ w2.f = w.f /\ w2.size = w.size /\ w2.left = w.left /\ w2.off = w.off
    /\ w2.start = w.start /\ w2.cur = w.cur /\ w2.end = w.end /\ w2.act = w.act
    /\ w2.p = w.p /\ w2.buf = w.buf

\* What a call needs of the clusters found does not depend on the window.
LEMMA CallSame ==
    ASSUME NEW C, NEW w, NEW w2, SameCall(w, w2), CallAt(C, w)
    PROVE  CallAt(C, w2)
<1>1. \A b : Found(b, w) => Found(b, w2)
  BY Zenon DEF Found, NewChain, SameCall
<1>2. SearchAt(C, w2)  <=> SearchAt(C, w)
  BY Zenon DEF SearchAt, SameCall
<1>3. \A b, n : NewChain(b, n, w) => NewChain(b, n, w2)
  BY Zenon DEF NewChain, SameCall
<1> QED BY <1>1, <1>2, <1>3, Zenon DEF CallAt, SameCall

\* A step that writes no cluster.
LEMMA CallKeeps ==
    ASSUME NEW C, NEW w2, wr' = w2, clus' = clus, CallAt(C, w2)
    PROVE  CallAt(C, wr)'
<1>1. \A b : Found(b, w2) => Found(b, wr)'
  BY Zenon DEF Found, NewChain
<1>2. SearchAt(C, w2) => SearchAt(C, wr)'
  BY Zenon DEF SearchAt
<1>3. \A b, n : NewChain(b, n, w2) => NewChain(b, n, wr)'
  BY Zenon DEF NewChain
<1>4. \A g, n, s, first, t : Whole(g, n, s, first, t) => Whole(g, n, s, first, t)'
  BY Zenon DEF Whole
<1>5. \A b : Whole(w2.f, w2.size, b, w2.start, w2.buf) => Whole(wr.f, wr.size, b, wr.start, wr.buf)'
  BY Zenon DEF Whole
<1> QED BY <1>1, <1>2, <1>3, <1>5, Zenon DEF CallAt

\* The types of a step that leaves the directory alone.
LEMMA TypeStep ==
    ASSUME FatTypeOK, wr' = NoWrite \/ wr' \in Writes, fat' \in FatTables, dir' = dir,
           good' = good, cut' \subseteq Files
    PROVE  FatTypeOK'
BY DEF FatTypeOK

\* Another window is needed (switch_window).
LEMMA SwitchInv ==
    ASSUME FatTypeOK, NEW S \in [Files -> SUBSET Entries], FilesAt(S), switch_window,
           NEW w, w = wr
    PROVE  FatTypeOK' /\ \E S2 \in [Files -> SUBSET Entries] : FilesAt(S2)'
<1>1. /\ w.pc \in {"clear", "find", "probe", "link", "eof"} /\ fat' = Flushed
      /\ wr' = [w EXCEPT !.buf = Flushed, !.win = Win(Wanted)]
      /\ dir' = dir /\ clus' = clus /\ good' = good /\ cut' = cut
  BY DEF switch_window, NeedsFat, ghost
<1>2. w # NoWrite
  BY <1>1 DEF NoWrite
<1>3. w \in Writes
  BY <1>2 DEF FatTypeOK
<1>4. Win(Wanted) \in Int
  <2>1. w.cur \in Nat /\ w.p \in Nat /\ w.end \in Nat
    BY <1>3, WriteIs
  <2>2. Wanted \in Nat
    BY <2>1 DEF Wanted
  <2> QED BY <2>2, WinNat
<1>5. Flushed = w.buf
  BY <1>2 DEF FilesAt, Writing, BufferAt, Flushed
<1>6. PICK w2 : w2 = wr'
  OBVIOUS
<1>7. w2 \in Writes /\ SameCall(w, w2)
  <2>1. w2 = [w EXCEPT !.buf = w.buf, !.win = Win(Wanted)]
    BY <1>1, <1>5, <1>6, Zenon
  <2>2. w.buf \in FatTables
    BY <1>3, WriteIs
  <2> QED BY <1>3, <1>4, <2>1, <2>2, Zenon DEF Writes, SameCall
<1>8. FatTypeOK'
  <2>1. fat' \in FatTables
    BY <1>1, <1>3, <1>5, WriteIs
  <2> QED BY <1>1, <1>6, <1>7, <2>1, TypeStep DEF FatTypeOK
<1>9. CASE w.pc = "find"
  <2>1. BufferAt(S, w) /\ Apart(S) /\ Kept(S) /\ NoneLeft(S)
    BY <1>2 DEF FilesAt, Writing
  <2>2. w.buf = fat /\ fat' = fat
    BY <1>1, <1>5, <1>9, <2>1 DEF BufferAt
  <2>3. wr'.pc = "find" /\ BufferAt(S, wr)'
    <3>1. w2.pc = "find" /\ w2.buf = fat' /\ w2.f = w.f /\ w2.left = w.left /\ w2.size = w.size
          /\ w2.off = w.off /\ w2.act = w.act
      BY <1>7, <1>9, <2>2 DEF SameCall
    <3> QED BY <1>1, <1>6, <1>9, <2>1, <3>1 DEF BufferAt
  <2>4. FilesAt(S)'
    BY <1>1, <1>9, <2>1, <2>2, <2>3, UntouchedStep, Zenon DEF Touched
  <2> QED BY <1>8, <2>4
<1>10. CASE w.pc # "find"
  <2> DEFINE f == w.f
             C == S[w.f]
  <2>1. /\ f \in Files /\ f \in cut /\ Apart(S) /\ Kept(S) /\ NoneLeft(S) /\ cut \subseteq Files
        /\ Around(C, w, fat) /\ C \in SUBSET Entries /\ \A h \in cut \ {f} : S[h] = {}
        /\ \A h \in Files \ {f} : S[h] \cap C = {}
        /\ CallAt(C, w)
    BY <1>2, <1>10, TouchedIs
  <2>2. wr' \in Writes /\ wr'.pc # "find" /\ wr'.f = f /\ wr.f = f
    BY <1>6, <1>7, <1>10 DEF SameCall
  <2> HIDE DEF f, C
  <2>3. Outside(C) /\ cut' = cut \cup {f}
    BY <1>1, <1>5, <2>1 DEF Outside, Around
  <2>4. Around(C, wr', fat')
    BY <1>1, <1>5, <1>6, <1>7, <2>1 DEF Around, SameCall
  <2>5. CallAt(C, wr)'
    BY <1>1, <1>6, <1>7, <2>1, CallSame, CallKeeps
  <2>6. S[f] \subseteq C
    BY Zenon DEF f, C
  <2> QED BY <1>8, <2>1, <2>2, <2>3, <2>4, <2>5, <2>6, TouchedStep
<1> QED BY <1>9, <1>10

-----------------------------------------------------------------------------
(***************************************************************************)
(* The old chain is freed, and the first cluster found.                    *)
(***************************************************************************)

\* clear_fatent frees one more entry of the old chain.
LEMMA ClearInv ==
    ASSUME FatTypeOK, NEW S \in [Files -> SUBSET Entries], FilesAt(S), clear_fatent,
           NEW w, w = wr
    PROVE  FatTypeOK' /\ \E S2 \in [Files -> SUBSET Entries] : FilesAt(S2)'
<1> DEFINE f == w.f
           C == S[w.f]
           next == w.buf[w.cur]
           more == next \in Entries
           buf2 == [w.buf EXCEPT ![w.cur] = Free]
           cur2 == IF more THEN next ELSE w.start
           pc2 == IF more THEN "clear" ELSE "clear_flush"
<1>1. /\ Ready("clear") /\ fat' = fat /\ dir' = dir /\ clus' = clus /\ good' = good /\ cut' = cut
      /\ wr' = [w EXCEPT !.buf = buf2, !.cur = cur2, !.pc = pc2]
  BY DEF clear_fatent, disk, ghost
<1>2. w.pc = "clear" /\ w # NoWrite
  BY <1>1 DEF Ready, NoWrite
<1>3. /\ w \in Writes /\ f \in Files /\ f \in cut /\ Apart(S) /\ Kept(S) /\ NoneLeft(S)
      /\ cut \subseteq Files
      /\ Around(C, w, fat) /\ C \in SUBSET Entries /\ \A h \in cut \ {f} : S[h] = {}
      /\ \A h \in Files \ {f} : S[h] \cap C = {}
      /\ CallAt(C, w)
  BY <1>2, TouchedIs
<1>4. w.win # -1
  BY <1>1, <1>3, ReadyIs, Zenon
<1> HIDE DEF f, C
<1>5. /\ w.start \in C /\ w.cur \in C /\ w.end = w.start
      /\ w.left = w.size /\ w.off = 0 /\ w.act = 1
  BY <1>2, <1>3 DEF CallAt
<1>6. w.buf \in FatTables /\ w.cur \in Entries /\ w.start \in Entries
  BY <1>3, <1>5, WriteIs
<1>7. /\ buf2 \in FatTables /\ buf2[w.cur] = Free
      /\ \A e \in Entries : e # w.cur => buf2[e] = w.buf[e]
  BY <1>6, Zenon DEF FatTables, FatVals
<1>8. /\ cur2 \in C /\ cur2 \in Entries /\ pc2 \in {"clear", "clear_flush"}
      /\ pc2 = "clear_flush" => cur2 = w.start
  BY <1>3, <1>5 DEF Around, Closed
<1>9. PICK w2 : w2 = wr'
  OBVIOUS
<1> HIDE DEF next, more, buf2, cur2, pc2
<1>10. /\ w2 \in Writes /\ w2.f = w.f /\ w2.buf = buf2 /\ w2.win = w.win /\ w2.start = w.start
       /\ w2.end = w.end /\ w2.size = w.size /\ w2.left = w.left /\ w2.off = w.off /\ w2.act = w.act
       /\ w2.cur = cur2 /\ w2.pc = pc2
  <2>1. w2 = [w EXCEPT !.buf = buf2, !.cur = cur2, !.pc = pc2]
    BY <1>1, <1>9
  <2> QED BY ONLY <1>3, <1>7, <1>8, <2>1, Zenon DEF Writes
<1>11. FatTypeOK'
  BY <1>1, <1>9, <1>10, TypeStep DEF FatTypeOK
<1>12. Around(C, wr', fat')
  <2>1. Closed(C, buf2)
    BY <1>3, <1>7, Marks, SMTT(20) DEF Around, Closed
  <2>2. \A e \in Entries \ C : buf2[e] = fat[e]
    BY <1>3, <1>5, <1>7 DEF Around
  <2> QED BY <1>1, <1>3, <1>4, <1>8, <1>9, <1>10, <2>1, <2>2 DEF Around
<1>13. CallAt(C, w2)
  <2>1. w2.cur \in C /\ w2.pc \in {"clear", "clear_flush"}
    BY <1>8, <1>10
  <2>2. w2.pc = "clear_flush" => w2.cur = w2.start
    BY <1>8, <1>10
  <2> QED BY <1>5, <1>10, <2>1, <2>2 DEF CallAt
<1>14. CallAt(C, wr)'
  BY <1>1, <1>9, <1>13, CallKeeps
<1>15. Outside(C) /\ cut' = cut \cup {f} /\ S[f] \subseteq C
  BY <1>1, <1>3 DEF Outside, f, C
<1>16. wr' \in Writes /\ wr'.pc # "find" /\ wr'.f = f /\ wr.f = f
  BY <1>8, <1>9, <1>10, Zenon DEF f
<1> QED BY <1>3, <1>11, <1>12, <1>14, <1>15, <1>16, TouchedStep

\* The search for more clusters begins at the first one.
LEMMA FirstCluster ==
    ASSUME NEW w \in Writes, NEW C, NEW c \in C, C \subseteq Entries,
           w.start = c, w.cur = c, w.end = c, w.p = c + 1, w.act = 1, w.off = 0,
           w.left = w.size, w.size >= 1, w.pc = set_contents(1, w.left)
    PROVE  CallAt(C, w)
<1>1. c \in Nat /\ w.left \in Nat
  BY Marks, WriteIs
<1> DEFINE b == [i \in 1..1 |-> c]
<1>2. b \in [1..(w.off + w.act) -> C] /\ b[1] = c
  OBVIOUS
<1> HIDE DEF b
<1>3. NewChain(b, w.off + w.act, w)
  BY <1>2 DEF NewChain
<1>4. Found(b, w)
  BY <1>1, <1>2, <1>3 DEF Found
<1>5. \/ w.pc = "probe" /\ 1 < w.left
      \/ w.pc = "last" /\ w.left = 1
  BY <1>1 DEF set_contents
<1>6. SearchAt(C, w)
  BY <1>1, <1>5 DEF SearchAt
<1> QED BY <1>2, <1>4, <1>5, <1>6 DEF CallAt

\* The freed chain is written (clear_fatent's flush).
LEMMA ClearFlushInv ==
    ASSUME FatTypeOK, NEW S \in [Files -> SUBSET Entries], FilesAt(S), clear_flush,
           NEW w, w = wr
    PROVE  FatTypeOK' /\ \E S2 \in [Files -> SUBSET Entries] : FilesAt(S2)'
<1> DEFINE f == w.f
           C == S[w.f]
           pc2 == IF w.size = 0 THEN "flush" ELSE set_contents(1, w.left)
           st2 == IF w.size = 0 THEN 0 ELSE w.start
<1>1. /\ w.pc = "clear_flush" /\ fat' = Flushed /\ dir' = dir /\ clus' = clus /\ good' = good
      /\ cut' = cut
      /\ wr' = [w EXCEPT !.start = st2, !.p = w.start + 1, !.pc = pc2]
  BY DEF clear_flush, ghost
<1>2. w # NoWrite
  BY <1>1 DEF NoWrite
<1>3. /\ w \in Writes /\ f \in Files /\ f \in cut /\ Apart(S) /\ Kept(S) /\ NoneLeft(S)
      /\ cut \subseteq Files
      /\ Around(C, w, fat) /\ C \in SUBSET Entries /\ \A h \in cut \ {f} : S[h] = {}
      /\ \A h \in Files \ {f} : S[h] \cap C = {}
      /\ CallAt(C, w)
  BY <1>1, <1>2, TouchedIs
<1>4. fat' = w.buf
  BY <1>1, <1>3, FlushedIs
<1> HIDE DEF f, C
<1>5. /\ w.start \in C /\ w.cur = w.start /\ w.end = w.start
      /\ w.left = w.size /\ w.off = 0 /\ w.act = 1
  BY <1>1, <1>3 DEF CallAt
<1>6. w.buf \in FatTables /\ w.start \in Nat /\ w.size \in Nat /\ w.start \in Entries
  BY <1>3, <1>5, WriteIs, SizeAssumption
<1>7. pc2 \in {"flush", "probe", "last"} /\ st2 \in Entries \cup {0}
  BY <1>6 DEF set_contents
<1>8. PICK w2 : w2 = wr'
  OBVIOUS
<1> HIDE DEF pc2, st2
<1>9. /\ w2 \in Writes /\ w2.f = w.f /\ w2.buf = w.buf /\ w2.win = w.win /\ w2.start = st2
      /\ w2.end = w.end /\ w2.size = w.size /\ w2.left = w.left /\ w2.off = w.off /\ w2.act = w.act
      /\ w2.cur = w.cur /\ w2.p = w.start + 1 /\ w2.pc = pc2
  <2>1. w2 = [w EXCEPT !.start = st2, !.p = w.start + 1, !.pc = pc2] /\ w.start + 1 \in Nat
    BY <1>1, <1>6, <1>8
  <2> QED BY ONLY <1>3, <1>7, <2>1, Zenon DEF Writes
<1>10. FatTypeOK'
  BY <1>1, <1>4, <1>6, <1>8, <1>9, TypeStep DEF FatTypeOK
<1>11. Around(C, wr', fat')
  BY <1>3, <1>4, <1>8, <1>9, Zenon DEF Around
<1>12. CallAt(C, w2)
  <2>1. CASE w.size = 0
    BY <1>9, <2>1 DEF CallAt, pc2, st2
  <2>2. CASE w.size # 0
    <3>1. w2.start = w.start /\ w2.pc = set_contents(1, w2.left) /\ w2.size >= 1
      BY <1>6, <1>9, <2>2 DEF pc2, st2
    <3> QED BY <1>3, <1>5, <1>9, <3>1, FirstCluster, Zenon
  <2> QED BY <2>1, <2>2
<1>13. CallAt(C, wr)'
  BY <1>1, <1>8, <1>12, CallKeeps
<1>14. Outside(C) /\ cut' = cut \cup {f} /\ S[f] \subseteq C
  BY <1>1, <1>3, <1>4, Zenon DEF Outside, Around, f, C
<1>15. wr' \in Writes /\ wr'.pc # "find" /\ wr'.f = f /\ wr.f = f
  BY <1>7, <1>8, <1>9, Zenon DEF f
<1> QED BY <1>3, <1>10, <1>11, <1>13, <1>14, <1>15, TouchedStep

\* What the invariant says of a write that has touched nothing.
LEMMA FindIs ==
    ASSUME FatTypeOK, NEW S \in [Files -> SUBSET Entries], FilesAt(S), NEW w, w = wr, w.pc = "find"
    PROVE  /\ w \in Writes /\ w # NoWrite /\ w.f \in Files /\ ~Touched
           /\ Apart(S) /\ Kept(S) /\ NoneLeft(S) /\ cut \subseteq Files
           /\ w.buf = fat /\ dir[w.f].start \notin Entries /\ S[w.f] = {}
           /\ w.left = w.size /\ w.size > 0 /\ w.off = 0 /\ w.act = 1
<1>1. w # NoWrite
  BY DEF NoWrite
<1>2. w \in Writes /\ w.f \in Files /\ cut \subseteq Files
  BY <1>1, WriteIs DEF FatTypeOK
<1>3. BufferAt(S, w) /\ ~Touched /\ Apart(S) /\ Kept(S) /\ NoneLeft(S)
  BY <1>1 DEF FilesAt, Writing, Touched
<1> QED BY <1>1, <1>2, <1>3 DEF BufferAt, NoneLeft

\* A file that is not written is cut only before it has a cluster, and a
\* cluster that is free is no file's.
LEMMA FreeIsNobodys ==
    ASSUME FatTypeOK, NEW S \in [Files -> SUBSET Entries], Kept(S), NoneLeft(S), ~Touched,
           NEW f \in Files, \A h \in cut \ {f} : ~(dir[h].start > 0)
    PROVE  /\ \A h \in cut \ {f} : S[h] = {}
           /\ \A p \in Entries : fat[p] = Free => \A h \in Files \ {f} : S[h] \cap {p} = {}
<1>1. \A h \in cut \ {f} : dir[h].start \notin Entries /\ h \in Files
  <2>1. \A e \in Entries : e > 0
    BY Marks
  <2>2. cut \subseteq Files
    BY DEF FatTypeOK
  <2> QED BY <2>1, <2>2
<1>2. \A h \in cut \ {f} : S[h] = {}
  BY <1>1, Zenon DEF NoneLeft
<1>3. \A h \in Files \ cut : \A e \in S[h] : fat[e] # Free
  BY DEF Kept, KeptFile
<1> QED BY <1>2, <1>3

\* One step of find_empty_cluster.
LEMMA FindInv ==
    ASSUME FatTypeOK, NEW S \in [Files -> SUBSET Entries], FilesAt(S), find_empty_cluster,
           crossed' = FALSE, NEW w, w = wr
    PROVE  FatTypeOK' /\ \E S2 \in [Files -> SUBSET Entries] : FilesAt(S2)'
<1>1. /\ w.pc = "find" /\ w.p \in Entries /\ fat' = fat /\ dir' = dir /\ clus' = clus /\ good' = good
  BY Zenon DEF find_empty_cluster, Ready, disk
<1>2. /\ w \in Writes /\ w # NoWrite /\ w.f \in Files /\ ~Touched
      /\ Apart(S) /\ Kept(S) /\ NoneLeft(S) /\ cut \subseteq Files
      /\ w.buf = fat /\ dir[w.f].start \notin Entries /\ S[w.f] = {}
      /\ w.left = w.size /\ w.size > 0 /\ w.off = 0 /\ w.act = 1
  BY <1>1, FindIs, Zenon
<1>3. fat \in FatTables /\ w.p + 1 \in Nat
  BY <1>2, WriteIs DEF FatTypeOK
<1>4. CASE w.buf[w.p] # Free /\ wr' = [w EXCEPT !.p = @ + 1] /\ cut' = cut
  <2>1. wr' \in Writes
    BY <1>2, <1>3, <1>4 DEF Writes
  <2>2. FatTypeOK'
    BY <1>1, <1>2, <1>3, <1>4, <2>1, TypeStep
  <2>3. /\ wr'.pc = "find" /\ wr'.buf = fat' /\ wr'.f = w.f /\ wr'.left = w.left
        /\ wr'.size = w.size /\ wr'.off = 0 /\ wr'.act = 1
    BY <1>1, <1>2, <1>4, <2>1, Zenon DEF Writes
  <2>4. BufferAt(S, wr)'
    BY <1>1, <1>2, <2>3 DEF BufferAt
  <2>5. FilesAt(S)'
    BY <1>1, <1>2, <1>4, <2>3, <2>4, UntouchedStep, Zenon
  <2> QED BY <2>2, <2>5
<1>5. CASE wr' = NoWrite /\ cut' = cut
  <2>1. FatTypeOK'
    BY <1>1, <1>2, <1>3, <1>5, TypeStep, Zenon
  <2>2. FilesAt(S)'
    BY <1>1, <1>2, <1>5, UntouchedStep
  <2> QED BY <2>1, <2>2
<1>6. CASE /\ w.buf[w.p] = Free
           /\ wr' = [w EXCEPT !.start = w.p, !.cur = w.p, !.end = w.p, !.p = @ + 1,
                              !.pc = set_contents(1, w.left)]
           /\ Touch(w.f)
  <2>1. PICK C \in SUBSET Entries : C = {w.p}
    BY <1>1, Zenon
  <2>2. cut' = cut \cup {w.f} /\ \A h \in cut \ {w.f} : ~(dir[h].start > 0)
    BY <1>6, Zenon DEF Touch
  <2>3. /\ \A h \in cut \ {w.f} : S[h] = {}
        /\ \A h \in Files \ {w.f} : S[h] \cap C = {}
    BY <1>1, <1>2, <1>6, <2>1, <2>2, FreeIsNobodys
  <2>4. set_contents(1, w.left) \in {"probe", "last"}
    BY DEF set_contents
  <2>5. PICK w2 : w2 = wr'
    BY Zenon
  <2>6. /\ w2 \in Writes /\ w2.f = w.f /\ w2.buf = w.buf /\ w2.start = w.p /\ w2.cur = w.p
        /\ w2.end = w.p /\ w2.p = w.p + 1 /\ w2.act = 1 /\ w2.off = 0 /\ w2.left = w2.size
        /\ w2.size > 0 /\ w2.pc = set_contents(1, w2.left) /\ w2.win = w.win
    <3>1. PICK q \in {"probe", "last"} : q = set_contents(1, w.left)
      BY <2>4
    <3>2. w2 = [w EXCEPT !.start = w.p, !.cur = w.p, !.end = w.p, !.p = w.p + 1, !.pc = q]
      BY <1>6, <2>5, <3>1
    <3>3. /\ w2 \in Writes /\ w2.f = w.f /\ w2.buf = w.buf /\ w2.start = w.p /\ w2.cur = w.p
          /\ w2.end = w.p /\ w2.p = w.p + 1 /\ w2.act = w.act /\ w2.off = w.off /\ w2.left = w.left
          /\ w2.size = w.size /\ w2.pc = q /\ w2.win = w.win
      BY ONLY <1>1, <1>2, <1>3, <3>2, Zenon DEF Writes
    <3> QED BY <1>2, <3>1, <3>3
  <2>7. FatTypeOK'
    BY <1>1, <1>2, <1>3, <2>2, <2>5, <2>6, TypeStep, Zenon
  <2>8. w2.size >= 1 /\ w.p \in C /\ C \subseteq Entries
    BY <2>1, <2>6, WriteIs
  <2>9. CallAt(C, w2)
    BY ONLY <2>6, <2>8, FirstCluster, Zenon
  <2>10. CallAt(C, wr)'
    BY <1>1, <2>5, <2>9, CallKeeps
  <2>11. Closed(C, fat)
    BY <1>2, <1>6, <2>1, Marks DEF Closed
  <2>12. w2.pc # "find" /\ w2.pc # "dir"
    BY <2>6, Zenon DEF set_contents
  <2>13. Around(C, wr', fat')
    BY <1>1, <1>2, <2>5, <2>6, <2>11, <2>12, Zenon DEF Around
  <2>14. Outside(C) /\ S[w.f] \subseteq C
    BY <1>1, <1>2, Zenon DEF Outside
  <2>15. wr' \in Writes /\ wr'.pc # "find" /\ wr'.f = w.f /\ ~Touched
    BY <1>2, <2>5, <2>6, <2>12
  <2> QED BY <1>2, <2>2, <2>3, <2>7, <2>10, <2>13, <2>14, <2>15, TouchedStep, Zenon
<1>7. \/ w.buf[w.p] # Free /\ wr' = [w EXCEPT !.p = @ + 1] /\ cut' = cut
      \/ wr' = NoWrite /\ cut' = cut
      \/ /\ w.buf[w.p] = Free
         /\ wr' = [w EXCEPT !.start = w.p, !.cur = w.p, !.end = w.p, !.p = @ + 1,
                            !.pc = set_contents(1, w.left)]
         /\ Touch(w.f)
  BY DEF find_empty_cluster
<1> QED BY <1>4, <1>5, <1>6, <1>7

-----------------------------------------------------------------------------
(***************************************************************************)
(* The clusters of the new chain.                                          *)
(***************************************************************************)

\* A step of a touched write that leaves the device and the buffer alone.
LEMMA QuietStep ==
    ASSUME FatTypeOK, NEW S \in [Files -> SUBSET Entries], FilesAt(S), NEW w, w = wr,
           w # NoWrite, w.pc # "find", fat' = fat, dir' = dir, clus' = clus, good' = good,
           cut' = cut, NEW w2 \in Writes, wr' = w2, w2.f = w.f, w2.buf = w.buf, w2.win = w.win,
           w2.pc # "find", w2.pc # "dir", CallAt(S[w.f], w2)
    PROVE  FatTypeOK' /\ \E S2 \in [Files -> SUBSET Entries] : FilesAt(S2)'
<1> DEFINE C == S[w.f]
<1>1. /\ w \in Writes /\ w.f \in Files /\ w.f \in cut /\ Apart(S) /\ Kept(S) /\ NoneLeft(S)
      /\ cut \subseteq Files
      /\ Around(C, w, fat) /\ C \in SUBSET Entries /\ \A h \in cut \ {w.f} : S[h] = {}
      /\ \A h \in Files \ {w.f} : S[h] \cap C = {}
  BY TouchedIs
<1>2. S[w.f] \subseteq C /\ CallAt(C, w2)
  BY Zenon
<1> HIDE DEF C
<1>3. FatTypeOK'
  BY <1>1, TypeStep, Zenon DEF FatTypeOK
<1>4. Around(C, wr', fat')
  BY <1>1, Zenon DEF Around
<1>5. CallAt(C, wr)'
  BY <1>2, CallKeeps, Zenon
<1>6. Outside(C) /\ cut' = cut \cup {w.f}
  BY <1>1, Zenon DEF Outside
<1>7. wr' \in Writes /\ wr'.pc # "find" /\ wr'.f = w.f /\ wr.f = w.f
  OBVIOUS
<1> QED BY <1>1, <1>2, <1>3, <1>4, <1>5, <1>6, <1>7, TouchedStep, Zenon

\* One step of determine_fatent's search.
LEMMA ProbeInv ==
    ASSUME FatTypeOK, NEW S \in [Files -> SUBSET Entries], FilesAt(S), determine_fatent,
           NEW w, w = wr
    PROVE  FatTypeOK' /\ \E S2 \in [Files -> SUBSET Entries] : FilesAt(S2)'
<1>1. /\ w.pc = "probe" /\ w.p \in Entries /\ fat' = fat /\ dir' = dir /\ clus' = clus /\ good' = good
      /\ cut' = cut
      /\ wr' = IF w.buf[w.p] = Free THEN [w EXCEPT !.pc = "link"] ELSE [w EXCEPT !.p = w.p + 1]
  BY DEF determine_fatent, Ready, disk, ghost
<1>2. w # NoWrite
  BY <1>1 DEF NoWrite
<1>3. PICK C : C = S[w.f]
  OBVIOUS
<1>4. w \in Writes /\ CallAt(C, w)
  BY <1>1, <1>2, <1>3, TouchedIs
<1>5. PICK b \in [1..(w.off + w.act) -> C] : Found(b, w)
  BY <1>1, <1>4 DEF CallAt
<1>6. w.act < w.left /\ w.end < w.p /\ w.p \in Nat /\ w.end \in Nat
  BY <1>1, <1>4, WriteIs DEF CallAt, SearchAt
<1>7. PICK w2 : w2 = wr'
  OBVIOUS
<1>8. /\ w2 \in Writes /\ w2.f = w.f /\ w2.buf = w.buf /\ w2.win = w.win /\ w2.start = w.start
      /\ w2.cur = w.cur /\ w2.end = w.end /\ w2.act = w.act /\ w2.off = w.off /\ w2.left = w.left
      /\ w2.size = w.size
      /\ \/ w2.pc = "link" /\ w2.p = w.p /\ w.buf[w.p] = Free
         \/ w2.pc = "probe" /\ w2.p = w.p + 1
  <2>1. CASE w.buf[w.p] = Free
    BY <1>1, <1>4, <1>7, <2>1, Zenon DEF Writes
  <2>2. CASE w.buf[w.p] # Free
    <3>1. w2 = [w EXCEPT !.p = w.p + 1] /\ w.p + 1 \in Nat
      BY <1>1, <1>6, <1>7, <2>2
    <3> QED BY <1>1, <1>4, <3>1, Zenon DEF Writes
  <2> QED BY <2>1, <2>2
<1>9. Found(b, w2)
  BY <1>5, <1>8, Zenon DEF Found, NewChain
<1>10. SearchAt(C, w2)
  BY <1>1, <1>6, <1>8 DEF SearchAt
<1>11. w2.pc \in {"probe", "link"}
  BY <1>8, Zenon
<1>12. CallAt(C, w2)
  BY <1>5, <1>8, <1>9, <1>10, <1>11, Zenon DEF CallAt
<1> QED BY <1>1, <1>2, <1>3, <1>7, <1>8, <1>11, <1>12, QuietStep, Zenon

\* From the call w to w2 the cluster p is chained to the last one.
Grows(C, w, p, w2) ==
    /\ w.end < p /\ w2.start = w.start /\ w2.end = p /\ w2.buf[w.end] = p
    /\ \A e \in C : e # w.end => w2.buf[e] = w.buf[e]

\* A chain of n + 1 clusters of C that is b with p after it.
Longer(b, n, p, C, w) ==
    \E b2 \in [1..(n + 1) -> C] :
        NewChain(b2, n + 1, w) /\ b2[n + 1] = p /\ \A i \in 1..n : b2[i] = b[i]

\* The new chain b with one more cluster p.
LEMMA ChainGrows ==
    ASSUME NEW n \in Nat, n >= 1, NEW C, NEW C2, C \subseteq C2, C \subseteq Nat,
           NEW b \in [1..n -> C], NEW w, NewChain(b, n, w), NEW p \in C2, p \in Nat,
           NEW w2, Grows(C, w, p, w2)
    PROVE  Longer(b, n, p, C2, w2)
<1>0. /\ w.end < p /\ w2.start = w.start /\ w2.end = p /\ w2.buf[w.end] = p
      /\ \A e \in C : e # w.end => w2.buf[e] = w.buf[e]
  BY Zenon DEF Grows
<1>1. PICK b2 : b2 = [i \in 1..(n + 1) |-> IF i = n + 1 THEN p ELSE b[i]]
  BY Zenon
<1>2. b2[n + 1] = p /\ \A i \in 1..n : b2[i] = b[i] /\ b[i] \in C
  BY <1>1
<1>3. b2 \in [1..(n + 1) -> C2]
  <2>1. \A i \in 1..(n + 1) : i = n + 1 \/ i \in 1..n
    OBVIOUS
  <2>2. \A i \in 1..(n + 1) : (IF i = n + 1 THEN p ELSE b[i]) \in C2
    BY <1>2, <2>1, Zenon
  <2> QED BY <1>1, <2>2
<1>4. /\ b[1] = w.start /\ b[n] = w.end
      /\ \A i, j \in 1..n : i < j => b[i] < b[j]
      /\ \A i \in 1..(n - 1) : w.buf[b[i]] = b[i + 1]
  BY Zenon DEF NewChain
<1>5. \A i \in 1..n : b[i] \in Nat /\ b[i] < p /\ (i < n => b[i] # w.end)
  <2>1. \A i \in 1..n : b[i] \in Nat
    BY <1>2, Zenon
  <2>2. \A i \in 1..n : i < n => b[i] < b[n]
    BY <1>4, SMTT(20)
  <2>3. n \in 1..n /\ w.end \in Nat
    BY <1>4, <2>1, SMTT(20)
  <2>4. ASSUME NEW i \in 1..n PROVE b[i] < p /\ (i < n => b[i] # w.end)
    <3>1. i = n \/ i < n
      OBVIOUS
    <3> QED BY <1>0, <1>4, <2>1, <2>2, <2>3, <3>1
  <2> QED BY <2>1, <2>4
<1>6. \A i, j \in 1..(n + 1) : i < j => b2[i] < b2[j]
  <2>1. ASSUME NEW i \in 1..(n + 1), NEW j \in 1..(n + 1), i < j PROVE b2[i] < b2[j]
    <3>1. i \in 1..n /\ (j = n + 1 \/ j \in 1..n)
      BY <2>1
    <3> QED BY <1>2, <1>4, <1>5, <2>1, <3>1, Zenon
  <2> QED BY <2>1, Zenon
<1>7. \A i \in 1..((n + 1) - 1) : w2.buf[b2[i]] = b2[i + 1]
  <2>1. ASSUME NEW i \in 1..((n + 1) - 1) PROVE w2.buf[b2[i]] = b2[i + 1]
    <3>1. i \in 1..n
      BY SMTT(20)
    <3>2. CASE i = n
      BY <1>0, <1>2, <1>4, <3>1, <3>2, Zenon
    <3>3. CASE i # n
      <4>1. i < n /\ i \in 1..(n - 1) /\ i + 1 \in 1..n
        BY <3>1, <3>3, SMTT(20)
      <4>2. w2.buf[b[i]] = w.buf[b[i]]
        BY <1>0, <1>2, <1>5, <3>1, <4>1, Zenon
      <4> QED BY <1>2, <1>4, <3>1, <4>1, <4>2
    <3> QED BY <3>2, <3>3
  <2> QED BY <2>1, Zenon
<1>8. b2[1] = w2.start /\ b2[n + 1] = w2.end
  BY <1>0, <1>2, <1>4
<1> QED BY <1>2, <1>3, <1>6, <1>7, <1>8, Zenon DEF NewChain, Longer

\* What is known where the next cluster is searched or the run written.
LEMMA SearchIs ==
    ASSUME NEW C \in SUBSET Entries, NEW w \in Writes, CallAt(C, w),
           w.pc \in {"probe", "link", "part", "last"}
    PROVE  /\ SearchAt(C, w) /\ C \subseteq Nat
           /\ \E b \in [1..(w.off + w.act) -> C] : Found(b, w)
           /\ w.off \in Nat /\ w.act \in Nat /\ w.left \in Nat /\ w.act >= 1 /\ w.act <= w.left
           /\ w.off + w.left = w.size /\ w.end \in C /\ w.cur \in C
<1>1. PICK b \in [1..(w.off + w.act) -> C] : Found(b, w)
  BY DEF CallAt
<1>2. w.off \in Nat /\ w.act \in Nat /\ w.left \in Nat /\ w.cur \in Nat
  BY WriteIs
<1>3. w.act >= 1 /\ w.act <= w.left /\ w.off + w.left = w.size
  BY <1>1 DEF Found
<1>4. w.off + w.act \in 1..(w.off + w.act) /\ w.off + 1 \in 1..(w.off + w.act) /\ 1 \in 1..w.act
  BY <1>2, <1>3, SMTT(20)
<1>5. b[w.off + w.act] = w.end /\ b[w.off + 1] = w.cur + 1 - 1
  BY <1>1, <1>4 DEF Found, NewChain
<1>6. w.end \in C /\ w.cur \in C
  BY <1>1, <1>2, <1>4, <1>5, SMTT(20)
<1>7. SearchAt(C, w) /\ C \subseteq Nat
  BY Marks, Zenon DEF CallAt
<1> QED BY <1>1, <1>2, <1>3, <1>6, <1>7, Zenon

\* The cluster found is of no other file.
LEMMA LinkFresh ==
    ASSUME FatTypeOK, NEW S \in [Files -> SUBSET Entries], FilesAt(S), NEW w, w = wr,
           w # NoWrite, w.pc # "find", NEW p \in Entries, w.buf[p] = Free
    PROVE  /\ \A h \in Files \ {w.f} : S[h] \cap (S[w.f] \cup {p}) = {}
           /\ p \notin S[w.f] => fat[p] = Free
<1>1. /\ w.f \in Files /\ Kept(S) /\ Around(S[w.f], w, fat)
      /\ \A h \in cut \ {w.f} : S[h] = {}
      /\ \A h \in Files \ {w.f} : S[h] \cap S[w.f] = {}
  BY TouchedIs, Zenon
<1>2. p \notin S[w.f] => fat[p] = Free
  BY <1>1 DEF Around
<1>3. ASSUME NEW h \in Files \ {w.f} PROVE p \notin S[h]
  <2>1. CASE h \in cut
    BY <1>1, <1>3, <2>1, Zenon
  <2>2. CASE h \notin cut
    <3>1. \A e \in S[h] : fat[e] # Free
      BY <1>1, <1>3, <2>2 DEF Kept, KeptFile
    <3> QED BY <1>1, <1>2, <3>1, Zenon
  <2> QED BY <2>1, <2>2
<1> QED BY <1>1, <1>2, <1>3, Zenon

\* The successor is set (set_fatent_value), and the run goes on or ends.
LEMMA LinkInv ==
    ASSUME FatTypeOK, NEW S \in [Files -> SUBSET Entries], FilesAt(S), set_fatent_value,
           NEW w, w = wr
    PROVE  FatTypeOK' /\ \E S2 \in [Files -> SUBSET Entries] : FilesAt(S2)'
<1>1. PICK buf2 : buf2 = [w.buf EXCEPT ![w.end] = w.p]
  BY Zenon
<1>2. /\ Ready("link") /\ w.pc = "link" /\ fat' = fat /\ dir' = dir /\ clus' = clus /\ good' = good
      /\ cut' = cut
      /\ wr' = IF w.p = w.end + 1
               THEN [w EXCEPT !.buf = buf2, !.end = w.p, !.p = w.p + 1, !.act = w.act + 1,
                              !.pc = set_contents(w.act + 1, w.left)]
               ELSE [w EXCEPT !.buf = buf2, !.pc = "part"]
  BY <1>1 DEF set_fatent_value, Ready, disk, ghost
<1>3. w # NoWrite
  BY <1>2 DEF NoWrite
<1>4. PICK C0 \in SUBSET Entries : C0 = S[w.f]
  BY <1>2, <1>3, TouchedIs
<1>5. /\ w \in Writes /\ w.f \in Files /\ w.f \in cut /\ Apart(S) /\ Kept(S) /\ NoneLeft(S)
      /\ cut \subseteq Files
      /\ Around(C0, w, fat) /\ \A h \in cut \ {w.f} : S[h] = {}
      /\ CallAt(C0, w)
  BY <1>2, <1>3, <1>4, TouchedIs
<1>6. /\ w.off \in Nat /\ w.act \in Nat /\ w.left \in Nat /\ w.act >= 1 /\ w.act <= w.left
      /\ w.off + w.left = w.size
  BY <1>2, <1>5, SearchIs
<1>6a. SearchAt(C0, w) /\ C0 \subseteq Nat /\ w.end \in C0 /\ w.cur \in C0
  BY <1>2, <1>5, SearchIs
<1>7. PICK b \in [1..(w.off + w.act) -> C0] : Found(b, w)
  BY <1>2, <1>5, SearchIs
<1>8. w.act < w.left /\ w.end < w.p /\ w.p \in Entries /\ w.buf[w.p] = Free
  BY <1>2, <1>6a DEF SearchAt
<1>9. w.win # -1
  BY <1>2, <1>5, ReadyIs
<1>10. PICK C \in SUBSET Entries : C = C0 \cup {w.p}
  BY <1>8, Zenon
<1>11. /\ \A h \in Files \ {w.f} : S[h] \cap C = {}
       /\ w.p \notin C0 => fat[w.p] = Free
  BY <1>2, <1>3, <1>4, <1>8, <1>10, LinkFresh
<1>12. /\ buf2 \in FatTables /\ buf2[w.end] = w.p
       /\ \A e \in Entries : e # w.end => buf2[e] = w.buf[e]
  <2>1. w.buf \in FatTables /\ w.end \in Entries /\ w.p \in FatVals
    BY <1>5, <1>6a, <1>8, WriteIs DEF FatVals
  <2> QED BY <1>1, <2>1, Zenon DEF FatTables
<1>13. /\ Closed(C, fat) /\ Closed(C, buf2) /\ \A e \in Entries \ C : buf2[e] = fat[e]
  <2>1. Closed(C, fat)
    <3>1. Closed(C0, fat)
      BY <1>5, Zenon DEF Around
    <3> QED BY <1>10, <1>11, <3>1, Marks, Zenon DEF Closed
  <2>2. \A e \in C0 : w.buf[e] \in Entries => w.buf[e] \in C0
    BY <1>5, Zenon DEF Around, Closed
  <2>3. Closed(C, buf2)
    <3>1. SUFFICES ASSUME NEW e \in C, buf2[e] \in Entries
                   PROVE  buf2[e] \in C
      BY Zenon DEF Closed
    <3>2. CASE e = w.end
      BY <1>10, <1>12, <3>2, Zenon
    <3>3. CASE e # w.end /\ e \in C0
      <4>1. buf2[e] = w.buf[e]
        BY <1>12, <3>3, Zenon
      <4> QED BY <1>10, <2>2, <3>1, <3>3, <4>1, Zenon
    <3>4. CASE e # w.end /\ e = w.p
      <4>1. buf2[e] = Free
        BY <1>8, <1>12, <3>4, Zenon
      <4> QED BY <3>1, <4>1, Marks, Zenon
    <3> QED BY <1>10, <3>2, <3>3, <3>4, Zenon
  <2>4. \A e \in Entries \ C : e # w.end /\ w.buf[e] = fat[e]
    BY <1>5, <1>6a, <1>10 DEF Around
  <2> QED BY <1>12, <2>1, <2>3, <2>4
<1>14. PICK w2 : w2 = wr'
  OBVIOUS
<1>15. w.end \in Nat /\ w.p \in Nat /\ w.p + 1 \in Nat /\ w.act + 1 \in Nat /\ w.cur \in Nat
  <2>1. w.end \in Nat /\ w.p \in Nat /\ w.act \in Nat /\ w.cur \in Nat
    BY <1>5, WriteIs, Zenon
  <2> QED BY ONLY <2>1
<1>16. /\ w2 \in Writes /\ w2.f = w.f /\ w2.buf = buf2 /\ w2.win = w.win /\ w2.start = w.start
       /\ w2.cur = w.cur /\ w2.off = w.off /\ w2.left = w.left /\ w2.size = w.size
       /\ \/ /\ w2.pc = set_contents(w.act + 1, w.left) /\ w2.p = w.p + 1 /\ w2.end = w.p
             /\ w2.act = w.act + 1 /\ w.p = w.end + 1
          \/ w2.pc = "part" /\ w2.p = w.p /\ w2.end = w.end /\ w2.act = w.act
  <2>1. CASE w.p = w.end + 1
    <3>1. PICK q \in {"probe", "last"} : q = set_contents(w.act + 1, w.left)
      BY DEF set_contents
    <3>2. w2 = [w EXCEPT !.buf = buf2, !.end = w.p, !.p = w.p + 1, !.act = w.act + 1, !.pc = q]
      BY <1>2, <1>14, <2>1, <3>1
    <3>3. /\ w2 \in Writes /\ w2.f = w.f /\ w2.buf = buf2 /\ w2.win = w.win /\ w2.start = w.start
          /\ w2.cur = w.cur /\ w2.off = w.off /\ w2.left = w.left /\ w2.size = w.size
          /\ w2.pc = q /\ w2.p = w.p + 1 /\ w2.end = w.p /\ w2.act = w.act + 1
      BY ONLY <1>5, <1>8, <1>12, <1>15, <3>2, Zenon DEF Writes
    <3> QED BY <2>1, <3>1, <3>3, Zenon
  <2>2. CASE w.p # w.end + 1
    <3>1. w2 = [w EXCEPT !.buf = buf2, !.pc = "part"]
      BY <1>2, <1>14, <2>2
    <3> QED BY ONLY <1>5, <1>12, <3>1, Zenon DEF Writes
  <2> QED BY <2>1, <2>2, Zenon
<1>17. PICK n : n \in Nat /\ n = w.off + w.act /\ n >= 1
  BY <1>6, SMTT(20)
<1>18. NewChain(b, n, w) /\ b \in [1..n -> C0]
  BY <1>7, <1>17, Zenon DEF Found
<1>19. CallAt(C, w2)
  <2>1. \A e \in C0 : e # w.end => w2.buf[e] = w.buf[e]
    BY <1>12, <1>16, Zenon
  <2>2. CASE /\ w2.pc = set_contents(w.act + 1, w.left) /\ w2.p = w.p + 1 /\ w2.end = w.p
             /\ w2.act = w.act + 1 /\ w.p = w.end + 1
    <3>1. w2.buf[w.end] = w.p /\ w.p \in C /\ C0 \subseteq C
      BY <1>10, <1>12, <1>16
    <3>2. PICK b2 \in [1..(n + 1) -> C] :
              NewChain(b2, n + 1, w2) /\ b2[n + 1] = w.p /\ \A i \in 1..n : b2[i] = b[i]
      <4>1. Grows(C0, w, w.p, w2)
        BY <1>8, <1>16, <2>1, <2>2, <3>1, Zenon DEF Grows
      <4>2. Longer(b, n, w.p, C, w2)
        BY ONLY <1>6a, <1>15, <1>17, <1>18, <3>1, <4>1, ChainGrows, Zenon
      <4> QED BY <4>2, Zenon DEF Longer
    <3>3. w2.off + w2.act = n + 1
      <4>1. w2.off = w.off /\ w2.act = w.act + 1
        BY <1>16, <2>2
      <4> QED BY ONLY <1>6, <1>17, <4>1, SMTT(20)
    <3>4. \A i \in 1..w2.act : b2[w2.off + i] = w2.cur + i - 1
      <4>1. \A i \in 1..w.act : b[w.off + i] = w.cur + i - 1
        BY <1>7, Zenon DEF Found
      <4>2. b[n] = w.end
        BY <1>18, Zenon DEF NewChain
      <4>3. w.end = w.cur + w.act - 1
        <5>1. w.act \in 1..w.act
          BY <1>6
        <5> QED BY <1>17, <4>1, <4>2, <5>1, Zenon
      <4>4. ASSUME NEW i \in 1..w2.act PROVE b2[w2.off + i] = w2.cur + i - 1
        <5>1. i \in 1..w.act \/ i = w.act + 1
          BY <1>6, <2>2, <4>4, SMTT(20)
        <5>2. CASE i \in 1..w.act
          <6>1. w.off + i \in 1..n
            BY <1>6, <1>17, <5>2, SMTT(20)
          <6> QED BY <1>16, <3>2, <4>1, <5>2, <6>1
        <5>3. CASE i = w.act + 1
          <6>1. w.off + i = n + 1
            BY ONLY <1>6, <1>17, <5>3, SMTT(20)
          <6>2. w2.off + i = n + 1 /\ w2.cur = w.cur /\ b2[n + 1] = w.p /\ w.p = w.end + 1
            BY <1>16, <2>2, <3>2, <6>1, Zenon
          <6>3. b2[w2.off + i] = w.p
            BY ONLY <6>2
          <6>4. w.p = w.cur + i - 1
            <7>1. \A x, y \in Nat : (x + y - 1) + 1 = x + (y + 1) - 1
              OBVIOUS
            <7> QED BY <1>6, <1>15, <4>3, <5>3, <6>2, <7>1, SMTT(20)
          <6> QED BY ONLY <6>2, <6>3, <6>4
        <5> QED BY <5>1, <5>2, <5>3, Zenon
      <4> QED BY <4>4, Zenon
    <3>5. \A i \in 1..w2.off : clus[b2[i]] = <<w2.f, w2.size, i - 1>>
      <4>1. \A i \in 1..w.off : i \in 1..n /\ clus[b[i]] = <<w.f, w.size, i - 1>>
        <5>1. \A i \in 1..w.off : i \in 1..n
          BY ONLY <1>6, <1>17
        <5>2. \A i \in 1..w.off : clus[b[i]] = <<w.f, w.size, i - 1>>
          BY <1>7, Zenon DEF Found
        <5> QED BY ONLY <5>1, <5>2, Zenon
      <4> QED BY <1>16, <3>2, <4>1, Zenon
    <3>6. w2.off + w2.left = w2.size /\ 1 <= w2.act /\ w2.act <= w2.left
      BY <1>6, <1>8, <1>16, <2>2, SMTT(20)
    <3>7. Found(b2, w2)
      BY <3>2, <3>3, <3>4, <3>5, <3>6, Zenon DEF Found
    <3>8. \/ w2.pc = "probe" /\ w2.act < w2.left
          \/ w2.pc = "last" /\ w2.act = w2.left
      BY <1>6, <1>16, <2>2, <3>6, SMTT(20) DEF set_contents
    <3>9. SearchAt(C, w2)
      BY <1>15, <2>2, <3>8 DEF SearchAt
    <3> QED BY <3>2, <3>3, <3>7, <3>8, <3>9, Zenon DEF CallAt
  <2>3. CASE w2.pc = "part" /\ w2.p = w.p /\ w2.end = w.end /\ w2.act = w.act
    <3>1. \A i \in 1..(n - 1) : w2.buf[b[i]] = b[i + 1]
      <4>1. ASSUME NEW i \in 1..(n - 1) PROVE w2.buf[b[i]] = b[i + 1]
        <5>1. i \in 1..n /\ n \in 1..n /\ i < n
          BY <1>17, <4>1, SMTT(20)
        <5>2. b[i] < b[n] /\ b[n] = w.end /\ b[i] \in C0 /\ w.buf[b[i]] = b[i + 1]
          BY <1>18, <4>1, <5>1, Zenon DEF NewChain
        <5>3. b[i] # w.end
          BY <1>6a, <1>15, <5>2, SMTT(20)
        <5> QED BY <2>1, <5>2, <5>3
      <4> QED BY <4>1, Zenon
    <3>2. NewChain(b, n, w2)
      BY <1>16, <1>18, <2>3, <3>1 DEF NewChain
    <3>3. Found(b, w2)
      BY <1>7, <1>16, <1>17, <2>3, <3>2, Zenon DEF Found
    <3>4. b \in [1..(w2.off + w2.act) -> C]
      BY <1>7, <1>10, <1>16, <2>3, Zenon
    <3>5. SearchAt(C, w2)
      BY <1>8, <1>10, <1>12, <1>16, <2>3 DEF SearchAt
    <3> QED BY <2>3, <3>3, <3>4, <3>5, Zenon DEF CallAt
  <2> QED BY <1>16, <2>2, <2>3, Zenon
<1>20. CallAt(C, wr)'
  BY <1>2, <1>14, <1>19, CallKeeps
<1>21. w2.pc # "find" /\ w2.pc # "dir"
  BY <1>16, Zenon DEF set_contents
<1>22. Around(C, wr', fat')
  BY <1>2, <1>9, <1>13, <1>14, <1>16, <1>21 DEF Around
<1>23. FatTypeOK'
  BY <1>2, <1>5, <1>14, <1>16, TypeStep DEF FatTypeOK
<1>24. Outside(C) /\ cut' = cut \cup {w.f} /\ S[w.f] \subseteq C
  BY <1>2, <1>4, <1>5, <1>10 DEF Outside
<1>25. wr' \in Writes /\ wr'.pc # "find" /\ wr'.f = w.f /\ wr.f = w.f
  BY <1>14, <1>16, <1>21, Zenon
<1> QED BY <1>5, <1>11, <1>20, <1>22, <1>23, <1>24, <1>25, TouchedStep, Zenon

-----------------------------------------------------------------------------
(***************************************************************************)
(* The clusters are written, the table and the directory after them.       *)
(***************************************************************************)

\* The call w is about to write k of the clusters b it found.
Writable(C, w, b, k) ==
    /\ C \in SUBSET Entries /\ w = wr /\ w \in Writes
    /\ b \in [1..(w.off + w.act) -> C] /\ Found(b, w) /\ k \in 1..w.act

\* Only clusters of C are written; with the last one the file has all
\* its parts up to there.
RunDone(C, w, b, k) ==
    /\ \A e \in Entries \ C : clus'[e] = clus[e]
    /\ k = w.act => \A i \in 1..(w.off + w.act) : clus'[b[i]] = <<w.f, w.size, i - 1>>

\* The first k clusters of the run are written: they are the file's, and the
\* whole run is the next w.act parts of the file.
LEMMA RunWritten ==
    ASSUME NEW C, NEW w, NEW b, NEW k, Writable(C, w, b, k), clus' = Filled(k)
    PROVE  RunDone(C, w, b, k)
<1>0. /\ C \in SUBSET Entries /\ w = wr /\ w \in Writes
      /\ b \in [1..(w.off + w.act) -> C] /\ Found(b, w) /\ k \in 1..w.act
  BY Zenon DEF Writable
<1>1. w.off \in Nat /\ w.act \in Nat /\ w.cur \in Nat
  BY <1>0, WriteIs, Zenon
<1>1a. k \in 1..w.act /\ w.act >= 1
  BY <1>0 DEF Found
<1>2. PICK n : n \in Nat /\ n = w.off + w.act
  BY <1>1, SMTT(20)
<1>3. /\ b \in [1..n -> C] /\ \A i \in 1..n : b[i] \in C /\ b[i] \in Entries /\ b[i] \in Nat
  BY <1>0, <1>2, Marks, Zenon
<1>4. \A i \in 1..w.act : b[w.off + i] = w.cur + i - 1
  BY <1>0, Zenon DEF Found
<1>5. \A i, j \in 1..n : i < j => b[i] < b[j]
  BY <1>0, <1>2, Zenon DEF Found, NewChain
<1>6. \A i \in 1..w.off : clus[b[i]] = <<w.f, w.size, i - 1>>
  BY <1>0, Zenon DEF Found
<1>7. \A e \in Entries : clus'[e] = IF e \in w.cur..(w.cur + k - 1)
                                    THEN <<w.f, w.size, w.off + e - w.cur>> ELSE clus[e]
  BY <1>0, Zenon DEF Filled
<1>8. \A i \in 1..w.act : w.off + i \in 1..n
  BY ONLY <1>1, <1>2
<1>9. ASSUME NEW e \in Entries \ C PROVE clus'[e] = clus[e]
  <2>1. e \in Nat
    BY Marks
  <2>2. ASSUME e \in w.cur..(w.cur + k - 1) PROVE FALSE
    <3>1. PICK i : i = e - w.cur + 1
      OBVIOUS
    <3>2. i \in 1..w.act /\ w.cur + i - 1 = e
      BY <1>1, <1>1a, <2>1, <2>2, <3>1
    <3>3. b[w.off + i] = e
      BY <1>4, <3>2
    <3>4. b[w.off + i] \in C
      BY <1>3, <1>8, <3>2, Zenon
    <3> QED BY <3>3, <3>4
  <2> QED BY <1>7, <2>2, Zenon
<1>10. ASSUME k = w.act, NEW i \in 1..n PROVE clus'[b[i]] = <<w.f, w.size, i - 1>>
  <2>1. i \in 1..w.off \/ i - w.off \in 1..w.act
    BY <1>1, <1>2, SMTT(20)
  <2>2. CASE i \in 1..w.off
    <3>1. w.act >= 1 /\ 1 \in 1..w.act /\ w.off + 1 \in 1..n /\ i < w.off + 1
      BY <1>1, <1>1a, <1>2, <2>2
    <3>2. b[w.off + 1] = w.cur + 1 - 1
      BY <1>4, <3>1
    <3>3. b[i] < w.cur + 1 - 1
      BY <1>5, <3>1, <3>2
    <3>4. b[i] \notin w.cur..(w.cur + k - 1)
      BY <1>0, <1>1, <1>3, <3>3, SMTT(20)
    <3> QED BY <1>3, <1>6, <1>7, <2>2, <3>4, Zenon
  <2>3. CASE i - w.off \in 1..w.act
    <3>1. PICK j \in 1..w.act : j = i - w.off
      BY <2>3
    <3>2. w.off + j = i
      BY <1>1, <3>1, SMTT(20)
    <3>3. b[i] = w.cur + j - 1
      BY <1>4, <3>2
    <3>4. b[i] \in w.cur..(w.cur + k - 1) /\ w.off + b[i] - w.cur = i - 1
      <4>1. \A c, o, a \in Nat : \A x \in 1..a : /\ c + x - 1 \in c..(c + a - 1)
                                               /\ o + (c + x - 1) - c = (o + x) - 1
        OBVIOUS
      <4>2. j \in 1..w.act
        BY Zenon
      <4>3. /\ w.cur + j - 1 \in w.cur..(w.cur + w.act - 1)
            /\ w.off + (w.cur + j - 1) - w.cur = (w.off + j) - 1
        BY ONLY <1>1, <4>1, <4>2
      <4>4. k = w.act
        BY <1>10
      <4> QED BY ONLY <3>2, <3>3, <4>3, <4>4
    <3> QED BY <1>3, <1>7, <3>4, Zenon
  <2> QED BY <2>1, <2>2, <2>3
<1> QED BY <1>2, <1>9, <1>10, Zenon DEF RunDone

\* The run is written and the next one begins (set_cluster in set_contents).
LEMMA PartInv ==
    ASSUME FatTypeOK, NEW S \in [Files -> SUBSET Entries], FilesAt(S), set_cluster_part,
           NEW w, w = wr
    PROVE  FatTypeOK' /\ \E S2 \in [Files -> SUBSET Entries] : FilesAt(S2)'
<1>1. /\ w.pc = "part" /\ fat' = fat /\ dir' = dir /\ clus' = Filled(w.act) /\ good' = good
      /\ cut' = cut
      /\ wr' = [w EXCEPT !.left = w.left - w.act, !.off = w.off + w.act, !.cur = w.p, !.end = w.p,
                         !.p = w.p + 1, !.act = 1, !.pc = set_contents(1, w.left - w.act)]
  BY DEF set_cluster_part, ghost
<1>2. w # NoWrite
  BY <1>1 DEF NoWrite
<1>3. PICK C \in SUBSET Entries : C = S[w.f]
  BY <1>1, <1>2, TouchedIs
<1>4. /\ w \in Writes /\ w.f \in Files /\ w.f \in cut /\ Apart(S) /\ Kept(S) /\ NoneLeft(S)
      /\ cut \subseteq Files
      /\ Around(C, w, fat) /\ \A h \in cut \ {w.f} : S[h] = {}
      /\ \A h \in Files \ {w.f} : S[h] \cap C = {}
      /\ CallAt(C, w)
  BY <1>1, <1>2, <1>3, TouchedIs
<1>5. /\ w.off \in Nat /\ w.act \in Nat /\ w.left \in Nat /\ w.act >= 1 /\ w.act <= w.left
      /\ w.off + w.left = w.size
  BY <1>1, <1>4, SearchIs
<1>6. SearchAt(C, w) /\ C \subseteq Nat /\ w.end \in C
  BY <1>1, <1>4, SearchIs
<1>7. PICK b \in [1..(w.off + w.act) -> C] : Found(b, w)
  BY <1>1, <1>4, SearchIs, Zenon
<1>8. w.act < w.left /\ w.end < w.p /\ w.p \in C /\ w.buf[w.end] = w.p
  BY <1>1, <1>6 DEF SearchAt
<1>9. w.p \in Nat /\ w.p \in Entries
  BY <1>6, <1>8, Zenon
<1>10. PICK l2, n, q : /\ l2 = w.left - w.act /\ n = w.off + w.act /\ q = set_contents(1, l2)
  BY Zenon
<1>11. l2 \in Nat /\ l2 >= 1 /\ n \in Nat /\ n >= 1 /\ n + l2 = w.size /\ w.act \in 1..w.act
  BY ONLY <1>5, <1>8, <1>10
<1>12. \/ q = "probe" /\ 1 < l2
       \/ q = "last" /\ l2 = 1
  BY <1>10, <1>11 DEF set_contents
<1>13. PICK w2 : w2 = wr'
  OBVIOUS
<1>14. /\ w2 \in Writes /\ w2.f = w.f /\ w2.buf = w.buf /\ w2.win = w.win /\ w2.start = w.start
       /\ w2.cur = w.p /\ w2.off = n /\ w2.left = l2 /\ w2.size = w.size /\ w2.end = w.p
       /\ w2.p = w.p + 1 /\ w2.act = 1 /\ w2.pc = q
  <2>1. w2 = [w EXCEPT !.left = l2, !.off = n, !.cur = w.p, !.end = w.p, !.p = w.p + 1, !.act = 1,
                       !.pc = q]
    BY <1>1, <1>10, <1>13
  <2>2. q \in {"probe", "last"} /\ w.p + 1 \in Nat /\ 1 \in Nat
    BY ONLY <1>9, <1>12
  <2>3. w2 \in Writes
    BY ONLY <1>4, <1>9, <1>11, <2>1, <2>2, Zenon DEF Writes
  <2> QED BY ONLY <1>4, <2>1, <2>3 DEF Writes
<1>15. NewChain(b, n, w) /\ b \in [1..n -> C]
  BY <1>7, <1>10, Zenon DEF Found
<1>16. /\ \A e \in Entries \ C : clus'[e] = clus[e]
       /\ \A i \in 1..n : clus'[b[i]] = <<w.f, w.size, i - 1>>
  <2>1. Writable(C, w, b, w.act)
    BY <1>4, <1>7, <1>11, Zenon DEF Writable
  <2>2. RunDone(C, w, b, w.act)
    BY <1>1, <2>1, RunWritten
  <2> QED BY <1>10, <2>2 DEF RunDone
<1>17. PICK b2 \in [1..(n + 1) -> C] :
           NewChain(b2, n + 1, w2) /\ b2[n + 1] = w.p /\ \A i \in 1..n : b2[i] = b[i]
  <2>1. Grows(C, w, w.p, w2)
    BY <1>8, <1>14, Zenon DEF Grows
  <2>2. C \subseteq C
    BY Zenon
  <2>3. Longer(b, n, w.p, C, w2)
    BY ONLY <1>6, <1>8, <1>9, <1>11, <1>15, <2>1, <2>2, ChainGrows, Zenon
  <2> QED BY <2>3, Zenon DEF Longer
<1>18. Found(b2, wr)'
  <2>1. w2.off + w2.left = w2.size /\ 1 <= w2.act /\ w2.act <= w2.left /\ w2.off + w2.act = n + 1
    BY <1>11, <1>14, SMTT(20)
  <2>2. NewChain(b2, n + 1, wr)'
    BY <1>13, <1>17, Zenon DEF NewChain
  <2>3. \A i \in 1..w2.act : b2[w2.off + i] = w2.cur + i - 1
    BY <1>9, <1>14, <1>17, SMTT(20)
  <2>4. \A i \in 1..w2.off : clus'[b2[i]] = <<w2.f, w2.size, i - 1>>
    BY <1>14, <1>16, <1>17, Zenon
  <2> QED BY <1>13, <2>1, <2>2, <2>3, <2>4, Zenon DEF Found
<1>19. SearchAt(C, wr)'
  BY <1>9, <1>12, <1>13, <1>14, SMTT(20) DEF SearchAt
<1>20. CallAt(C, wr)'
  <2>1. n + 1 = w2.off + w2.act /\ w2.pc \in {"probe", "last"}
    BY <1>12, <1>14, Zenon
  <2>2. (\E b3 \in [1..(wr.off + wr.act) -> C] : Found(b3, wr))'
    BY <1>13, <1>17, <1>18, <2>1
  <2>3. wr'.pc \in {"probe", "last"}
    BY <1>13, <2>1
  <2> QED BY <1>19, <2>2, <2>3, Zenon DEF CallAt
<1>21. Around(C, wr', fat')
  BY <1>1, <1>4, <1>12, <1>13, <1>14 DEF Around
<1>22. FatTypeOK'
  BY <1>1, <1>4, <1>13, <1>14, TypeStep DEF FatTypeOK
<1>23. Outside(C) /\ cut' = cut \cup {w.f} /\ S[w.f] \subseteq C
  BY <1>1, <1>3, <1>4, <1>16, SMTT(20) DEF Outside
<1>24. wr' \in Writes /\ wr'.pc # "find" /\ wr'.f = w.f /\ wr.f = w.f
  BY <1>12, <1>13, <1>14
<1> QED BY <1>4, <1>20, <1>21, <1>22, <1>23, <1>24, TouchedStep, Zenon

\* The rest of the file is written.
LEMMA LastInv ==
    ASSUME FatTypeOK, NEW S \in [Files -> SUBSET Entries], FilesAt(S), set_cluster_last,
           NEW w, w = wr
    PROVE  FatTypeOK' /\ \E S2 \in [Files -> SUBSET Entries] : FilesAt(S2)'
<1>1. /\ w.pc = "last" /\ fat' = fat /\ dir' = dir /\ clus' = Filled(w.left) /\ good' = good
      /\ cut' = cut /\ wr' = [w EXCEPT !.pc = "eof"]
  BY DEF set_cluster_last, ghost
<1>2. w # NoWrite
  BY <1>1 DEF NoWrite
<1>3. PICK C \in SUBSET Entries : C = S[w.f]
  BY <1>1, <1>2, TouchedIs
<1>4. /\ w \in Writes /\ w.f \in Files /\ w.f \in cut /\ Apart(S) /\ Kept(S) /\ NoneLeft(S)
      /\ cut \subseteq Files
      /\ Around(C, w, fat) /\ \A h \in cut \ {w.f} : S[h] = {}
      /\ \A h \in Files \ {w.f} : S[h] \cap C = {}
      /\ CallAt(C, w)
  BY <1>1, <1>2, <1>3, TouchedIs
<1>5. /\ w.off \in Nat /\ w.act \in Nat /\ w.left \in Nat /\ w.act >= 1
      /\ w.off + w.left = w.size
  BY <1>1, <1>4, SearchIs
<1>6. SearchAt(C, w)
  BY <1>1, <1>4, SearchIs
<1>7. PICK b \in [1..(w.off + w.act) -> C] : Found(b, w)
  BY <1>1, <1>4, SearchIs
<1>8. w.act = w.left
  BY <1>1, <1>6 DEF SearchAt
<1>9. w.act \in 1..w.act /\ w.off + w.act = w.size /\ w.size >= 1
  BY ONLY <1>5, <1>8
<1>10. PICK w2 : w2 = wr'
  OBVIOUS
<1>11. /\ w2 \in Writes /\ w2.f = w.f /\ w2.buf = w.buf /\ w2.win = w.win /\ w2.start = w.start
       /\ w2.size = w.size /\ w2.end = w.end /\ w2.pc = "eof"
  BY <1>1, <1>4, <1>10, Zenon DEF Writes
<1>12. RunDone(C, w, b, w.act)
  <2>1. Writable(C, w, b, w.act)
    BY <1>4, <1>7, <1>9, Zenon DEF Writable
  <2> QED BY <1>1, <1>8, <2>1, RunWritten
<1>13. /\ \A e \in Entries \ C : clus'[e] = clus[e]
       /\ \A i \in 1..w.size : clus'[b[i]] = <<w.f, w.size, i - 1>>
  BY <1>9, <1>12, Zenon DEF RunDone
<1>14. b \in [1..w.size -> C] /\ NewChain(b, w.size, w)
  BY <1>7, <1>9, Zenon DEF Found
<1>15. NewChain(b, w2.size, w2) /\ b \in [1..w2.size -> C]
  BY <1>11, <1>14 DEF NewChain
<1>16. CallAt(C, wr)'
  <2>1. NewChain(b, wr.size, wr)'
    BY <1>10, <1>15, Zenon DEF NewChain
  <2>2. \A i \in 1..wr'.size : clus'[b[i]] = <<wr'.f, wr'.size, i - 1>>
    BY <1>10, <1>11, <1>13
  <2>3. b \in [1..wr'.size -> C] /\ wr'.size >= 1 /\ wr'.pc = "eof"
    BY <1>9, <1>10, <1>11, <1>15, Zenon
  <2> QED BY <2>1, <2>2, <2>3, Zenon DEF CallAt
<1>17. Around(C, wr', fat')
  BY <1>1, <1>4, <1>10, <1>11 DEF Around
<1>18. FatTypeOK'
  BY <1>1, <1>4, <1>10, <1>11, TypeStep DEF FatTypeOK
<1>19. Outside(C) /\ cut' = cut \cup {w.f} /\ S[w.f] \subseteq C
  BY <1>1, <1>3, <1>4, <1>13, SMTT(20) DEF Outside
<1>20. wr' \in Writes /\ wr'.pc # "find" /\ wr'.f = w.f /\ wr.f = w.f
  BY <1>10, <1>11
<1> QED BY <1>4, <1>16, <1>17, <1>18, <1>19, <1>20, TouchedStep, Zenon

\* The last cluster is marked.
LEMMA EofInv ==
    ASSUME FatTypeOK, NEW S \in [Files -> SUBSET Entries], FilesAt(S), set_eof,
           NEW w, w = wr
    PROVE  FatTypeOK' /\ \E S2 \in [Files -> SUBSET Entries] : FilesAt(S2)'
<1>1. PICK buf2 : buf2 = [w.buf EXCEPT ![w.end] = Eof]
  BY Zenon
<1>2. /\ Ready("eof") /\ w.pc = "eof" /\ fat' = fat /\ dir' = dir /\ clus' = clus /\ good' = good
      /\ cut' = cut /\ wr' = [w EXCEPT !.buf = buf2, !.pc = "flush"]
  BY <1>1 DEF set_eof, Ready, disk, ghost
<1>3. w # NoWrite
  BY <1>2 DEF NoWrite
<1>4. PICK C \in SUBSET Entries : C = S[w.f]
  BY <1>2, <1>3, TouchedIs
<1>5. /\ w \in Writes /\ w.f \in Files /\ w.f \in cut /\ Apart(S) /\ Kept(S) /\ NoneLeft(S)
      /\ cut \subseteq Files
      /\ Around(C, w, fat) /\ \A h \in cut \ {w.f} : S[h] = {}
      /\ \A h \in Files \ {w.f} : S[h] \cap C = {}
      /\ CallAt(C, w)
  BY <1>2, <1>3, <1>4, TouchedIs
<1>6. w.win # -1
  BY <1>2, <1>5, ReadyIs
<1>7. PICK n : n = w.size
  OBVIOUS
<1>8. n \in Nat /\ n >= 1 /\ n \in 1..n
  BY <1>2, <1>5, <1>7, WriteIs, SizeAssumption DEF CallAt
<1>9. PICK b \in [1..n -> C] : NewChain(b, n, w) /\ \A i \in 1..n : clus[b[i]] = <<w.f, n, i - 1>>
  <2>1. \E b \in [1..w.size -> C] :
           NewChain(b, w.size, w) /\ \A i \in 1..w.size : clus[b[i]] = <<w.f, w.size, i - 1>>
    BY <1>2, <1>5, Zenon DEF CallAt
  <2> QED BY <1>7, <2>1, Zenon
<1>10. /\ b[1] = w.start /\ b[n] = w.end /\ \A i \in 1..(n - 1) : w.buf[b[i]] = b[i + 1]
       /\ \A i \in 1..n : i < n => b[i] < b[n]
  BY <1>8, <1>9, Zenon DEF NewChain
<1>11. w.end \in C /\ w.end \in Entries /\ w.end \in Nat
  BY <1>8, <1>9, <1>10, Marks, Zenon
<1>12. /\ buf2 \in FatTables /\ buf2[w.end] = Eof
       /\ \A e \in Entries : e # w.end => buf2[e] = w.buf[e]
  <2>1. w.buf \in FatTables /\ Eof \in FatVals
    BY <1>5, WriteIs, Zenon DEF FatVals
  <2> QED BY <1>1, <1>11, <2>1, Zenon DEF FatTables
<1>13. \A i \in 1..(n - 1) : buf2[b[i]] = b[i + 1]
  <2>1. ASSUME NEW i \in 1..(n - 1) PROVE buf2[b[i]] = b[i + 1]
    <3>1. i \in 1..n /\ i < n
      BY <1>8, SMTT(20)
    <3>2. b[i] < b[n] /\ b[i] \in C /\ w.buf[b[i]] = b[i + 1]
      BY <1>9, <1>10, <3>1, Zenon
    <3>3. b[i] # w.end /\ b[i] \in Entries
      BY <1>10, <1>11, <3>2, SMTT(20)
    <3> QED BY <1>12, <3>2, <3>3
  <2> QED BY <2>1, Zenon
<1>14. Whole(w.f, n, b, w.start, buf2)
  BY <1>9, <1>10, <1>12, <1>13 DEF Whole
<1>15. PICK w2 : w2 = wr'
  OBVIOUS
<1>16. /\ w2 \in Writes /\ w2.f = w.f /\ w2.buf = buf2 /\ w2.win = w.win /\ w2.start = w.start
       /\ w2.size = n /\ w2.pc = "flush"
  BY <1>2, <1>5, <1>7, <1>12, <1>15, Zenon DEF Writes
<1>17. CallAt(C, w2)
  <2>1. \E b2 \in [1..w2.size -> C] : Whole(w2.f, w2.size, b2, w2.start, w2.buf)
    BY <1>14, <1>16
  <2>2. w2.size # 0
    BY <1>8, <1>16
  <2> QED BY <1>16, <2>1, <2>2, Zenon DEF CallAt
<1>18. CallAt(C, wr)'
  BY <1>2, <1>15, <1>17, CallKeeps
<1>19. Around(C, wr', fat')
  <2>1. Closed(C, buf2)
    <3>1. Closed(C, w.buf)
      BY <1>5, Zenon DEF Around
    <3> QED BY <1>12, <3>1, Marks, Zenon DEF Closed
  <2>2. \A e \in Entries \ C : buf2[e] = fat[e]
    BY <1>5, <1>11, <1>12 DEF Around
  <2> QED BY <1>2, <1>5, <1>6, <1>15, <1>16, <2>1, <2>2 DEF Around
<1>20. FatTypeOK'
  BY <1>2, <1>5, <1>15, <1>16, TypeStep DEF FatTypeOK
<1>21. Outside(C) /\ cut' = cut \cup {w.f} /\ S[w.f] \subseteq C
  BY <1>2, <1>4, <1>5 DEF Outside
<1>22. wr' \in Writes /\ wr'.pc # "find" /\ wr'.f = w.f /\ wr.f = w.f
  BY <1>15, <1>16
<1> QED BY <1>5, <1>18, <1>19, <1>20, <1>21, <1>22, TouchedStep, Zenon

\* The new chain is written (flush_fat_buffer).
LEMMA FlushInv ==
    ASSUME FatTypeOK, NEW S \in [Files -> SUBSET Entries], FilesAt(S), flush_fat_buffer,
           NEW w, w = wr
    PROVE  FatTypeOK' /\ \E S2 \in [Files -> SUBSET Entries] : FilesAt(S2)'
<1>1. /\ w.pc = "flush" /\ fat' = Flushed /\ dir' = dir /\ clus' = clus /\ good' = good
      /\ cut' = cut /\ wr' = [w EXCEPT !.pc = "dir"]
  BY DEF flush_fat_buffer, ghost
<1>2. w # NoWrite
  BY <1>1 DEF NoWrite
<1>3. PICK C \in SUBSET Entries : C = S[w.f]
  BY <1>1, <1>2, TouchedIs
<1>4. /\ w \in Writes /\ w.f \in Files /\ w.f \in cut /\ Apart(S) /\ Kept(S) /\ NoneLeft(S)
      /\ cut \subseteq Files
      /\ Around(C, w, fat) /\ \A h \in cut \ {w.f} : S[h] = {}
      /\ \A h \in Files \ {w.f} : S[h] \cap C = {}
      /\ CallAt(C, w)
  BY <1>1, <1>2, <1>3, TouchedIs
<1>5. fat' = w.buf
  BY <1>1, <1>4, FlushedIs
<1>6. PICK w2 : w2 = wr'
  OBVIOUS
<1>7. /\ w2 \in Writes /\ w2.f = w.f /\ w2.buf = w.buf /\ w2.win = w.win /\ w2.start = w.start
      /\ w2.size = w.size /\ w2.pc = "dir"
  BY <1>1, <1>4, <1>6 DEF Writes
<1>8. CallAt(C, w2)
  <2>1. /\ w.size = 0 => w.start = 0
        /\ w.size > 0 => \E b \in [1..w.size -> C] : Whole(w.f, w.size, b, w.start, w.buf)
    BY <1>1, <1>4 DEF CallAt
  <2> QED BY <1>7, <2>1, Zenon DEF CallAt
<1>9. CallAt(C, wr)'
  BY <1>1, <1>6, <1>8, CallKeeps
<1>10. Around(C, wr', fat')
  BY <1>4, <1>5, <1>6, <1>7, Zenon DEF Around
<1>11. FatTypeOK'
  BY <1>1, <1>4, <1>5, <1>6, <1>7, WriteIs, TypeStep
<1>12. Outside(C) /\ cut' = cut \cup {w.f} /\ S[w.f] \subseteq C
  BY <1>1, <1>3, <1>4, <1>5 DEF Outside, Around
<1>13. wr' \in Writes /\ wr'.pc # "find" /\ wr'.f = w.f /\ wr.f = w.f
  BY <1>6, <1>7
<1> QED BY <1>4, <1>9, <1>10, <1>11, <1>12, <1>13, TouchedStep, Zenon

\* The clusters C are the file f of n clusters that begins at first.
IsFile(C, f, n, first) ==
    /\ Closed(C, fat) /\ \A e \in C : fat[e] # Free
    /\ first \in Entries => first \in C
    /\ n = 0 => C = {}
    /\ n > 0 => first \in Entries /\ \E b \in [1..n -> C] : Whole(f, n, b, first, fat)

\* The directory entry is written last: the file is the new chain.
LEMMA DirInv ==
    ASSUME FatTypeOK, NEW S \in [Files -> SUBSET Entries], FilesAt(S), write_directory,
           NEW w, w = wr
    PROVE  FatTypeOK' /\ \E S2 \in [Files -> SUBSET Entries] : FilesAt(S2)'
<1>1. PICK f, n : f = w.f /\ n = w.size
  BY Zenon
<1>2. /\ w.pc = "dir" /\ fat' = fat /\ clus' = clus /\ wr' = NoWrite /\ cut' = cut \ {f}
      /\ dir' = [dir EXCEPT ![f] = [start |-> w.start, size |-> n]]
      /\ good' = [good EXCEPT ![f] = n]
  BY <1>1, Zenon DEF write_directory
<1>3. w # NoWrite
  BY <1>2, SMTT(20) DEF NoWrite
<1>4. /\ w \in Writes /\ f \in Files /\ Apart(S) /\ Kept(S) /\ NoneLeft(S) /\ cut \subseteq Files
      /\ w.buf = fat /\ CallAt(S[f], w) /\ S[f] \in SUBSET Entries
      /\ \A h \in Files \ {f} : S[h] \cap S[f] = {}
  BY <1>1, <1>2, <1>3, TouchedIs, SMTT(20) DEF Around
<1>5. n \in 0..MaxSize /\ n \in Nat /\ w.start \in Entries \cup {0}
  BY <1>1, <1>4, WriteIs, SizeAssumption
<1>6. fat \in FatTables /\ dir \in [Files -> DirEntries] /\ DOMAIN good = Files
  BY Zenon DEF FatTypeOK
<1>7. /\ dir'[f].start = w.start /\ dir'[f].size = n /\ good'[f] = n
      /\ \A h \in Files \ {f} : dir'[h] = dir[h] /\ good'[h] = good[h]
      /\ dir' \in [Files -> DirEntries] /\ DOMAIN good' = Files
  <2>1. [start |-> w.start, size |-> n] \in DirEntries
    BY <1>5, Zenon DEF DirEntries
  <2> QED BY <1>2, <1>4, <1>6, <2>1
<1>8. FatTypeOK'
  BY <1>2, <1>4, <1>6, <1>7, Zenon DEF FatTypeOK
<1>9. /\ n = 0 => w.start = 0
      /\ n > 0 => \E b \in [1..n -> S[f]] : Whole(f, n, b, w.start, fat)
  BY <1>1, <1>2, <1>4, Zenon DEF CallAt
<1>10. \E C \in SUBSET S[f] : IsFile(C, f, n, w.start)
  <2>1. CASE n = 0
    <3>1. w.start \notin Entries
      BY <1>9, <2>1, Marks
    <3>2. Closed({}, fat) /\ ~(n > 0)
      BY <2>1 DEF Closed
    <3>3. IsFile({}, f, n, w.start)
      BY <3>1, <3>2, Zenon DEF IsFile
    <3> QED BY <3>3
  <2>2. CASE n # 0
    <3>1. n > 0 /\ n \in 1..n /\ 1 \in 1..n
      BY <1>5, <2>2
    <3>2. PICK b \in [1..n -> S[f]] : Whole(f, n, b, w.start, fat)
      BY <1>9, <3>1
    <3>3. PICK C : C = {b[i] : i \in 1..n}
      BY Zenon
    <3>4. C \in SUBSET S[f] /\ \A i \in 1..n : b[i] \in C /\ b[i] \in Entries
      BY <1>4, <3>2, <3>3, Zenon
    <3>5. b \in [1..n -> C]
      BY <3>2, <3>4
    <3>6. ASSUME NEW e \in C PROVE fat[e] # Free /\ (fat[e] \in Entries => fat[e] \in C)
      <4>1. PICK i \in 1..n : e = b[i]
        BY <3>3, Zenon
      <4>2. CASE i = n
        BY <3>2, <4>1, <4>2, Marks, Zenon DEF Whole
      <4>3. CASE i # n
        <5>1. i \in 1..(n - 1) /\ i + 1 \in 1..n
          BY <1>5, <4>3, SMTT(20)
        <5>2. fat[e] = b[i + 1]
          BY <3>2, <4>1, <5>1, Zenon DEF Whole
        <5> QED BY <3>4, <5>1, <5>2, Marks
      <4> QED BY <4>2, <4>3
    <3>7. w.start \in C /\ w.start \in Entries
      BY <3>1, <3>2, <3>4 DEF Whole
    <3> QED BY <2>2, <3>2, <3>4, <3>5, <3>6, <3>7, Zenon DEF Closed, IsFile
  <2> QED BY <2>1, <2>2
<1>10a. PICK C \in SUBSET S[f] : IsFile(C, f, n, w.start)
  BY <1>10, Zenon
<1>11. /\ Closed(C, fat) /\ \A e \in C : fat[e] # Free
       /\ w.start \in Entries => w.start \in C
       /\ n = 0 => C = {}
       /\ n > 0 => w.start \in Entries
  BY <1>10a, Zenon DEF IsFile
<1>11a. n > 0 => \E b \in [1..n -> C] : Whole(f, n, b, w.start, fat)
  BY <1>10a, Zenon DEF IsFile
<1> DEFINE S2 == [S EXCEPT ![f] = C]
<1>12. /\ S2 \in [Files -> SUBSET Entries] /\ S2[f] = C
       /\ \A h \in Files \ {f} : S2[h] = S[h]
       /\ \A g, h \in Files : g # h => S2[g] \cap S2[h] = {}
  <2>1. C \in SUBSET Entries /\ \A h \in Files \ {f} : S[h] \cap C = {}
    BY <1>4, <1>11, Zenon
  <2>2. \A g, h \in Files : g # h => S[g] \cap S[h] = {}
    BY <1>4, Zenon DEF Apart
  <2> QED BY <1>4, <2>1, <2>2, NewSets
<1> HIDE DEF S2
<1>13. Apart(S2)'
  <2>1. ASSUME NEW g \in Files
        PROVE  Closed(S2[g], fat') /\ (dir'[g].start \in Entries => dir'[g].start \in S2[g])
    <3>1. CASE g = f
      BY <1>2, <1>7, <1>11, <1>12, <3>1
    <3>2. CASE g # f
      <4>1. Closed(S[g], fat) /\ (dir[g].start \in Entries => dir[g].start \in S[g])
        BY <1>4, ZenonT(40) DEF Apart
      <4>2. dir'[g] = dir[g] /\ S2[g] = S[g]
        BY <1>7, <1>12, <3>2
      <4> QED BY <1>2, <4>1, <4>2, Zenon
    <3> QED BY <3>1, <3>2, ZenonT(40)
  <2> QED BY <1>12, <2>1, Zenon DEF Apart
<1>14. KeptFile(f, C)'
  <2>1. good'[f] # -1 /\ good'[f] \in Nat /\ dir'[f].size = good'[f]
    BY <1>5, <1>7, SMTT(20)
  <2>2. good'[f] = 0 => dir'[f].start = 0
    BY <1>7, <1>9
  <2>3. \A e \in C : fat'[e] # Free
    BY <1>2, <1>11, Zenon
  <2>4. good'[f] > 0 => (\E s \in [1..good[f] -> C] : Whole(f, good[f], s, dir[f].start, fat))'
    <3>1. \A s : Whole(f, n, s, w.start, fat) => Whole(f, n, s, w.start, fat)'
      BY <1>2, Zenon DEF Whole
    <3>2. n > 0 => \E s \in [1..n -> C] : Whole(f, n, s, w.start, fat)'
      BY <1>11a, <3>1, Zenon
    <3> QED BY <1>7, <3>2, Zenon
  <2> QED BY <2>1, <2>2, <2>3, <2>4, Zenon DEF KeptFile
<1>15. Kept(S2)'
  <2>1. ASSUME NEW g \in Files \ cut' PROVE KeptFile(g, S2[g])'
    <3>1. CASE g = f
      BY <1>12, <1>14, <3>1, Zenon
    <3>2. CASE g # f
      <4>1. g \notin cut /\ S2[g] = S[g] /\ dir'[g] = dir[g] /\ good'[g] = good[g] /\ KeptFile(g, S[g])
        BY <1>2, <1>4, <1>7, <1>12, <3>2 DEF Kept
      <4>2. KeptFile(g, S[g])'
        BY <1>2, <4>1, KeptFrame, Zenon
      <4> QED BY <4>1, <4>2, Zenon
    <3> QED BY <3>1, <3>2
  <2> QED BY <2>1 DEF Kept
<1>16. NoneLeft(S2)'
  <2>1. ASSUME NEW g \in Files, dir'[g].start \notin Entries PROVE S2[g] = {}
    <3>1. CASE g = f
      BY <1>5, <1>7, <1>11, <1>12, <2>1, <3>1
    <3>2. CASE g # f
      BY <1>1, <1>4, <1>7, <1>12, <2>1, <3>2, Zenon DEF NoneLeft
    <3> QED BY <3>1, <3>2, ZenonT(40)
  <2> QED BY <2>1, Zenon DEF NoneLeft
<1>17. FilesAt(S2)'
  BY <1>2, <1>13, <1>15, <1>16, Zenon DEF FilesAt, Writing
<1> QED BY <1>8, <1>12, <1>17

\* The call ends early: what it freed or wrote is its file's.
LEMMA EndsInv ==
    ASSUME FatTypeOK, NEW S \in [Files -> SUBSET Entries], FilesAt(S), NEW w, w = wr,
           w # NoWrite, w.pc # "find", wr' = NoWrite, dir' = dir, good' = good, cut' = cut,
           \A e \in Entries \ S[w.f] : fat'[e] = fat[e] /\ clus'[e] = clus[e],
           fat' \in FatTables, Closed(S[w.f], fat')
    PROVE  FatTypeOK' /\ \E S2 \in [Files -> SUBSET Entries] : FilesAt(S2)'
<1>1. PICK f : f = w.f
  OBVIOUS
<1>2. f \in Files /\ f \in cut /\ Apart(S) /\ Kept(S) /\ NoneLeft(S) /\ cut \subseteq Files
  BY <1>1, TouchedIs, Zenon
<1>3. Outside(S[f]) /\ wr.f = f /\ Closed(S[f], fat')
  BY <1>1, Zenon DEF Outside
<1>4. FatTypeOK'
  BY <1>2, TypeStep
<1> QED BY <1>2, <1>3, <1>4, CutStep, ZenonT(40)

\* disk_write refuses to leave the volume.
LEMMA RefusedInv ==
    ASSUME FatTypeOK, NEW S \in [Files -> SUBSET Entries], FilesAt(S), set_cluster_refused,
           NEW w, w = wr
    PROVE  FatTypeOK' /\ \E S2 \in [Files -> SUBSET Entries] : FilesAt(S2)'
<1>1. /\ w.pc \in {"part", "last"} /\ fat' = fat /\ dir' = dir /\ clus' = clus /\ good' = good
      /\ cut' = cut /\ wr' = NoWrite
  BY DEF set_cluster_refused, disk, ghost
<1>2. w # NoWrite /\ w.pc # "find"
  BY <1>1, SMTT(20) DEF NoWrite
<1>3. Closed(S[w.f], fat)
  BY <1>2, TouchedIs DEF Around
<1>4. fat \in FatTables
  BY Zenon DEF FatTypeOK
<1> QED BY <1>1, <1>2, <1>3, <1>4, EndsInv, Zenon

\* The power fails, or a write fails: some of the entries or clusters that
\* were to be written are.
LEMMA CutInv ==
    ASSUME FatTypeOK, NEW S \in [Files -> SUBSET Entries], FilesAt(S), write_cut,
           NEW w, w = wr
    PROVE  FatTypeOK' /\ \E S2 \in [Files -> SUBSET Entries] : FilesAt(S2)'
<1>1. /\ w # NoWrite /\ wr' = NoWrite /\ dir' = dir /\ good' = good /\ cut' = cut
      /\ fat \in FatTables
  BY Zenon DEF write_cut, ghost, FatTypeOK
<1>2. \/ fat' = fat /\ clus' = clus
      \/ /\ \E k \in 1..WinSize :
               fat' = [e \in Entries |-> IF e % WinSize < k THEN Flushed[e] ELSE fat[e]]
         /\ clus' = clus
      \/ w.pc \in {"part", "last"} /\ (\E k \in 1..Run : clus' = Filled(k)) /\ fat' = fat
  BY Zenon DEF write_cut
<1>3. CASE w.pc = "find"
  <2>1. /\ ~Touched /\ Apart(S) /\ Kept(S) /\ NoneLeft(S) /\ cut \subseteq Files /\ w.buf = fat
    BY <1>3, FindIs
  <2>2. Flushed = fat
    BY <2>1 DEF Flushed
  <2>3. fat = [e \in Entries |-> fat[e]]
    BY <1>1 DEF FatTables
  <2>4. fat' = fat /\ clus' = clus
    BY <1>2, <1>3, <2>2, <2>3, Zenon
  <2>5. FatTypeOK'
    BY <1>1, <2>1, <2>4, TypeStep, Zenon
  <2>6. FilesAt(S)'
    BY <1>1, <2>1, <2>4, UntouchedStep, Zenon
  <2> QED BY <2>5, <2>6
<1>4. CASE w.pc # "find"
  <2>1. PICK C \in SUBSET Entries : C = S[w.f]
    BY <1>1, <1>4, TouchedIs, Zenon
  <2>2. w \in Writes /\ Around(C, w, fat) /\ CallAt(C, w)
    BY <1>1, <1>4, <2>1, TouchedIs, Zenon
  <2>3. Flushed = w.buf /\ w.buf \in FatTables
    BY <2>2, FlushedIs, WriteIs, Zenon
  <2>4. ASSUME fat' \in FatTables, \A e \in Entries : fat'[e] = fat[e] \/ fat'[e] = w.buf[e],
               \A e \in Entries \ C : clus'[e] = clus[e]
        PROVE  FatTypeOK' /\ \E S2 \in [Files -> SUBSET Entries] : FilesAt(S2)'
    <3>1. Closed(C, fat) /\ Closed(C, w.buf) /\ \A e \in Entries \ C : w.buf[e] = fat[e]
      BY <2>2, Zenon DEF Around
    <3>2. Closed(C, fat')
      BY <2>4, <3>1, Zenon DEF Closed
    <3>3. \A e \in Entries \ C : fat'[e] = fat[e] /\ clus'[e] = clus[e]
      BY <2>4, <3>1, Zenon
    <3> QED BY <1>1, <1>4, <2>1, <2>4, <3>2, <3>3, EndsInv, Zenon
  <2>5. CASE fat' = fat /\ clus' = clus
    BY <1>1, <2>4, <2>5
  <2>6. CASE /\ \E k \in 1..WinSize :
                   fat' = [e \in Entries |-> IF e % WinSize < k THEN Flushed[e] ELSE fat[e]]
             /\ clus' = clus
    <3>1. PICK k \in 1..WinSize :
              fat' = [e \in Entries |-> IF e % WinSize < k THEN w.buf[e] ELSE fat[e]]
      BY <2>3, <2>6, Zenon
    <3>2. \A e \in Entries : fat'[e] = fat[e] \/ fat'[e] = w.buf[e]
      BY <3>1, Zenon
    <3>3. fat' \in FatTables
      <4>1. \A e \in Entries : fat[e] \in FatVals /\ w.buf[e] \in FatVals
        BY <1>1, <2>3, Zenon DEF FatTables
      <4> QED BY <3>1, <4>1, Zenon DEF FatTables
    <3> QED BY <2>4, <2>6, <3>2, <3>3, Zenon
  <2>7. CASE w.pc \in {"part", "last"} /\ (\E k \in 1..Run : clus' = Filled(k)) /\ fat' = fat
    <3>1. SearchAt(C, w) /\ \E b \in [1..(w.off + w.act) -> C] : Found(b, w)
      BY <2>2, <2>7, SearchIs, Zenon
    <3>2. Run = w.act
      BY <2>7, <3>1 DEF Run, SearchAt
    <3>3. PICK k \in 1..w.act : clus' = Filled(k)
      BY <2>7, <3>2
    <3>4. PICK b \in [1..(w.off + w.act) -> C] : Found(b, w)
      BY <3>1, Zenon
    <3>5. Writable(C, w, b, k)
      BY <2>2, <3>3, <3>4, Zenon DEF Writable
    <3>6. \A e \in Entries \ C : clus'[e] = clus[e]
      BY <3>3, <3>5, RunWritten DEF RunDone
    <3> QED BY <1>1, <2>4, <2>7, <3>6, Zenon
  <2> QED BY <1>2, <2>5, <2>6, <2>7, Zenon
<1> QED BY <1>3, <1>4

\* A write begins.
LEMMA StartInv ==
    ASSUME FatTypeOK, NEW S \in [Files -> SUBSET Entries], FilesAt(S),
           NEW g \in Files, NEW len \in 0..MaxSize, do_fat_write(g, len), crossed' = FALSE
    PROVE  FatTypeOK' /\ \E S2 \in [Files -> SUBSET Entries] : FilesAt(S2)'
<1>1. PICK start : start = IF dir[g] = NoFile THEN 0 ELSE dir[g].start
  OBVIOUS
<1>2. PICK q : q = IF start # 0 THEN "clear" ELSE IF len # 0 THEN "find" ELSE "flush"
  OBVIOUS
<1>3. /\ wr = NoWrite /\ fat' = fat /\ dir' = dir /\ clus' = clus /\ good' = good
      /\ wr' = [pc |-> q, f |-> g, size |-> len, left |-> len, off |-> 0,
                start |-> start, cur |-> start, end |-> start, act |-> 1, p |-> 3,
                win |-> -1, buf |-> fat]
      /\ IF q = "find" THEN UNCHANGED <<cut, crossed>> ELSE Touch(g)
  BY <1>1, <1>2, Zenon DEF do_fat_write, disk
<1>4. /\ fat \in FatTables /\ dir \in [Files -> DirEntries] /\ cut \subseteq Files
      /\ len \in Nat /\ ~Touched /\ Apart(S) /\ Kept(S) /\ NoneLeft(S)
  BY <1>3, SizeAssumption DEF FatTypeOK, Touched, FilesAt
<1>5. /\ start \in Entries \cup {0}
      /\ start # 0 => start = dir[g].start
      /\ start = 0 => dir[g].start \notin Entries
  <2>1. dir[g] = NoFile \/ dir[g].start \in Entries \cup {0}
    BY <1>4 DEF DirEntries
  <2> QED BY <1>1, <2>1, Marks, Zenon
<1>6. q \in {"clear", "find", "flush"}
  BY <1>2
<1>7. PICK w2 : w2 = wr'
  BY Zenon
<1>8. /\ w2 \in Writes /\ w2.pc = q /\ w2.f = g /\ w2.size = len /\ w2.left = len /\ w2.off = 0
      /\ w2.start = start /\ w2.cur = start /\ w2.end = start /\ w2.act = 1 /\ w2.win = -1
      /\ w2.buf = fat
  <2>1. w2 = [pc |-> q, f |-> g, size |-> len, left |-> len, off |-> 0, start |-> start,
              cur |-> start, end |-> start, act |-> 1, p |-> 3, win |-> -1, buf |-> fat]
    BY <1>3, <1>7, Zenon
  <2>2. g \in Files /\ len \in 0..MaxSize /\ len \in Nat /\ fat \in FatTables
    BY <1>4
  <2> QED BY ONLY <1>5, <1>6, <2>1, <2>2 DEF Writes
<1>9. CASE q = "find"
  <2>1. len > 0 /\ start = 0 /\ cut' = cut
    BY <1>2, <1>3, <1>4, <1>9, SMTT(20)
  <2>2. FatTypeOK'
    BY <1>3, <1>4, <1>7, <1>8, <2>1, TypeStep, Zenon
  <2>3. BufferAt(S, wr)' /\ wr'.pc = "find"
    BY <1>3, <1>5, <1>7, <1>8, <1>9, <2>1, Zenon DEF BufferAt
  <2>4. FilesAt(S)'
    BY <1>3, <1>4, <2>1, <2>3, UntouchedStep, Zenon
  <2> QED BY <2>2, <2>4
<1>10. CASE q # "find"
  <2>1. cut' = cut \cup {g} /\ \A h \in cut \ {g} : ~(dir[h].start > 0)
    BY <1>3, <1>10, Zenon DEF Touch
  <2>2. \A h \in cut \ {g} : S[h] = {}
    BY <1>4, <2>1, FreeIsNobodys
  <2>3. PICK C \in SUBSET Entries : C = S[g]
    OBVIOUS
  <2>4. Closed(C, fat) /\ (dir[g].start \in Entries => dir[g].start \in C)
        /\ \A h \in Files \ {g} : S[h] \cap C = {}
    BY <1>4, <2>3, Zenon DEF Apart
  <2>5. \/ q = "clear" /\ start \in C
        \/ q = "flush" /\ start = 0 /\ len = 0
    BY <1>2, <1>5, <1>10, <2>4
  <2>6. CallAt(C, w2)
    <3>1. CASE q = "clear" /\ start \in C
      <4>1. w2.pc = "clear" /\ w2.start \in C /\ w2.cur \in C /\ w2.end = w2.start
            /\ w2.left = w2.size /\ w2.off = 0 /\ w2.act = 1
        BY <1>8, <3>1, Zenon
      <4> QED BY ONLY <4>1, Zenon DEF CallAt
    <3>2. CASE q = "flush" /\ start = 0 /\ len = 0
      <4>1. w2.pc = "flush" /\ w2.start = 0 /\ w2.size = 0
        BY <1>8, <3>2, Zenon
      <4> QED BY ONLY <4>1 DEF CallAt
    <3> QED BY <2>5, <3>1, <3>2, Zenon
  <2>7. CallAt(C, wr)'
    BY <1>3, <1>7, <2>6, CallKeeps
  <2>8. Around(C, wr', fat')
    BY <1>3, <1>7, <1>8, <2>4, Zenon DEF Around
  <2>9. FatTypeOK'
    BY <1>3, <1>4, <1>7, <1>8, <2>1, TypeStep, Zenon
  <2>10. Outside(C) /\ S[g] \subseteq C
    BY <1>3, <2>3, Zenon DEF Outside
  <2>11. wr' \in Writes /\ wr'.pc # "find" /\ wr'.f = g
    BY <1>7, <1>8, <1>10, Zenon
  <2> QED BY <1>4, <2>1, <2>2, <2>4, <2>7, <2>8, <2>9, <2>10, <2>11, TouchedStep, Zenon
<1> QED BY <1>9, <1>10, Zenon

-----------------------------------------------------------------------------
(***************************************************************************)
(* The theorems.                                                           *)
(***************************************************************************)

\* A volume that was just formatted.
LEMMA FatInitInv ==
    ASSUME FatInit
    PROVE  FatInv
<1>1. /\ fat = [e \in Entries |-> Free] /\ dir = [g \in Files |-> NoFile] /\ wr = NoWrite
      /\ good = [g \in Files |-> -1] /\ cut = {} /\ crossed = FALSE
  BY DEF FatInit
<1>2. FatTypeOK
  BY <1>1 DEF FatTypeOK, FatTables, FatVals, DirEntries
<1>3. PICK S : S = [g \in Files |-> {}]
  BY Zenon
<1>4. S \in [Files -> SUBSET Entries] /\ \A g \in Files : S[g] = {}
  BY <1>3
<1>5. \A g \in Files : dir[g] = NoFile /\ dir[g].start \notin Entries /\ good[g] = -1
  BY <1>1, Marks
<1>6. Apart(S)
  BY <1>4, <1>5 DEF Apart, Closed
<1>7. Kept(S)
  BY <1>4, <1>5, Zenon DEF Kept, KeptFile
<1>8. NoneLeft(S) /\ Writing(S)
  BY <1>1, <1>4, Zenon DEF NoneLeft, Writing
<1> QED BY <1>1, <1>2, <1>4, <1>6, <1>7, <1>8, Zenon DEF FatInv, FilesAt

\* A step from a state in which nothing is crossed.
LEMMA FatStepInv ==
    ASSUME FatTypeOK, NEW S \in [Files -> SUBSET Entries], FilesAt(S), FatNext, crossed' = FALSE
    PROVE  FatTypeOK' /\ \E S2 \in [Files -> SUBSET Entries] : FilesAt(S2)'
<1>1. PICK w : w = wr
  BY Zenon
<1>2. CASE \E g \in Files, len \in 0..MaxSize : do_fat_write(g, len)
  BY <1>2, StartInv, Zenon
<1>3. CASE switch_window
  BY <1>1, <1>3, SwitchInv
<1>4. CASE clear_fatent
  BY <1>1, <1>4, ClearInv
<1>5. CASE clear_flush
  BY <1>1, <1>5, ClearFlushInv
<1>6. CASE find_empty_cluster
  BY <1>1, <1>6, FindInv, Zenon
<1>7. CASE determine_fatent
  BY <1>1, <1>7, ProbeInv
<1>8. CASE set_fatent_value
  BY <1>1, <1>8, LinkInv
<1>9. CASE set_cluster_part
  BY <1>1, <1>9, PartInv
<1>10. CASE set_cluster_last
  BY <1>1, <1>10, LastInv
<1>11. CASE set_cluster_refused
  BY <1>1, <1>11, RefusedInv
<1>12. CASE set_eof
  BY <1>1, <1>12, EofInv
<1>13. CASE flush_fat_buffer
  BY <1>1, <1>13, FlushInv
<1>14. CASE write_directory
  BY <1>1, <1>14, DirInv
<1>15. CASE write_cut
  BY <1>1, <1>15, CutInv
<1> QED BY <1>2, <1>3, <1>4, <1>5, <1>6, <1>7, <1>8, <1>9, <1>10, <1>11, <1>12, <1>13, <1>14,
           <1>15 DEF FatNext, FatStep

\* The ghost stays a Boolean, and set once it is set.
LEMMA CrossedStays ==
    ASSUME crossed \in BOOLEAN, FatNext
    PROVE  crossed' \in BOOLEAN /\ (crossed => crossed')
<1>1. CASE \E g \in Files, len \in 0..MaxSize : do_fat_write(g, len)
  BY <1>1, Zenon DEF do_fat_write, Touch
<1>2. CASE FatStep
  BY <1>2, Zenon DEF FatStep, Touch, ghost, switch_window, clear_fatent, clear_flush,
     find_empty_cluster, determine_fatent, set_fatent_value, set_cluster_part, set_cluster_last,
     set_cluster_refused, set_eof, flush_fat_buffer, write_directory
<1>3. CASE write_cut
  BY <1>3 DEF write_cut, ghost
<1> QED BY <1>1, <1>2, <1>3 DEF FatNext

\* Nothing happens.
LEMMA FatStutters ==
    ASSUME FatInv, UNCHANGED fat_vars
    PROVE  FatInv'
<1>1. /\ fat' = fat /\ dir' = dir /\ clus' = clus /\ wr' = wr /\ good' = good /\ cut' = cut
      /\ crossed' = crossed
  BY DEF fat_vars
<1>2. FatTypeOK => FatTypeOK'
  BY <1>1 DEF FatTypeOK
<1>3. ASSUME NEW S \in [Files -> SUBSET Entries], FilesAt(S) PROVE FilesAt(S)'
  <2>1. Apart(S)'
    BY <1>1, <1>3 DEF FilesAt, Apart
  <2>2. Kept(S)'
    <3>1. ASSUME NEW g \in Files \ cut' PROVE KeptFile(g, S[g])'
      BY <1>1, <1>3, KeptFrame, Zenon DEF FilesAt, Kept
    <3> QED BY <3>1 DEF Kept
  <2>3. NoneLeft(S)'
    BY <1>1, <1>3 DEF FilesAt, NoneLeft, Touched
  <2>4. Writing(S)'
    <3>1. PICK w : w = wr
      OBVIOUS
    <3>2. ASSUME w # NoWrite PROVE BufferAt(S, wr)' /\ CallAt(S[wr.f], wr)'
      <4>1. BufferAt(S, wr) /\ CallAt(S[w.f], w)
        BY <1>3, <3>1, <3>2 DEF FilesAt, Writing
      <4>2. BufferAt(S, wr)'
        BY <1>1, <4>1, Zenon DEF BufferAt
      <4>3. CallAt(S[w.f], wr)'
        BY <1>1, <3>1, <4>1, CallKeeps
      <4> QED BY <1>1, <3>1, <4>2, <4>3
    <3> QED BY <1>1, <3>1, <3>2 DEF Writing
  <2> QED BY <2>1, <2>2, <2>3, <2>4, Zenon DEF FilesAt
<1> QED BY <1>1, <1>2, <1>3, Zenon DEF FatInv

\* Every step of do_fat_write and every cut preserves the invariant.
LEMMA FatNextInv ==
    ASSUME FatInv, [FatNext]_fat_vars
    PROVE  FatInv'
<1>1. CASE FatNext
  <2>1. crossed' \in BOOLEAN /\ (crossed => crossed')
    BY <1>1, CrossedStays DEF FatInv
  <2>2. ASSUME crossed' = FALSE
        PROVE  FatTypeOK' /\ \E S2 \in [Files -> SUBSET Entries] : FilesAt(S2)'
    <3>1. PICK S \in [Files -> SUBSET Entries] : FatTypeOK /\ FilesAt(S)
      BY <2>1, <2>2 DEF FatInv
    <3> QED BY <1>1, <2>2, <3>1, FatStepInv, Zenon
  <2>3. crossed' = TRUE \/ crossed' = FALSE
    BY <2>1
  <2>4. CASE crossed' = TRUE
    BY <2>1, <2>4 DEF FatInv
  <2>5. CASE crossed' = FALSE
    BY <2>1, <2>2, <2>5, Zenon DEF FatInv
  <2> QED BY <2>3, <2>4, <2>5, Zenon
<1>2. CASE UNCHANGED fat_vars
  BY <1>2, FatStutters
<1> QED BY <1>1, <1>2

\* The inductive invariant holds on every volume, for every size of the FAT
\* window, whatever writes are cut (fs/fat/fat_write.c).
THEOREM FatInvariant == FatSpec => []FatInv
<1> QED BY FatInitInv, FatNextInv, PTL DEF FatSpec

\* A file whose last write succeeded is read back whole, whatever is being
\* written and wherever other writes were cut (do_fat_write), as long as no
\* file is written over clusters that a cut write had freed.
THEOREM FilesStayWhole == FatSpec => []FilesKept
<1>1. ASSUME FatInv PROVE FilesKept
  <2>1. ASSUME ~crossed, NEW g \in Files \ cut, good[g] # -1 PROVE Reads(g, good[g])
    <3>1. PICK S \in [Files -> SUBSET Entries] : FatTypeOK /\ FilesAt(S)
      BY <1>1, <2>1 DEF FatInv
    <3>2. KeptFile(g, S[g])
      BY <3>1, <2>1, Zenon DEF FilesAt, Kept
    <3>3. /\ dir[g].size = good[g]
          /\ good[g] > 0 => \E s \in [1..good[g] -> S[g]] :
                               Whole(g, good[g], s, dir[g].start, fat)
      BY <2>1, <3>2 DEF KeptFile
    <3>4. \A n : [1..n -> S[g]] \subseteq [1..n -> Entries]
      BY <2>1
    <3> QED BY <3>3, <3>4 DEF Reads
  <2> QED BY <2>1 DEF FilesKept
<1> QED BY <1>1, FatInvariant, PTL

\* The chains of two files never share a cluster, the chains included that a
\* cut write left behind, so that clear_fatent frees nothing of another file.
THEOREM ChainsStayApart == FatSpec => []ChainsApart
<1>1. ASSUME FatInv PROVE ChainsApart
  <2>1. ASSUME ~crossed, NEW g \in Files, NEW h \in Files, g # h PROVE Chain(g) \cap Chain(h) = {}
    <3>1. PICK S \in [Files -> SUBSET Entries] : FatTypeOK /\ FilesAt(S)
      BY <1>1, <2>1 DEF FatInv
    <3>2. \A x \in Files : Chain(x) \subseteq S[x]
      <4>1. ASSUME NEW x \in Files PROVE Chain(x) \subseteq S[x]
        <5>1. /\ S[x] \in SUBSET Entries /\ Closed(S[x], fat)
              /\ dir[x].start \in Entries => dir[x].start \in S[x]
          BY <3>1 DEF FilesAt, Apart
        <5> QED BY <5>1, Zenon DEF Chain
      <4> QED BY <4>1, Zenon
    <3>3. S[g] \cap S[h] = {}
      BY <2>1, <3>1 DEF FilesAt, Apart
    <3> QED BY <2>1, <3>2, <3>3
  <2> QED BY <2>1 DEF ChainsApart
<1> QED BY <1>1, FatInvariant, PTL

-----------------------------------------------------------------------------
(***************************************************************************)
(* The environment with a serial.                                          *)
(***************************************************************************)

Inc(f) == (f + 1) % 256

\* The inductive invariant.  The serials of two good copies are consecutive
\* (so the comparison with its one special case for 255 and 0 is enough); the
\* copy gd->env_valid names is the one a boot would choose; and env_flags is
\* its serial, or the next one once saveenv has increased it.
Coherent ==
    /\ copy[1].crc_ok /\ copy[2].crc_ok =>
         \/ copy[1].flags = Inc(copy[2].flags)
         \/ copy[2].flags = Inc(copy[1].flags)
    /\ pc # "off" => Selected(copy) = env_valid
    /\ pc = "idle" /\ ~NoneOk(copy) => env_flags = copy[env_valid].flags
    /\ pc = "write" /\ ~NoneOk(copy) => env_flags = Inc(copy[env_valid].flags)
    /\ pc = "write" => env_htab \in loadable
    /\ pc # "fallback"
    /\ LoadsLastSaved

IInv == TypeOK /\ Coherent

\* The increment of an unsigned char.
LEMMA IncValue ==
    ASSUME NEW f \in SERIALS
    PROVE  /\ Inc(f) \in SERIALS
           /\ Inc(f) = IF f = 255 THEN 0 ELSE f + 1
BY DEF Inc, SERIALS

\* env_relocate_spec picks the copy whose serial follows the other's, across
\* the wrap from 255 to 0.
LEMMA NewestFollows ==
    ASSUME NEW c \in [1..2 -> Copies],
           c[1].flags = Inc(c[2].flags) \/ c[2].flags = Inc(c[1].flags)
    PROVE  /\ c[2].flags = Inc(c[1].flags) => Newest(c) = 2
           /\ c[1].flags = Inc(c[2].flags) => Newest(c) = 1
<1>1. c[1].flags \in SERIALS /\ c[2].flags \in SERIALS
  BY DEF Copies
<1>2. /\ Inc(c[1].flags) = IF c[1].flags = 255 THEN 0 ELSE c[1].flags + 1
      /\ Inc(c[2].flags) = IF c[2].flags = 255 THEN 0 ELSE c[2].flags + 1
  BY <1>1, IncValue
<1>3. CASE c[2].flags = Inc(c[1].flags)
  <2>1. Newest(c) = 2 /\ c[1].flags # Inc(c[2].flags)
    BY <1>1, <1>2, <1>3 DEF Newest, SERIALS
  <2>2. QED
    BY <2>1
<1>4. CASE c[1].flags = Inc(c[2].flags)
  <2>1. Newest(c) = 1 /\ c[2].flags # Inc(c[1].flags)
    BY <1>1, <1>2, <1>4 DEF Newest, SERIALS
  <2>2. QED
    BY <2>1
<1>5. QED
  BY <1>3, <1>4, Zenon

\* An erased or half-written copy is a copy.
LEMMA BadCopyType == BadCopy \in Copies
BY DefaultEnvAssumption DEF BadCopy, Copies, SERIALS

------------------------------------------------------------------------------
\* A new board satisfies the invariant.
LEMMA InitInv == Init => IInv
<1>1. SUFFICES ASSUME Init PROVE IInv
  OBVIOUS
<1>2. copy[1] = BadCopy /\ copy[2] = BadCopy
  BY <1>1 DEF Init
<1>3. TypeOK
  BY <1>1, BadCopyType, DefaultEnvAssumption DEF Init, TypeOK, SERIALS
<1>4. Coherent
  BY <1>1, <1>2 DEF Init, Coherent, LoadsLastSaved, Loaded, NoneOk, BadCopy
<1>5. QED
  BY <1>3, <1>4 DEF IInv

\* env_valid after env_relocate_spec names a good copy whenever there is one.
LEMMA SelectedGood ==
    ASSUME NEW c \in [1..2 -> Copies]
    PROVE  /\ Selected(c) \in 1..2
           /\ ~NoneOk(c) => c[Selected(c)].crc_ok
BY DEF Selected, Newest, NoneOk, Copies

\* Boot with both copies readable.
LEMMA BootInv == IInv /\ boot({}) => IInv'
<1>1. SUFFICES ASSUME IInv, boot({}) PROVE IInv'
  OBVIOUS
<1> DEFINE seen == [i \in 1..2 |-> IF i \in {} THEN BadCopy ELSE copy[i]]
<1>2. copy \in [1..2 -> Copies]
  BY <1>1 DEF IInv, TypeOK
<1>3. seen = copy
  BY <1>2
<1>4. /\ pc' = "idle"
      /\ env_valid' = Selected(copy)
      /\ env_flags' = IF NoneOk(copy) THEN 0 ELSE copy[Selected(copy)].flags
      /\ env_htab' = Loaded(copy)
      /\ loadable' = {env_htab'}
      /\ copy' = copy
  BY <1>1, <1>3 DEF boot
<1>5. Selected(copy) \in 1..2
  BY <1>2, SelectedGood
<1>6. copy[Selected(copy)] \in Copies
  BY <1>2, <1>5
<1>7. TypeOK'
  <2>1. Loaded(copy) \in Envs
    BY <1>6, DefaultEnvAssumption, Zenon DEF Loaded, Copies
  <2>2. (IF NoneOk(copy) THEN 0 ELSE copy[Selected(copy)].flags) \in SERIALS
    BY <1>6, SMTT(20) DEF Copies, SERIALS
  <2>3. QED
    BY <1>2, <1>4, <1>5, <2>1, <2>2 DEF TypeOK
<1>8. Coherent'
  BY <1>1, <1>4, Zenon DEF IInv, Coherent, LoadsLastSaved, Selected, Newest, NoneOk, Loaded
<1>9. QED
  BY <1>7, <1>8 DEF IInv

\* In saveenv the copy in use is good whenever any copy is.
LEMMA InUseGood ==
    ASSUME IInv, pc # "off"
    PROVE  ~NoneOk(copy) => copy[env_valid].crc_ok
BY SelectedGood DEF IInv, TypeOK, Coherent

\* The copy being written loses its CRC; the copy in use is the other one.
LEMMA BlockWriteInv ==
    IInv /\ block_write => IInv' /\ NoneOk(copy') = NoneOk(copy)
<1>1. SUFFICES ASSUME IInv, block_write PROVE IInv' /\ NoneOk(copy') = NoneOk(copy)
  OBVIOUS
<1> USE DEF IInv, block_write
<1>2. /\ copy \in [1..2 -> Copies]
      /\ env_valid \in 1..2
      /\ Target \in 1..2 /\ Target # env_valid
  BY <1>1 DEF TypeOK, Target
<1>3. /\ copy'[Target] = BadCopy
      /\ copy'[env_valid] = copy[env_valid]
      /\ ~copy'[Target].crc_ok
  BY <1>1, <1>2 DEF BadCopy
<1>4. TypeOK'
  BY <1>1, <1>2, BadCopyType DEF TypeOK
<1>5. NoneOk(copy') = NoneOk(copy)
  BY <1>1, <1>2, <1>3, InUseGood DEF NoneOk, Target
<1>6. Selected(copy) = env_valid /\ Selected(copy') = env_valid
  <2>1. CASE NoneOk(copy)
    BY <1>1, <1>5, <2>1 DEF Coherent, NoneOk, Selected
  <2>2. CASE ~NoneOk(copy)
    <3>1. copy'[env_valid].crc_ok
      BY <1>1, <1>3, <2>2, InUseGood
    <3>2. QED
      BY <1>1, <1>2, <1>3, <3>1 DEF Coherent, Selected, Target
  <2>3. QED
    BY <2>1, <2>2
<1>7. Loaded(copy') = Loaded(copy)
  BY <1>3, <1>5, <1>6 DEF Loaded
<1>8. Coherent'
  BY <1>1, <1>2, <1>3, <1>5, <1>6, <1>7 DEF Coherent, LoadsLastSaved, Target
<1>9. QED
  BY <1>4, <1>5, <1>8

\* The new copy is complete: its serial follows the one of the copy that was
\* in use, so a boot chooses it.
LEMMA WriteDoneInv ==
    IInv /\ write_done => IInv' /\ Loaded(copy') = env_htab /\ ~NoneOk(copy')
<1>1. SUFFICES ASSUME IInv, write_done
               PROVE  IInv' /\ Loaded(copy') = env_htab /\ ~NoneOk(copy')
  OBVIOUS
<1> USE DEF IInv, write_done
<1>2. /\ copy \in [1..2 -> Copies]
      /\ env_valid \in 1..2
      /\ Target \in 1..2 /\ Target # env_valid
      /\ env_valid' = Target
  BY <1>1 DEF TypeOK, Target
<1>3. /\ Written \in Copies
      /\ Written.crc_ok /\ Written.flags = env_flags /\ Written.data = env_htab
  BY <1>1 DEF TypeOK, Written, Copies
<1>4. /\ copy'[Target] = Written
      /\ copy'[env_valid] = copy[env_valid]
      /\ copy' \in [1..2 -> Copies]
  BY <1>1, <1>2, <1>3
<1>5. TypeOK'
  BY <1>1, <1>2, <1>4 DEF TypeOK
<1>6. ~NoneOk(copy')
  BY <1>2, <1>3, <1>4 DEF NoneOk
<1>7. /\ copy'[env_valid].crc_ok => copy'[Target].flags = Inc(copy'[env_valid].flags)
      /\ Selected(copy') = Target
  <2>1. CASE copy[env_valid].crc_ok
    <3>1. ~NoneOk(copy)
      BY <1>2, <2>1 DEF NoneOk
    <3>2. copy'[Target].flags = Inc(copy'[env_valid].flags)
      BY <1>1, <1>3, <1>4, <3>1 DEF Coherent
    <3>3. Newest(copy') = Target
      BY <1>2, <1>4, <3>2, NewestFollows
    <3>4. QED
      BY <1>2, <1>3, <1>4, <2>1, <3>2, <3>3 DEF Selected
  <2>2. CASE ~copy[env_valid].crc_ok
    BY <1>2, <1>3, <1>4, <2>2 DEF Selected
  <2>3. QED
    BY <2>1, <2>2
<1>8. Loaded(copy') = env_htab
  BY <1>3, <1>4, <1>6, <1>7 DEF Loaded
<1>9. Coherent'
  BY <1>1, <1>2, <1>3, <1>4, <1>6, <1>7, <1>8 DEF Coherent, LoadsLastSaved
<1>10. QED
  BY <1>5, <1>6, <1>8, <1>9

\* The steps that leave the medium alone.
LEMMA RamStepsInv == IInv /\ (setenv \/ saveenv \/ power_fail) => IInv'
<1>1. SUFFICES ASSUME IInv, setenv \/ saveenv \/ power_fail PROVE IInv'
  OBVIOUS
<1>2. copy' = copy
  BY <1>1 DEF setenv, saveenv, power_fail
<1>3. NoneOk(copy') = NoneOk(copy) /\ Loaded(copy') = Loaded(copy)
      /\ Selected(copy') = Selected(copy)
  BY <1>2, SMTT(20)
<1>4. CASE setenv
  BY <1>1, <1>2, <1>3, <1>4 DEF IInv, TypeOK, Coherent, LoadsLastSaved, setenv
<1>5. CASE saveenv
  <2>1. env_flags' = Inc(env_flags) /\ env_flags' \in SERIALS
    BY <1>1, <1>5, IncValue DEF IInv, TypeOK, saveenv, Inc
  <2>2. TypeOK'
    BY <1>1, <1>5, <2>1 DEF IInv, TypeOK, saveenv
  <2>3. Coherent'
    BY <1>1, <1>2, <1>3, <1>5, <2>1 DEF IInv, Coherent, LoadsLastSaved, saveenv
  <2>4. QED
    BY <2>2, <2>3 DEF IInv
<1>6. CASE power_fail
  BY <1>1, <1>2, <1>3, <1>6, DefaultEnvAssumption
     DEF IInv, TypeOK, Coherent, LoadsLastSaved, power_fail, SERIALS
<1>7. QED
  BY <1>1, <1>4, <1>5, <1>6

\* Every step of boot, console, saveenv and power failure keeps the invariant.
LEMMA NextInv == IInv /\ [Next]_vars => IInv'
<1>1. SUFFICES ASSUME IInv, [Next]_vars PROVE IInv'
  OBVIOUS
<1>2. CASE Next
  BY <1>1, <1>2, BootInv, BlockWriteInv, WriteDoneInv, RamStepsInv, SMTT(20) DEF Next
<1>3. CASE UNCHANGED vars
  BY <1>1, <1>3 DEF vars, IInv, TypeOK, Coherent, LoadsLastSaved, Loaded, Selected,
                    Newest, NoneOk
<1>4. QED
  BY <1>1, <1>2, <1>3

\* The inductive invariant holds in every state of the redundant environment.
LEMMA SpecInv == Spec => []IInv
BY InitInv, NextInv, PTL DEF Spec

\* The state of env_mmc.c keeps its type: in particular the serial stays a byte
\* and gd->env_valid names one of the two copies.
THEOREM TypeCorrect == Spec => []TypeOK
BY SpecInv, PTL DEF IInv

\* At every moment at which power can fail, env_relocate_spec would load the
\* last environment saved, or the one saveenv is writing.
THEOREM LastSavedIsLoaded == Spec => []LoadsLastSaved
<1>1. IInv => LoadsLastSaved
  BY DEF IInv, Coherent
<1>2. QED
  BY <1>1, SpecInv, PTL

\* Once there is a copy with a good CRC there is always one: saveenv never
\* writes over the copy in use.
THEOREM BackupAlwaysKept == Spec => BackupKept
<1>1. IInv /\ [Next]_vars => [~NoneOk(copy) => ~NoneOk(copy')]_vars
  <2>1. SUFFICES ASSUME IInv, Next PROVE ~NoneOk(copy) => ~NoneOk(copy')
    BY DEF vars
  <2>2. CASE copy' = copy
    BY <2>2
  <2>3. CASE block_write
    BY <2>1, <2>3, BlockWriteInv
  <2>4. CASE write_done
    BY <2>1, <2>4, WriteDoneInv
  <2>5. QED
    BY <2>1, <2>2, <2>3, <2>4 DEF Next, boot, setenv, saveenv, power_fail
<1>2. QED
  BY <1>1, SpecInv, PTL DEF Spec, BackupKept

\* A saveenv that reports success is what the next boot loads.
THEOREM SavedStays == Spec => SaveSticks
<1>1. IInv /\ [Next]_vars => [write_done => Loaded(copy') = env_htab]_vars
  BY WriteDoneInv
<1>2. QED
  BY <1>1, SpecInv, PTL DEF Spec, SaveSticks

\* The two copies and the serial of env_mmc.c implement the abstract store.
THEOREM ImplementsStore == Spec => StoreSpec
<1>1. Init => Store!Init
  BY DEF Init, Store!Init, status
<1>2. ASSUME IInv, [Next]_vars PROVE [Store!Next]_(Store!vars)
  <2>1. CASE boot({})
    <3>1. /\ env_htab' = Loaded(copy) /\ loadable' = {env_htab'}
          /\ pc = "off" /\ pc' = "idle"
      <4>1. copy = [i \in 1..2 |-> IF i \in {} THEN BadCopy ELSE copy[i]]
        BY <1>2 DEF IInv, TypeOK
      <4>2. QED
        BY <2>1, <4>1 DEF boot
    <3>2. env_htab' \in loadable
      BY <1>2, <3>1 DEF IInv, Coherent, LoadsLastSaved
    <3>3. QED
      BY <3>1, <3>2 DEF Store!Next, Store!Boot, status
  <2>2. CASE setenv
    BY <2>2 DEF setenv, Store!Next, Store!SetEnv, status
  <2>3. CASE saveenv
    BY <2>3 DEF saveenv, Store!Next, Store!SaveBegin, status
  <2>4. CASE block_write
    BY <2>4 DEF block_write, Store!vars, status
  <2>5. CASE write_done
    BY <2>5 DEF write_done, Store!Next, Store!SaveSucceeds, status
  <2>6. CASE power_fail
    BY <1>2, <2>6 DEF power_fail, Store!Next, Store!PowerFail, status, IInv, TypeOK
  <2>7. CASE UNCHANGED vars
    BY <2>7 DEF vars, Store!vars, status
  <2>8. QED
    BY <1>2, <2>1, <2>2, <2>3, <2>4, <2>5, <2>6, <2>7 DEF Next
<1>3. QED
  BY <1>1, <1>2, SpecInv, PTL DEF Spec, StoreSpec, Store!Spec
=============================================================================
