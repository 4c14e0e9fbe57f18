------------------------------ MODULE FatWrite ------------------------------
(***************************************************************************)
(* Writing a file on a FAT volume (fs/fat/fat_write.c), the way saveenv    *)
(* keeps the environment in a file (common/env_fat.c) and "fatwrite"       *)
(* writes any other, with power failing or the device reporting an error   *)
(* at any write.                                                           *)
(*                                                                         *)
(* The FAT is cached a window at a time (fatbuf); a window is written back *)
(* before another one is read.  A file that exists keeps its first         *)
(* cluster: its chain is freed and flushed, then clusters are taken from   *)
(* the first cluster upwards, the data written as runs of consecutive      *)
(* clusters are found, the FAT flushed, and the directory entry written    *)
(* last.                                                                   *)
(*                                                                         *)
(* Sizes are counted in clusters; a cluster holds which file, which size   *)
(* and which part of it was written there.  The directory is one cluster   *)
(* that is large enough for the files of the model.  The second copy of    *)
(* the FAT is written after the first and never read by this code; it is   *)
(* left out.                                                               *)
(***************************************************************************)
EXTENDS Integers

CONSTANTS
    Files,       \* the names of files
    Last,        \* the last cluster of the volume; the first one is 3
    PartStart,   \* cur_part_info.start, in clusters
    WinSize,     \* entries of the FAT in one fatbuf
    MaxSize      \* bound: the largest file

Eof == -1
Free == 0
NoFile == [start |-> -1, size |-> -1]

\* Bound: the entries of the FAT looked at.  The ones after the end of the
\* volume are there too: the last sector of the table has room for them.
Entries == 3..(Last + MaxSize)

Win(e) == e \div WinSize

ASSUME SizeAssumption ==
    /\ Last \in Nat /\ Last >= 3 /\ MaxSize \in Nat /\ MaxSize >= 1
    /\ PartStart \in Nat /\ WinSize \in Nat /\ WinSize >= 1

VARIABLES
    fat,      \* on the device: the FAT
    dir,      \* on the device: the directory
    clus,     \* on the device: what each cluster holds
    wr,       \* the call of do_fat_write: its locals and the FAT buffer
    good,     \* ghost: the size the last write of each file that
              \* succeeded wrote, -1 when none did
    cut,      \* ghost: the files whose last write did not succeed
    crossed   \* ghost: a file was written while an entry of the directory
              \* still named clusters that a cut write had freed

disk == <<fat, dir, clus>>
ghost == <<good, cut, crossed>>
fat_vars == <<fat, dir, clus, wr, good, cut, crossed>>

(***************************************************************************)
(* wr.pc is where the call is; wr.f and wr.size what is to be              *)
(* written; wr.left is filesize, what remains of it, and wr.off what is    *)
(* written; wr.start, wr.cur, wr.end and wr.act are start_cluster,         *)
(* curclust, endclust and actsize; wr.p is next_entry of determine_fatent  *)
(* or entry of find_empty_cluster.  wr.win is mydata->fatbufnum, -1 when   *)
(* nothing was read yet, and wr.buf the FAT with the window in             *)
(* mydata->fatbuf for the device's.                                        *)
(***************************************************************************)
NoWrite == [pc |-> "idle"]

-----------------------------------------------------------------------------
(***************************************************************************)
(* The FAT buffer.                                                         *)
(***************************************************************************)

NeedsFat == wr.pc \in {"clear", "find", "probe", "link", "eof"}

\* The entry the next get_fatent_value or set_fatent_value is for.
Wanted ==
    IF wr.pc = "clear" THEN wr.cur
    ELSE IF wr.pc \in {"find", "probe"} THEN wr.p
    ELSE wr.end

\* The FAT once the buffer is written, if there is anything in it.
Flushed == IF wr.win = -1 THEN fat ELSE wr.buf

\* Mutant: the window is replaced without being written back.
SwitchForgets ==
    /\ NeedsFat /\ Win(Wanted) # wr.win
    /\ wr' = [wr EXCEPT !.buf = fat, !.win = Win(Wanted)]
    /\ UNCHANGED <<disk, ghost>>

\* Another window is needed: write back the one in the buffer, read it.
switch_window ==
    /\ NeedsFat /\ Win(Wanted) # wr.win
    /\ fat' = Flushed
    /\ wr' = [wr EXCEPT !.buf = Flushed, !.win = Win(Wanted)]
    /\ UNCHANGED <<dir, clus, ghost>>

Ready(pc) == wr.pc = pc /\ Win(Wanted) = wr.win

-----------------------------------------------------------------------------
(***************************************************************************)
(* do_fat_write.                                                           *)
(***************************************************************************)

\* check_overflow: from the first cluster on, as if the file were contiguous.
check_overflow(first, len) == first + len > Last + 1 + PartStart

\* The loop of set_contents: look for one more cluster, or write the rest.
set_contents(act, left) == IF act < left THEN "probe" ELSE "last"

\* From here on the file's old contents may be gone.
Touch(g) ==
    /\ cut' = cut \cup {g}
    /\ crossed' = (crossed \/ \E h \in cut \ {g} : dir[h].start > 0)

\* The file is found in the directory, or not; the cases before set_contents.
\* When a file that has clusters would overflow, it returns -1 at once.
do_fat_write(g, len) ==
    /\ wr = NoWrite
    /\ LET start == IF dir[g] = NoFile THEN 0 ELSE dir[g].start
           pc == IF start # 0 THEN "clear" ELSE IF len # 0 THEN "find" ELSE "flush"
       IN /\ ~(start # 0 /\ len # 0 /\ check_overflow(start, len))
          /\ wr' = [pc |-> pc, f |-> g, size |-> len, left |-> len, off |-> 0,
                    start |-> start, cur |-> start, end |-> start, act |-> 1, p |-> 3,
                    win |-> -1, buf |-> fat]
          /\ IF pc = "find" THEN UNCHANGED <<cut, crossed>> ELSE Touch(g)
    /\ UNCHANGED <<disk, good>>

\* clear_fatent: free the chain entry by entry, ...
clear_fatent ==
    /\ Ready("clear")
    /\ LET next == wr.buf[wr.cur]
           more == next \in Entries
       IN wr' = [wr EXCEPT !.buf[wr.cur] = Free, !.cur = IF more THEN next ELSE wr.start,
                           !.pc = IF more THEN "clear" ELSE "clear_flush"]
    /\ UNCHANGED <<disk, ghost>>

\* Mutant: a file truncated to nothing keeps its first cluster.
ClearKeepsStart ==
    /\ wr.pc = "clear_flush"
    /\ fat' = Flushed
    /\ wr' = [wr EXCEPT !.p = wr.start + 1,
                        !.pc = IF wr.size = 0 THEN "flush" ELSE set_contents(1, wr.left)]
    /\ UNCHANGED <<dir, clus, ghost>>

\* ... then flush; a file truncated to nothing loses its first cluster.
clear_flush ==
    /\ wr.pc = "clear_flush"
    /\ fat' = Flushed
    /\ wr' = [wr EXCEPT !.start = IF wr.size = 0 THEN 0 ELSE @, !.p = wr.start + 1,
                        !.pc = IF wr.size = 0 THEN "flush" ELSE set_contents(1, wr.left)]
    /\ UNCHANGED <<dir, clus, ghost>>

\* find_empty_cluster, and the check that follows it.
find_empty_cluster ==
    /\ Ready("find") /\ wr.p \in Entries
    /\ \/ /\ wr.buf[wr.p] # Free
          /\ wr' = [wr EXCEPT !.p = @ + 1]
          /\ UNCHANGED <<cut, crossed>>
       \/ /\ wr.buf[wr.p] = Free /\ check_overflow(wr.p, wr.left)
          /\ wr' = NoWrite
          /\ UNCHANGED <<cut, crossed>>
       \/ /\ wr.buf[wr.p] = Free /\ ~check_overflow(wr.p, wr.left)
          /\ wr' = [wr EXCEPT !.start = wr.p, !.cur = wr.p, !.end = wr.p, !.p = @ + 1,
                              !.pc = set_contents(1, wr.left)]
          /\ Touch(wr.f)
    /\ UNCHANGED <<disk, good>>

\* determine_fatent: the next cluster that is free, ...
determine_fatent ==
    /\ Ready("probe") /\ wr.p \in Entries
    /\ wr' = IF wr.buf[wr.p] = Free THEN [wr EXCEPT !.pc = "link"] ELSE [wr EXCEPT !.p = @ + 1]
    /\ UNCHANGED <<disk, ghost>>

\* ... becomes the successor of the last one; a run of clusters goes on or ends.
set_fatent_value ==
    /\ Ready("link")
    /\ wr' = IF wr.p = wr.end + 1
             THEN [wr EXCEPT !.buf[wr.end] = wr.p, !.end = wr.p, !.p = @ + 1, !.act = @ + 1,
                             !.pc = set_contents(wr.act + 1, wr.left)]
             ELSE [wr EXCEPT !.buf[wr.end] = wr.p, !.pc = "part"]
    /\ UNCHANGED <<disk, ghost>>

\* The clusters the next set_cluster writes, and what they hold after the
\* first k of them are written.  disk_write refuses to leave the volume.
Run == IF wr.pc = "part" THEN wr.act ELSE wr.left
InVolume == wr.cur + Run <= Last + 1
Filled(k) ==
    [c \in Entries |-> IF c \in wr.cur..(wr.cur + k - 1)
                       THEN <<wr.f, wr.size, wr.off + c - wr.cur>> ELSE clus[c]]

\* The run is written and the next one begins.
set_cluster_part ==
    /\ wr.pc = "part" /\ InVolume
    /\ clus' = Filled(wr.act)
    /\ wr' = [wr EXCEPT !.left = @ - wr.act, !.off = @ + wr.act, !.cur = wr.p, !.end = wr.p,
                        !.p = @ + 1, !.act = 1, !.pc = set_contents(1, wr.left - wr.act)]
    /\ UNCHANGED <<fat, dir, ghost>>

set_cluster_last ==
    /\ wr.pc = "last" /\ InVolume
    /\ clus' = Filled(wr.left)
    /\ wr' = [wr EXCEPT !.pc = "eof"]
    /\ UNCHANGED <<fat, dir, ghost>>

\* The write that would leave the volume fails, and do_fat_write with it.
set_cluster_refused ==
    /\ wr.pc \in {"part", "last"} /\ ~InVolume
    /\ wr' = NoWrite
    /\ UNCHANGED <<disk, ghost>>

set_eof ==
    /\ Ready("eof")
    /\ wr' = [wr EXCEPT !.buf[wr.end] = Eof, !.pc = "flush"]
    /\ UNCHANGED <<disk, ghost>>

\* The last flush of the FAT.  For a file that has and gets no cluster no
\* window was read: the buffer goes to sectors that precede the FAT.
flush_fat_buffer ==
    /\ wr.pc = "flush"
    /\ fat' = Flushed
    /\ wr' = [wr EXCEPT !.pc = "dir"]
    /\ UNCHANGED <<dir, clus, ghost>>

write_directory ==
    /\ wr.pc = "dir"
    /\ dir' = [dir EXCEPT ![wr.f] = [start |-> wr.start, size |-> wr.size]]
    /\ good' = [good EXCEPT ![wr.f] = wr.size]
    /\ cut' = cut \ {wr.f}
    /\ wr' = NoWrite
    /\ UNCHANGED <<fat, clus, crossed>>

(***************************************************************************)
(* The power fails, or a write fails and do_fat_write returns -1 (the      *)
(* device alone is left in both cases), when the first k entries of the    *)
(* window or the first k clusters of the run were written.  At             *)
(* switch_window this is the power failing only: its callers take a failed *)
(* write-back for the value of an entry, which is left out.                *)
(***************************************************************************)
Flushing == \/ wr.pc \in {"clear_flush", "flush"}
            \/ NeedsFat /\ Win(Wanted) # wr.win

write_cut ==
    /\ wr # NoWrite
    /\ wr' = NoWrite
    /\ \/ UNCHANGED <<fat, clus>>
       \/ /\ Flushing
          /\ \E k \in 1..WinSize :
                fat' = [e \in Entries |-> IF e % WinSize < k THEN Flushed[e] ELSE fat[e]]
          /\ UNCHANGED clus
       \/ /\ wr.pc \in {"part", "last"} /\ InVolume
          /\ \E k \in 1..Run : clus' = Filled(k)
          /\ UNCHANGED fat
    /\ UNCHANGED <<dir, ghost>>

-----------------------------------------------------------------------------
FatInit ==
    /\ fat = [e \in Entries |-> Free]
    /\ dir = [g \in Files |-> NoFile]
    /\ clus = [e \in Entries |-> <<>>]
    /\ wr = NoWrite
    /\ good = [g \in Files |-> -1] /\ cut = {} /\ crossed = FALSE

FatStep ==
    \/ switch_window \/ clear_fatent \/ clear_flush \/ find_empty_cluster
    \/ determine_fatent \/ set_fatent_value
    \/ set_cluster_part \/ set_cluster_last \/ set_cluster_refused
    \/ set_eof \/ flush_fat_buffer \/ write_directory

FatNext ==
    \/ \E g \in Files, len \in 0..MaxSize : do_fat_write(g, len)
    \/ FatStep
    \/ write_cut

FatSpec == FatInit /\ [][FatNext]_fat_vars

\* Bound of the runs: nothing is promised once crossed, nothing is looked at.
Promised == ~crossed

-----------------------------------------------------------------------------
(***************************************************************************)
(* Properties.                                                             *)
(***************************************************************************)

\* C holds with each cluster the one that the table t chains to it.
Closed(C, t) == \A e \in C : t[e] \in Entries => t[e] \in C

\* The clusters of a file: its first one and what the FAT on the device
\* chains to it (file_fat_read follows them).
Chain(g) ==
    {e \in Entries : \A C \in SUBSET Entries :
        Closed(C, fat) /\ (dir[g].start \in Entries => dir[g].start \in C) => e \in C}

\* The file g of n clusters is in s, chained by the table t from first to the end.
Whole(g, n, s, first, t) ==
    /\ s[1] = first
    /\ \A i \in 1..(n - 1) : t[s[i]] = s[i + 1]
    /\ t[s[n]] = Eof
    /\ \A i \in 1..n : clus[s[i]] = <<g, n, i - 1>>

\* Reading the file yields what a write of len clusters left.
Reads(g, len) ==
    /\ dir[g].size = len
    /\ len > 0 => \E s \in [1..len -> Entries] : Whole(g, len, s, dir[g].start, fat)

\* A file whose last write succeeded is read back whole, whatever is being
\* written, and wherever a write of the file itself before, or of another
\* file since, was cut (fs/fat/fat_write.c, set_contents and what follows it);
\* unless another file was written over the clusters a cut write had freed.
FilesKept ==
    ~crossed => \A g \in Files \ cut : good[g] # -1 => Reads(g, good[g])

\* No cluster is in the chains of two files, those included that a cut write
\* left, so that rewriting one file (clear_fatent) never frees another's.
ChainsApart ==
    ~crossed => \A g, h \in Files : g # h => Chain(g) \cap Chain(h) = {}

\* "Check whether adding a file makes the file system to exceed the size of
\* the block device" (check_overflow, before the old chain is freed): what
\* the check lets through is not refused later for leaving the volume.
SpaceChecked == wr.pc \in {"part", "last"} => InVolume
=============================================================================
