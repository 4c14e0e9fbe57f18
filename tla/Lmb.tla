-------------------------------- MODULE Lmb ---------------------------------
(***************************************************************************)
(* Logical memory blocks (lib/lmb.c): what bootm uses to keep the kernel,  *)
(* the ramdisk, the device tree and U-Boot itself apart in memory.         *)
(*                                                                         *)
(* Memory is one region, as boot_start_lmb adds it.  The reserved regions  *)
(* are a table sorted by base; neighbours that touch are merged, and a     *)
(* region is split where a part of it is freed.  Addresses are words of    *)
(* Width bits, and sums of them wrap.                                      *)
(*                                                                         *)
(* The table of reserved regions is never empty: U-Boot's own region, the  *)
(* first to be reserved (arch_lmb_reserve), is never freed.                *)
(***************************************************************************)
EXTENDS Integers, Sequences, FiniteSets

CONSTANTS
    Width,        \* bits of phys_addr_t
    MemBase, MemSize,  \* bootm_low, bootm_size
    UBootBase,    \* the stack pointer less 4K; reserved up to the end of memory
    MaxRegions,   \* MAX_LMB_REGIONS
    Sizes,        \* sizes of what is reserved or allocated
    Aligns,       \* alignments, powers of two
    MaxAddrs,     \* limits of allocations, 0 for LMB_ALLOC_ANYWHERE
    MaxBlocks     \* bound: blocks in use at a time

Space == 2^Width
Addr == 0..(Space - 1)
Wrap(a) == a % Space
MemEnd == MemBase + MemSize

ASSUME MemoryAssumption ==
    /\ Space \in Nat \ {0}
    /\ MemBase \in Addr /\ MemSize \in Addr \ {0} /\ MemEnd <= Space
    /\ UBootBase \in Nat /\ UBootBase > MemBase /\ UBootBase < MemEnd
    /\ Sizes \subseteq Nat \ {0} /\ Aligns \subseteq Nat \ {0} /\ MaxAddrs \subseteq Addr

VARIABLES
    reserved,   \* lmb->reserved
    fdt,        \* images->ft_addr, ft_len: the block of the device tree
    search,     \* lmb_alloc_base under way: its arguments and base
    blocks,     \* ghost: the blocks their owners believe reserved
    torn        \* ghost: a region could not be split for want of an entry, or
                \* bytes that round up an allocation were reserved already

vars == <<reserved, fdt, search, blocks, torn>>

NoFdt == <<>>
NoSearch == <<>>

Region(base, size) == [base |-> base, size |-> size]
End(r) == Wrap(r.base + r.size)

\* The bytes of a region, wherever it ends.
Bytes(r) == {Wrap(r.base + k) : k \in 0..(r.size - 1)}
AllBytes(rs) == UNION {Bytes(r) : r \in rs}
Regions(rgn) == {rgn[i] : i \in DOMAIN rgn}

First(S) == CHOOSE i \in S : \A j \in S : i <= j

-----------------------------------------------------------------------------
(***************************************************************************)
(* The table.                                                              *)
(***************************************************************************)

\* Mutant: only where the first one begins is looked at.
OverlapStart(a, b) == b.base <= a.base /\ a.base < End(b)

lmb_addrs_overlap(a, b) == a.base < End(b) /\ b.base < End(a)

lmb_addrs_adjacent(a, b) ==
    IF b.base = End(a) THEN 1 ELSE IF a.base = End(b) THEN -1 ELSE 0

lmb_remove_region(rgn, r) ==
    [i \in 1..(Len(rgn) - 1) |-> IF i < r THEN rgn[i] ELSE rgn[i + 1]]

lmb_coalesce_regions(rgn, i) ==
    lmb_remove_region([rgn EXCEPT ![i].size = @ + rgn[i + 1].size], i + 1)

\* Mutant: the next region is not looked at.
CoalesceNever(rgn, i) == rgn

\* Region i was extended: it may touch the next one now.
CoalesceNext(rgn, i) ==
    IF i < Len(rgn) /\ lmb_addrs_adjacent(rgn[i], rgn[i + 1]) # 0
    THEN lmb_coalesce_regions(rgn, i) ELSE rgn

\* The sorted table with r after the last region that does not begin above it.
Insert(rgn, r) ==
    LET at == First({i \in 1..(Len(rgn) + 1) : \A j \in i..Len(rgn) : r.base < rgn[j].base})
    IN [i \in 1..(Len(rgn) + 1) |->
            IF i < at THEN rgn[i] ELSE IF i = at THEN r ELSE rgn[i - 1]]

Full(rgn) == Len(rgn) >= MaxRegions

\* The table with r added, and whether the function fails.
lmb_add_region(rgn, r) ==
    LET hits == {i \in DOMAIN rgn : rgn[i] = r \/ lmb_addrs_adjacent(r, rgn[i]) # 0}
        i == First(hits)
    IN IF Len(rgn) = 1 /\ rgn[1].size = 0 THEN [rgn |-> <<r>>, fails |-> FALSE]
       ELSE IF hits = {} /\ Full(rgn) THEN [rgn |-> rgn, fails |-> TRUE]
       ELSE IF hits = {} THEN [rgn |-> Insert(rgn, r), fails |-> FALSE]
       ELSE IF rgn[i] = r THEN [rgn |-> rgn, fails |-> FALSE]
       ELSE LET base == IF lmb_addrs_adjacent(r, rgn[i]) > 0
                        THEN Wrap(rgn[i].base - r.size) ELSE rgn[i].base
                grown == [rgn EXCEPT ![i] = Region(base, @.size + r.size)]
            IN [rgn |-> CoalesceNext(grown, i), fails |-> FALSE]

\* Mutant: the region shrinks at its end.
FrontKept(whole, r) == Region(whole.base, whole.size - r.size)

\* What is left of a region whose first bytes are freed.
FrontFreed(whole, r) == Region(End(r), whole.size - r.size)

\* The table with r freed; it fails when no region holds r, or when the part
\* after r cannot be added, the region being cut off before it by then.
lmb_free(rgn, r) ==
    LET hits == {i \in DOMAIN rgn : rgn[i].base <= r.base /\ End(r) <= End(rgn[i])}
        i == First(hits)
    IN IF hits = {} THEN [rgn |-> rgn, fails |-> TRUE, cut |-> FALSE]
       ELSE LET front == rgn[i].base = r.base
                back == End(rgn[i]) = End(r)
                tail == Region(End(r), Wrap(End(rgn[i]) - End(r)))
                split == lmb_add_region([rgn EXCEPT ![i].size = Wrap(r.base - rgn[i].base)], tail)
            IN IF front /\ back THEN [rgn |-> lmb_remove_region(rgn, i), fails |-> FALSE, cut |-> FALSE]
               ELSE IF front
               THEN [rgn |-> [rgn EXCEPT ![i] = FrontFreed(@, r)],
                     fails |-> FALSE, cut |-> FALSE]
               ELSE IF back
               THEN [rgn |-> [rgn EXCEPT ![i].size = @ - r.size], fails |-> FALSE, cut |-> FALSE]
               ELSE [rgn |-> split.rgn, fails |-> split.fails, cut |-> split.fails]

-----------------------------------------------------------------------------
(***************************************************************************)
(* Allocation: from the end of memory, or the limit, downwards, past every *)
(* reserved region in the way.  0 means that there is no room.             *)
(***************************************************************************)
\* Mutant: rounds to the next multiple.
AlignNext(a, align) == a + ((align - (a % align)) % align)

lmb_align_down(a, align) == a - (a % align)

lmb_align_up(a, align) == lmb_align_down(a + align - 1, align)

\* Where the search begins; 0 when the region of memory is of no use.
FirstBase(size, align, max) ==
    LET end == Wrap(MemEnd)
        top == IF end < MemBase THEN Space - 1 ELSE end
    IN IF MemSize < size THEN 0
       ELSE IF max = 0 THEN lmb_align_down(Wrap(end - size), align)
       ELSE IF MemBase < max
       THEN lmb_align_down(Wrap((IF top < max THEN top ELSE max) - size), align)
       ELSE 0

\* lmb_overlaps_region: the regions in the way of the base the search is at.
InTheWay(s) ==
    {i \in DOMAIN reserved : lmb_addrs_overlap(Region(s.base, s.size), reserved[i])}

\* The condition of the loop.
Searching(s) == s.base # 0 /\ MemBase <= s.base

\* "This area isn't reserved, take it."
Found(s) == Searching(s) /\ InTheWay(s) = {}

-----------------------------------------------------------------------------
(***************************************************************************)
(* The callers.  A caller reserves what no one else has reserved;          *)
(* few of them look at the result of lmb_reserve.                          *)
(***************************************************************************)

Room == Cardinality(blocks) < MaxBlocks

\* The block is the device tree's (boot_relocate_fdt) or another one; there
\* is one device tree.
Owner(done, r) ==
    \/ fdt' = fdt
    \/ fdt = NoFdt /\ done /\ fdt' = <<r>>

lmb_reserve(base, size) ==
    LET r == Region(base, size)
        added == lmb_add_region(reserved, r)
    IN /\ Room /\ search = NoSearch /\ base + size <= MemEnd
       /\ Bytes(r) \cap AllBytes(Regions(reserved)) = {}
       /\ reserved' = added.rgn
       /\ blocks' = IF added.fails THEN blocks ELSE blocks \cup {r}
       /\ Owner(~added.fails, r)
       /\ UNCHANGED <<search, torn>>

\* The search of lmb_alloc_base begins.
lmb_alloc_base(size, align, max) ==
    /\ Room /\ search = NoSearch
    /\ search' = <<[base |-> FirstBase(size, align, max),
                    size |-> size, align |-> align, max |-> max]>>
    /\ UNCHANGED <<reserved, fdt, blocks, torn>>

\* A turn of its loop: it goes on below the first region in the way.
alloc_below ==
    LET s == search[1]
        res_base == reserved[First(InTheWay(s))].base
    IN /\ search # NoSearch /\ Searching(s) /\ InTheWay(s) # {} /\ res_base >= s.size
       /\ search' = <<[s EXCEPT !.base = lmb_align_down(res_base - s.size, s.align)]>>
       /\ UNCHANGED <<reserved, fdt, blocks, torn>>

\* There is no room left below: it returns 0.
alloc_fails ==
    LET s == search[1]
    IN /\ search # NoSearch
       /\ \/ ~Searching(s)
          \/ InTheWay(s) # {} /\ reserved[First(InTheWay(s))].base < s.size
       /\ search' = NoSearch
       /\ UNCHANGED <<reserved, fdt, blocks, torn>>

\* It takes what it has found, the size rounded up; or the table is full.
alloc_takes ==
    LET s == search[1]
        r == Region(s.base, s.size)
        rounded == lmb_align_up(s.size, s.align)
        added == lmb_add_region(reserved, Region(s.base, rounded))
        rounding == Region(s.base + s.size, rounded - s.size)
    IN /\ search # NoSearch /\ Found(s)
       /\ search' = NoSearch
       /\ reserved' = added.rgn
       /\ blocks' = IF added.fails THEN blocks ELSE blocks \cup {r}
       /\ Owner(~added.fails, r)
       /\ torn' = \/ torn
                  \/ ~added.fails /\ Bytes(rounding) \cap AllBytes(Regions(reserved)) # {}

\* image_setup_libfdt: the device tree's reservation is replaced by one of
\* the size it has then.  It is done once; the block is like any other then.
image_setup_libfdt(size) ==
    LET blob == fdt[1]
        freed == lmb_free(reserved, blob)
        added == lmb_add_region(freed.rgn, Region(blob.base, size))
        rest == blocks \ {blob}
    IN /\ Len(fdt) = 1 /\ search = NoSearch /\ size <= blob.size
       /\ reserved' = added.rgn
       /\ blocks' = IF added.fails THEN rest ELSE rest \cup {Region(blob.base, size)}
       /\ fdt' = <<blob, blob>>
       /\ torn' = (torn \/ freed.cut)
       /\ UNCHANGED search

\* boot_start_lmb.
UBoot == Region(UBootBase, MemEnd - UBootBase)

\* Another bootm starts afresh.
boot_start_lmb ==
    /\ search = NoSearch
    /\ reserved' = lmb_add_region(<<Region(0, 0)>>, UBoot).rgn
    /\ blocks' = {UBoot} /\ fdt' = NoFdt
    /\ torn' = FALSE
    /\ UNCHANGED search

Init ==
    /\ reserved = lmb_add_region(<<Region(0, 0)>>, UBoot).rgn
    /\ blocks = {UBoot} /\ fdt = NoFdt
    /\ search = NoSearch
    /\ torn = FALSE

Next ==
    \/ \E base \in MemBase..(MemEnd - 1), size \in Sizes : lmb_reserve(base, size)
    \/ \E size \in Sizes, align \in Aligns, max \in MaxAddrs : lmb_alloc_base(size, align, max)
    \/ alloc_below
    \/ alloc_fails
    \/ alloc_takes
    \/ \E size \in Sizes : image_setup_libfdt(size)
    \/ boot_start_lmb

Spec == Init /\ [][Next]_vars

-----------------------------------------------------------------------------
(***************************************************************************)
(* Properties.                                                             *)
(***************************************************************************)

\* The table is sorted, and regions that touch are merged: there is a gap
\* between each region and the next one.  lmb_add_region looks at one
\* neighbour only and relies on it.
Canonical ==
    ~torn => \A i \in 1..(Len(reserved) - 1) :
                reserved[i].base + reserved[i].size < reserved[i + 1].base

\* Every byte of every block that was reserved or allocated is in a reserved
\* region, however regions were merged and split since; unless the table was
\* full when a region had to be split, or regions came to overlap.
Covered == ~torn => AllBytes(blocks) \subseteq AllBytes(Regions(reserved))

\* "Adding the memreserve regions prevents u-boot from using them to store
\* the initrd or the fdt blob" (common/image-fdt.c): no two blocks overlap,
\* so an allocation is never handed what is reserved.
Apart ==
    ~torn => \A a, b \in blocks : a # b => Bytes(a) \cap Bytes(b) = {}

\* What an allocation takes is aligned as asked, does not reach beyond the end of
\* memory, and lies below the limit, however many regions it went past.
AllocFits ==
    search # NoSearch =>
        LET s == search[1]
        IN Found(s) => /\ s.base % s.align = 0 /\ s.base + s.size <= MemEnd
                       /\ s.max # 0 => s.base + s.size <= s.max
=============================================================================
