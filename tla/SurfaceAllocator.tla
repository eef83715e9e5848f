-------------------------- MODULE SurfaceAllocator --------------------------
(***************************************************************************)
(* The host-visible allocator of surface_allocator.c: first fit over a     *)
(* table of blocks sorted by address, shared by P96 bitmaps, SDK buffers   *)
(* and the host-window services of both cores.  Every function is one      *)
(* section under sa_lock, so it is one action.                             *)
(*                                                                         *)
(* Addresses, sizes and alignments count granules of 256 bytes, to which   *)
(* every size is rounded; an alignment of up to 256 bytes is 1.  32-bit    *)
(* arithmetic is arithmetic modulo Word.                                   *)
(***************************************************************************)
EXTENDS Integers, Sequences, FiniteSets, FiniteSetsExt, SequencesExt

CONSTANTS
    Base, End,     \* sa_base and sa_end as main() sets them
    Word,          \* 2^32 bytes, in granules
    MaxBlocks,     \* SURFACE_ALLOCATOR_MAX_BLOCKS
    MaxSize,       \* bound: largest request
    Aligns,        \* alignments asked of surface_allocator_alloc_aligned
    RangeAligns    \* alignments asked of surface_allocator_alloc_range

ASSUME BoundsAssumption ==
    /\ {Base, End, Word, MaxBlocks, MaxSize} \subseteq Nat
    /\ 0 < Base /\ Base < End /\ 2 * End <= Word
    /\ Aligns \cup RangeAligns \subseteq Nat \ {0}

VARIABLES
    blocks,   \* sa_blocks[0 .. sa_count - 1]
    used      \* sa_used

vars == <<blocks, used>>

Stop(b) == b.addr + b.size
Addresses == Base .. End - 1
Sizes == 1 .. MaxSize
Windows == {w \in Addresses \X (Base + 1 .. End) : w[1] < w[2]}

(* surface_allocator_init, at boot and on every Amiga reset.               *)
Init == blocks = <<>> /\ used = 0
surface_allocator_init == blocks' = <<>> /\ used' = 0

(* sa_align_up: 0 when the sum does not fit in a word.                     *)
sa_align_up(v, al) ==
    IF v + al - 1 >= Word THEN 0 ELSE ((v + al - 1) \div al) * al

(* Open the table at i and enter the block: memmove and the bookkeeping.   *)
Insert(i, addr, size) ==
    /\ blocks' = InsertAt(blocks, i, [addr |-> addr, size |-> size])
    /\ used' = used + size

-----------------------------------------------------------------------------
(* Searches *)

(* Mutant: the search keeps the middle block in the upper half.            *)
BisectionUpper(addr) ==
    LET n == Len(blocks)
        bisect[r \in (0 .. n) \X (0 .. n)] ==
            LET lo == r[1]
                hi == r[2]
                mid == (lo + hi) \div 2
            IN  IF lo >= hi THEN lo
                ELSE IF blocks[mid + 1].addr < addr THEN bisect[<<mid + 1, hi>>]
                ELSE bisect[<<lo, IF mid > lo THEN mid - 1 ELSE lo>>]
    IN  bisect

(* The loop of sa_find: where it ends from every pair of bounds.           *)
Bisection(addr) ==
    LET n == Len(blocks)
        bisect[r \in (0 .. n) \X (0 .. n)] ==
            LET lo == r[1]
                hi == r[2]
                mid == (lo + hi) \div 2
            IN  IF lo >= hi THEN lo
                ELSE IF blocks[mid + 1].addr < addr THEN bisect[<<mid + 1, hi>>]
                ELSE bisect[<<lo, mid>>]
    IN  bisect

(* sa_find: the index of the block at exactly addr, 0 if none.             *)
sa_find(addr) ==
    LET n == Len(blocks)
        i == Bisection(addr)[<<0, n>>] + 1
    IN  IF i <= n /\ blocks[i].addr = addr THEN i ELSE 0

(***************************************************************************)
(* The walk of surface_allocator_alloc_aligned.  Before block i the        *)
(* candidate is the aligned end of block i - 1; the walk stops at the      *)
(* first block whose distance from the candidate, an unsigned difference,  *)
(* is large enough.  Nothing is returned as address 0.                     *)
(***************************************************************************)
Candidate(i, al) ==
    sa_align_up(IF i = 1 THEN Base ELSE Stop(blocks[i - 1]), al)
NoPlace == [at |-> 0, addr |-> 0]

AlignedPlace(size, al) ==
    LET gap(i) == (blocks[i].addr - Candidate(i, al)) % Word
        at == Min({i \in DOMAIN blocks : gap(i) >= size} \cup {Len(blocks) + 1})
        c == Candidate(at, al)
    IN  IF c < Base \/ c > End \/ size > End - c
          THEN NoPlace ELSE [at |-> at, addr |-> c]

(* Mutant: a block that only starts below the candidate is passed over.    *)
PassedOverByStart(b, c) == b.addr < c

PassedOver(b, c) == Stop(b) <= c

(***************************************************************************)
(* The walk of surface_allocator_alloc_range: blocks that end at or below  *)
(* the candidate are passed over; where it ends from every block and       *)
(* candidate.                                                              *)
(***************************************************************************)
Walk(size, al, hi) ==
    LET n == Len(blocks)
        walk[r \in (1 .. n + 1) \X (0 .. Word)] ==
            LET i == r[1]
                c == r[2]
                b == blocks[i]
                next == sa_align_up(Stop(b), al)
            IN  IF i > n \/ b.addr >= hi THEN [at |-> i, addr |-> c, found |-> FALSE]
                ELSE IF PassedOver(b, c) THEN walk[<<i + 1, c>>]
                ELSE IF b.addr >= c /\ b.addr - c >= size
                  THEN [at |-> i, addr |-> c, found |-> TRUE]
                ELSE IF next < Stop(b) \/ next >= hi
                  THEN [at |-> n + 1, addr |-> next, found |-> FALSE]
                ELSE walk[<<i + 1, next>>]
    IN  walk

(* It starts with the window, whose end it tests last.                     *)
RangePlace(size, al, lo, hi) ==
    LET p == Walk(size, al, hi)[<<1, sa_align_up(lo, al)>>]
        fails == p.addr < lo \/ p.addr >= hi \/ hi - p.addr < size
    IN  IF size > hi - lo \/ (~p.found /\ fails)
          THEN NoPlace ELSE [at |-> p.at, addr |-> p.addr]

(***************************************************************************)
(* surface_allocator_free_stats: the largest gap, from unsigned            *)
(* differences along the table.                                            *)
(***************************************************************************)
LargestFree ==
    LET ends == [i \in 1 .. Len(blocks) + 1 |->
                    IF i = 1 THEN Base ELSE Stop(blocks[i - 1])]
        next(i) == IF i > Len(blocks) THEN End ELSE blocks[i].addr
    IN  Max({(next(i) - ends[i]) % Word : i \in DOMAIN ends})

-----------------------------------------------------------------------------
(* Operations; a call that fails changes nothing. *)

surface_allocator_alloc_aligned(size, al) ==
    LET p == AlignedPlace(size, al) IN
    /\ Len(blocks) < MaxBlocks
    /\ p.addr # 0
    /\ Insert(p.at, p.addr, size)

surface_allocator_alloc_range(size, al, lo, hi) ==
    LET p == RangePlace(size, al, lo, hi) IN
    /\ Len(blocks) < MaxBlocks
    /\ p.addr # 0
    /\ Insert(p.at, p.addr, size)

surface_allocator_reserve(addr, size) ==
    LET at == Min({i \in DOMAIN blocks : blocks[i].addr >= addr} \cup {Len(blocks) + 1}) IN
    /\ Len(blocks) < MaxBlocks
    /\ size <= End - addr
    /\ at > 1 => Stop(blocks[at - 1]) <= addr
    /\ at <= Len(blocks) => addr + size <= blocks[at].addr
    /\ Insert(at, addr, size)

surface_allocator_free(addr) ==
    LET i == sa_find(addr) IN
    /\ i # 0
    /\ used' = used - blocks[i].size
    /\ blocks' = RemoveAt(blocks, i)

Next ==
    \/ surface_allocator_init
    \/ \E a \in Addresses, s \in Sizes : surface_allocator_reserve(a, s)
    \/ \E s \in Sizes, al \in Aligns : surface_allocator_alloc_aligned(s, al)
    \/ \E s \in Sizes, al \in RangeAligns, w \in Windows :
         surface_allocator_alloc_range(s, al, w[1], w[2])
    \/ \E a \in Addresses : surface_allocator_free(a)

Spec == Init /\ [][Next]_vars

-----------------------------------------------------------------------------
(* Properties *)

(* "block table kept sorted by address": the blocks are in order, apart    *)
(* and inside the heap.                                                    *)
TableSorted ==
    /\ \A i \in DOMAIN blocks : Base <= blocks[i].addr /\ Stop(blocks[i]) <= End
    /\ \A i, j \in DOMAIN blocks : i < j => Stop(blocks[i]) <= blocks[j].addr

(***************************************************************************)
(* No two blocks overlap: a reserved range is reserved "so no client       *)
(* allocator may hand it out" (surface_allocator.h), a live one likewise.  *)
(***************************************************************************)
BlocksApart ==
    \A i, j \in DOMAIN blocks : i # j =>
        Stop(blocks[i]) <= blocks[j].addr \/ Stop(blocks[j]) <= blocks[i].addr

FreeRun(a, size) ==
    \A i \in DOMAIN blocks : Stop(blocks[i]) <= a \/ a + size <= blocks[i].addr

(* The lowest aligned address of [lo, hi) with `size` free granules, or 0. *)
LowestFit(size, al, lo, hi) ==
    Min({a \in lo .. hi - size : a % al = 0 /\ FreeRun(a, size)} \cup {Word}) % Word

(***************************************************************************)
(* First fit is exact: surface_allocator_alloc_aligned returns the lowest  *)
(* free place in the heap and surface_allocator_alloc_range the lowest one *)
(* inside its window at its alignment, and 0 only when there is none.      *)
(***************************************************************************)
FirstFitExact ==
    /\ \A s \in Sizes, al \in Aligns :
         AlignedPlace(s, al).addr = LowestFit(s, al, Base, End)
    /\ \A s \in Sizes, al \in RangeAligns, w \in Windows :
         RangePlace(s, al, w[1], w[2]).addr = LowestFit(s, al, w[1], w[2])

(* The bisection of surface_allocator_free, block_size and owns finds      *)
(* every live block by its start and nothing else: no free is lost.        *)
FindExact ==
    \A a \in Addresses :
        LET hits == {i \in DOMAIN blocks : blocks[i].addr = a} IN
        sa_find(a) = IF hits = {} THEN 0 ELSE Min(hits)

(* The statistics the Amiga sees agree with the memory: sa_used never      *)
(* drifts from the blocks, and the largest free block is the longest run   *)
(* of free granules.                                                       *)
StatsExact ==
    /\ used = Cardinality({g \in Addresses : ~FreeRun(g, 1)})
    /\ LargestFree = Max({0} \cup {s \in 1 .. End - Base :
                             \E a \in Base .. End - s : FreeRun(a, s)})

(***************************************************************************)
(* The table, its bisection and its statistics agree with the memory after *)
(* any sequence of calls: no granule, reserved or handed out, is handed    *)
(* out again, every live block can be freed, and the Amiga reads the truth.*)
(***************************************************************************)
TableExact == TableSorted /\ FindExact /\ StatsExact
=============================================================================
