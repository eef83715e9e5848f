------------------------ MODULE SurfaceAllocatorProofs ------------------------
(*****************************************************************************)
(* Proofs about SurfaceAllocator.tla, for every heap, table and request size:*)
(* its block table is sorted, apart and counted, and so each of its three    *)
(* searches is exact: the bisection of sa_find, the walk of                  *)
(* surface_allocator_alloc_aligned and that of surface_allocator_alloc_range.*)
(*                                                                           *)
(* The searches are loops of the code and recursive functions of the model.  *)
(* A value is one of a recursive definition only when a function satisfying  *)
(* it exists: WalkExists and BisectExists build it, row by row, and WalkFinds*)
(* and BisectFinds take the least place where the search would go astray.    *)
(*                                                                           *)
(* The theorems assume Aligns = {1}, an alignment of                         *)
(* surface_allocator_alloc_aligned of at most a granule: above it the walk   *)
(* may return an address inside a live block (FindingSurfaceAlign.cfg).  The *)
(* alignments of surface_allocator_alloc_range are arbitrary.                *)
(*****************************************************************************)
EXTENDS SurfaceAllocator, FiniteSetTheorems, FunctionTheorems, SequenceTheorems,
        WellFoundedInduction, TLAPS

Block == [addr : Nat, size : Nat \ {0}]

(* The granules that some block covers.                                    *)
Covered == {g \in Addresses : ~FreeRun(g, 1)}

IInv ==
  /\ blocks \in Seq(Block)
  /\ TableSorted
  /\ used = Cardinality(Covered)

(* Opening a sequence at i moves what was at i and after it up by one.     *)
LEMMA InsertFacts ==
  ASSUME NEW S, NEW s \in Seq(S), NEW e \in S, NEW i \in 1 .. Len(s) + 1
  PROVE  /\ InsertAt(s, i, e) \in Seq(S) /\ Len(InsertAt(s, i, e)) = Len(s) + 1
         /\ \A k \in 1 .. Len(s) + 1 :
              InsertAt(s, i, e)[k] = IF k < i THEN s[k] ELSE IF k = i THEN e ELSE s[k - 1]
<1> DEFINE p == SubSeq(s, 1, i - 1)
           q == SubSeq(s, i, Len(s))
<1>0. Len(s) \in Nat /\ i \in Int /\ i - 1 \in Int
  OBVIOUS
<1>1. /\ p \in Seq(S) /\ Len(p) = i - 1
      /\ \A k \in 1 .. i - 1 : p[k] = s[k]
  <2>1. \A k \in 1 .. i - 1 : s[k] \in S
    BY ElementOfSeq
  <2>2. /\ p \in Seq(S) /\ Len(p) = IF 1 <= i - 1 THEN i - 1 - 1 + 1 ELSE 0
        /\ \A k \in 1 .. i - 1 - 1 + 1 : p[k] = s[1 + k - 1]
    BY <1>0, <2>1, SubSeqProperties
  <2> HIDE DEF p
  <2>3. \A k \in 1 .. i - 1 : k \in 1 .. i - 1 - 1 + 1 /\ 1 + k - 1 = k
    BY <1>0
  <2> QED
    BY <2>2, <2>3, <1>0
<1>2. /\ q \in Seq(S) /\ Len(q) = Len(s) - i + 1
      /\ \A k \in 1 .. Len(s) - i + 1 : q[k] = s[i + k - 1]
  <2>1. \A k \in i .. Len(s) : s[k] \in S
    BY ElementOfSeq
  <2>2. /\ q \in Seq(S) /\ Len(q) = IF i <= Len(s) THEN Len(s) - i + 1 ELSE 0
        /\ \A k \in 1 .. Len(s) - i + 1 : q[k] = s[i + k - 1]
    BY <1>0, <2>1, SubSeqProperties
  <2> HIDE DEF q
  <2> QED
    BY <2>2, <1>0
<1>3. /\ <<e>> \in Seq(S) /\ Len(<<e>>) = 1 /\ <<e>>[1] = e
  OBVIOUS
<1> HIDE DEF p, q
<1>4. /\ p \o <<e>> \in Seq(S) /\ Len(p \o <<e>>) = i
      /\ \A k \in 1 .. i : (p \o <<e>>)[k] = IF k < i THEN s[k] ELSE e
  <2>1. /\ p \o <<e>> \in Seq(S) /\ Len(p \o <<e>>) = Len(p) + Len(<<e>>)
        /\ \A k \in 1 .. Len(p) + Len(<<e>>) : (p \o <<e>>)[k] =
                     IF k <= Len(p) THEN p[k] ELSE <<e>>[k - Len(p)]
    BY <1>1, <1>3, ConcatProperties
  <2> QED
    BY <2>1, <1>0, <1>1, <1>3
<1> DEFINE pe == p \o <<e>>
           r == pe \o q
<1> HIDE DEF pe
<1>4a. pe \in Seq(S)
  BY <1>4 DEF pe
<1>5. /\ r \in Seq(S) /\ Len(r) = Len(pe) + Len(q)
      /\ \A k \in 1 .. Len(pe) + Len(q) : r[k] =
                     IF k <= Len(pe) THEN pe[k] ELSE q[k - Len(pe)]
  BY <1>2, <1>4a, ConcatProperties
<1>6. InsertAt(s, i, e) = r
  BY DEF InsertAt, p, q, pe
<1> HIDE DEF r
<1>7. Len(pe) = i /\ \A k \in 1 .. i : pe[k] = IF k < i THEN s[k] ELSE e
  BY <1>4 DEF pe
<1>8. ASSUME NEW k \in 1 .. Len(s) + 1
      PROVE  r[k] = IF k < i THEN s[k] ELSE IF k = i THEN e ELSE s[k - 1]
  <2>1. CASE k <= i
    BY <2>1, <1>0, <1>2, <1>5, <1>7
  <2>2. CASE k > i
    <3>1. r[k] = q[k - i] /\ k - i \in 1 .. Len(s) - i + 1
      BY <2>2, <1>0, <1>2, <1>5, <1>7
    <3>2. q[k - i] = s[i + (k - i) - 1] /\ i + (k - i) - 1 = k - 1
      BY <3>1, <1>0, <1>2
    <3> QED
      BY <2>2, <3>1, <3>2, <1>0
  <2> QED
    BY <2>1, <2>2, <1>0
<1> QED
  BY <1>0, <1>2, <1>5, <1>6, <1>7, <1>8

(* Closing it moves what is after i down by one.                           *)
LEMMA RemoveFacts ==
  ASSUME NEW S, NEW s \in Seq(S), NEW i \in 1 .. Len(s)
  PROVE  /\ RemoveAt(s, i) \in Seq(S) /\ Len(RemoveAt(s, i)) = Len(s) - 1
         /\ \A k \in 1 .. Len(s) - 1 :
              RemoveAt(s, i)[k] = IF k < i THEN s[k] ELSE s[k + 1]
<1> DEFINE p == SubSeq(s, 1, i - 1)
           q == SubSeq(s, i + 1, Len(s))
<1>0. Len(s) \in Nat /\ i \in Int /\ i - 1 \in Int
  OBVIOUS
<1>1. /\ p \in Seq(S) /\ Len(p) = i - 1
      /\ \A k \in 1 .. i - 1 : p[k] = s[k]
  <2>1. \A k \in 1 .. i - 1 : s[k] \in S
    BY ElementOfSeq
  <2>2. /\ p \in Seq(S) /\ Len(p) = IF 1 <= i - 1 THEN i - 1 - 1 + 1 ELSE 0
        /\ \A k \in 1 .. i - 1 - 1 + 1 : p[k] = s[1 + k - 1]
    BY <1>0, <2>1, SubSeqProperties
  <2> HIDE DEF p
  <2>3. \A k \in 1 .. i - 1 : k \in 1 .. i - 1 - 1 + 1 /\ 1 + k - 1 = k
    BY <1>0
  <2> QED
    BY <2>2, <2>3, <1>0
<1>2. /\ q \in Seq(S) /\ Len(q) = Len(s) - i
      /\ \A k \in 1 .. Len(s) - i : q[k] = s[i + k]
  <2>1. \A k \in i + 1 .. Len(s) : s[k] \in S
    BY ElementOfSeq
  <2>2. /\ q \in Seq(S) /\ Len(q) = IF i + 1 <= Len(s) THEN Len(s) - (i + 1) + 1 ELSE 0
        /\ \A k \in 1 .. Len(s) - (i + 1) + 1 : q[k] = s[i + 1 + k - 1]
    BY <1>0, <2>1, SubSeqProperties
  <2> HIDE DEF q
  <2>3. \A k \in 1 .. Len(s) - i : k \in 1 .. Len(s) - (i + 1) + 1 /\ i + 1 + k - 1 = i + k
    BY <1>0
  <2> QED
    BY <2>2, <2>3, <1>0
<1> HIDE DEF p, q
<1> DEFINE r == p \o q
<1>3. /\ r \in Seq(S) /\ Len(r) = Len(p) + Len(q)
      /\ \A k \in 1 .. Len(p) + Len(q) : r[k] =
                     IF k <= Len(p) THEN p[k] ELSE q[k - Len(p)]
  BY <1>1, <1>2, ConcatProperties
<1>4. RemoveAt(s, i) = r
  BY DEF RemoveAt, p, q
<1> HIDE DEF r
<1>5. ASSUME NEW k \in 1 .. Len(s) - 1
      PROVE  r[k] = IF k < i THEN s[k] ELSE s[k + 1]
  <2>1. CASE k < i
    BY <2>1, <1>0, <1>1, <1>2, <1>3
  <2>2. CASE k >= i
    <3>0. k \in 1 .. Len(p) + Len(q) /\ ~(k <= Len(p))
      BY <2>2, <1>0, <1>1, <1>2
    <3>1. r[k] = q[k - (i - 1)] /\ k - (i - 1) \in 1 .. Len(s) - i
      BY <2>2, <3>0, <1>0, <1>1, <1>3
    <3>2. q[k - (i - 1)] = s[i + (k - (i - 1))] /\ i + (k - (i - 1)) = k + 1
      BY <3>1, <1>0, <1>2
    <3> QED
      BY <2>2, <3>1, <3>2, <1>0
  <2> QED
    BY <2>1, <2>2, <1>0
<1> QED
  BY <1>0, <1>1, <1>2, <1>3, <1>4, <1>5

(* Every set of natural numbers that is not empty has a least element.     *)
LEMMA LeastNat ==
  ASSUME NEW T, T \subseteq Nat, T # {}
  PROVE  \E x \in T : \A y \in T : x <= y
<1> DEFINE R == OpToRel(<, Nat)
<1>1. PICK x \in T : \A y \in T : <<y, x>> \notin R
  <2> HIDE DEF R
  <2> QED
    BY NatLessThanWellFounded, WFMin DEF R
<1>2. ASSUME NEW y \in T PROVE x <= y
  <2>1. x \in Nat /\ y \in Nat
    OBVIOUS
  <2>2. <<y, x>> \in Nat \X Nat /\ <<y, x>>[1] = y /\ <<y, x>>[2] = x
    BY <2>1
  <2>3. ~(y < x)
    BY <1>1, <2>2 DEF OpToRel
  <2> QED
    BY <2>1, <2>3
<1> QED
  BY <1>2

LEMMA MinNat ==
  ASSUME NEW T, T \subseteq Nat, T # {}
  PROVE  Min(T) \in T /\ \A y \in T : Min(T) <= y
<1>1. \E x \in T : \A y \in T : x =< y
  BY LeastNat
<1> QED
  BY <1>1 DEF Min

(* It is Min(T).                                                           *)
LEMMA MinIs ==
  ASSUME NEW T, T \subseteq Nat, NEW m \in T, \A y \in T : m <= y
  PROVE  Min(T) = m
<1>1. Min(T) \in T /\ \A y \in T : Min(T) <= y
  BY MinNat
<1>2. m \in Nat /\ Min(T) \in Nat /\ m <= Min(T) /\ Min(T) <= m
  BY <1>1
<1> QED
  BY <1>2

LEMMA MaxIs ==
  ASSUME NEW T, T \subseteq Nat, NEW m \in T, \A y \in T : m >= y
  PROVE  Max(T) = m
<1>1. Max(T) \in T /\ \A y \in T : Max(T) >= y
  BY DEF Max
<1>2. m \in Nat /\ Max(T) \in Nat /\ m <= Max(T) /\ Max(T) <= m
  BY <1>1
<1> QED
  BY <1>2

LEMMA ConstFacts ==
  /\ Base \in Nat /\ End \in Nat /\ Word \in Nat /\ MaxSize \in Nat
  /\ 0 < Base /\ Base < End /\ 2 * End <= Word
  /\ \A al \in Aligns \cup RangeAligns : al \in Nat \ {0}
BY BoundsAssumption

LEMMA BlockFacts ==
  ASSUME blocks \in Seq(Block), TableSorted, NEW i \in 1 .. Len(blocks)
  PROVE  /\ blocks[i] \in Block
         /\ blocks[i].addr \in Nat /\ blocks[i].size \in Nat \ {0}
         /\ Stop(blocks[i]) \in Nat /\ Stop(blocks[i]) = blocks[i].addr + blocks[i].size
         /\ Base <= blocks[i].addr /\ blocks[i].addr < Stop(blocks[i]) /\ Stop(blocks[i]) <= End
<1>1. blocks[i] \in Block
  BY ElementOfSeq
<1>2. blocks[i].addr \in Nat /\ blocks[i].size \in Nat \ {0}
  BY <1>1 DEF Block
<1>3. Base <= blocks[i].addr /\ Stop(blocks[i]) <= End
  BY DEF TableSorted
<1> QED
  BY <1>1, <1>2, <1>3 DEF Stop

LEMMA Ordered ==
  ASSUME blocks \in Seq(Block), TableSorted,
         NEW i \in 1 .. Len(blocks), NEW j \in 1 .. Len(blocks), i < j
  PROVE  Stop(blocks[i]) <= blocks[j].addr
BY DEF TableSorted

(* The blocks before i end at or below its predecessor's end.              *)
LEMMA EndsBelow ==
  ASSUME blocks \in Seq(Block), TableSorted,
         NEW i \in 1 .. Len(blocks), NEW j \in 1 .. Len(blocks), i <= j
  PROVE  Stop(blocks[i]) <= Stop(blocks[j]) /\ blocks[i].addr <= blocks[j].addr
<1>1. CASE i = j
  BY <1>1, BlockFacts
<1>2. CASE i < j
  BY <1>2, Ordered, BlockFacts
<1> QED
  BY <1>1, <1>2

(* The granules of a table. *)
Granules(s) == {g \in Base .. End - 1 :
                  \E k \in 1 .. Len(s) : s[k].addr <= g /\ g < Stop(s[k])}

LEMMA GranulesAre ==
  ASSUME NEW s \in Seq(Block)
  PROVE  {g \in Addresses : ~\A k \in DOMAIN s : Stop(s[k]) <= g \/ g + 1 <= s[k].addr}
           = Granules(s)
<1>1. ASSUME NEW g \in Base .. End - 1, NEW k \in 1 .. Len(s)
      PROVE  ~(Stop(s[k]) <= g \/ g + 1 <= s[k].addr) <=> s[k].addr <= g /\ g < Stop(s[k])
  <2>1. s[k] \in Block
    BY ElementOfSeq
  <2>2. s[k].addr \in Nat /\ Stop(s[k]) \in Nat
    BY <2>1 DEF Block, Stop
  <2> QED
    BY <2>2, ConstFacts
<1>2. DOMAIN s = 1 .. Len(s)
  OBVIOUS
<1> QED
  BY <1>1, <1>2 DEF Granules, Addresses

LEMMA CoveredFinite == IsFiniteSet(Covered) /\ Cardinality(Covered) \in Nat
<1>1. IsFiniteSet(Base .. End - 1)
  BY ConstFacts, FS_Interval
<1>2. Covered \in SUBSET (Base .. End - 1)
  BY DEF Covered, Addresses
<1> QED
  BY <1>1, <1>2, FS_Subset, FS_CardinalityType

LEMMA RangeCount ==
  ASSUME NEW a \in Nat, NEW s \in Nat \ {0}
  PROVE  IsFiniteSet(a .. a + s - 1) /\ Cardinality(a .. a + s - 1) = s
<1>1. /\ IsFiniteSet(a .. a + s - 1)
      /\ Cardinality(a .. a + s - 1) = IF a > a + s - 1 THEN 0 ELSE a + s - 1 - a + 1
  BY FS_Interval
<1> QED
  BY <1>1

(* Whoever enters a block into a gap keeps the table sorted and counted.   *)
LEMMA InsertInv ==
  ASSUME IInv, NEW i \in 1 .. Len(blocks) + 1, NEW addr \in Nat, NEW size \in Nat \ {0},
         Base <= addr, addr + size <= End,
         i > 1 => Stop(blocks[i - 1]) <= addr,
         i <= Len(blocks) => addr + size <= blocks[i].addr,
         Insert(i, addr, size)
  PROVE  IInv'
<1> DEFINE n == Len(blocks)
           e == [addr |-> addr, size |-> size]
<1>0. blocks \in Seq(Block) /\ TableSorted /\ n \in Nat /\ used = Cardinality(Covered)
  BY DEF IInv
<1>0a. i \in 1 .. n + 1
  OBVIOUS
<1>1. e \in Block /\ e.addr = addr /\ e.size = size /\ Stop(e) = addr + size
  BY DEF Block, Stop
<1>2. /\ blocks' \in Seq(Block) /\ Len(blocks') = n + 1
      /\ \A k \in 1 .. n + 1 : blocks'[k] =
           IF k < i THEN blocks[k] ELSE IF k = i THEN e ELSE blocks[k - 1]
  <2>1. blocks' = InsertAt(blocks, i, e)
    BY DEF Insert
  <2> HIDE DEF e
  <2> QED
    BY <2>1, <1>0, <1>1, InsertFacts
<1> HIDE DEF n, e
<1>3. \A k \in 1 .. n : k < i => Stop(blocks[k]) <= addr
  <2> SUFFICES ASSUME NEW k \in 1 .. n, k < i PROVE Stop(blocks[k]) <= addr
    OBVIOUS
  <2>1. i - 1 \in 1 .. n /\ k <= i - 1 /\ Stop(blocks[i - 1]) <= addr
    BY <1>0, <1>0a DEF n
  <2>2. Stop(blocks[k]) <= Stop(blocks[i - 1])
    BY <2>1, <1>0, EndsBelow DEF n
  <2>3. Stop(blocks[k]) \in Nat /\ Stop(blocks[i - 1]) \in Nat
    BY <2>1, <1>0, BlockFacts DEF n
  <2> QED
    BY <2>1, <2>2, <2>3
<1>4. \A k \in 1 .. n : i <= k => addr + size <= blocks[k].addr
  <2> SUFFICES ASSUME NEW k \in 1 .. n, i <= k PROVE addr + size <= blocks[k].addr
    OBVIOUS
  <2>1. i \in 1 .. n /\ addr + size <= blocks[i].addr
    BY <1>0, <1>0a DEF n
  <2>2. blocks[i].addr <= blocks[k].addr
    BY <2>1, <1>0, EndsBelow DEF n
  <2>3. blocks[i].addr \in Nat /\ blocks[k].addr \in Nat
    BY <2>1, <1>0, BlockFacts DEF n
  <2> QED
    BY <2>1, <2>2, <2>3
<1>5. TableSorted'
  <2>1. ASSUME NEW k \in 1 .. n + 1
        PROVE  Base <= blocks'[k].addr /\ Stop(blocks'[k]) <= End
    <3>1. CASE k < i
      BY <3>1, <1>0, <1>0a, <1>2, BlockFacts DEF n
    <3>2. CASE k = i
      BY <3>2, <1>1, <1>2
    <3>3. CASE k > i
      <4>1. k - 1 \in 1 .. n /\ ~(k < i) /\ k # i
        BY <3>3, <1>0, <1>0a
      <4>2. blocks'[k] = blocks[k - 1]
        BY <4>1, <1>2
      <4> QED
        BY <4>1, <4>2, <1>0, BlockFacts DEF n
    <3> QED
      BY <3>1, <3>2, <3>3, <1>0, <1>0a
  <2>2. ASSUME NEW j \in 1 .. n + 1, NEW k \in 1 .. n + 1, j < k
        PROVE  Stop(blocks'[j]) <= blocks'[k].addr
    <3>1. CASE k < i
      <4>1. blocks'[j] = blocks[j] /\ blocks'[k] = blocks[k] /\ j \in 1 .. n /\ k \in 1 .. n
        BY <3>1, <2>2, <1>0, <1>0a, <1>2
      <4> QED
        BY <4>1, <2>2, <1>0, Ordered DEF n
    <3>2. CASE k = i
      <4>1. blocks'[j] = blocks[j] /\ blocks'[k] = e /\ j \in 1 .. n
        BY <3>2, <2>2, <1>0, <1>0a, <1>2
      <4> QED
        BY <4>1, <3>2, <2>2, <1>1, <1>3
    <3>3. CASE k > i /\ j < i
      <4>1. blocks'[j] = blocks[j] /\ blocks'[k] = blocks[k - 1] /\ j \in 1 .. n /\ k - 1 \in 1 .. n
            /\ j < k - 1
        BY <3>3, <2>2, <1>0, <1>0a, <1>2
      <4> QED
        BY <4>1, <1>0, Ordered DEF n
    <3>4. CASE j = i
      <4>1. blocks'[j] = e /\ blocks'[k] = blocks[k - 1] /\ k - 1 \in 1 .. n /\ i <= k - 1
        BY <3>4, <2>2, <1>0, <1>0a, <1>2
      <4> QED
        BY <4>1, <1>1, <1>4
    <3>5. CASE j > i
      <4>1. blocks'[j] = blocks[j - 1] /\ blocks'[k] = blocks[k - 1] /\ j - 1 \in 1 .. n
            /\ k - 1 \in 1 .. n /\ j - 1 < k - 1
        BY <3>5, <2>2, <1>0, <1>0a, <1>2
      <4> QED
        BY <4>1, <1>0, Ordered DEF n
    <3> QED
      BY <3>1, <3>2, <3>3, <3>4, <3>5, <2>2, <1>0, <1>0a
  <2>3. DOMAIN blocks' = 1 .. n + 1
    BY <1>2
  <2> QED
    BY <2>1, <2>2, <2>3 DEF TableSorted
<1>5a. Covered = Granules(blocks) /\ Covered' = Granules(blocks')
  <2>1. Covered = Granules(blocks)
    BY <1>0, GranulesAre DEF Covered, FreeRun
  <2>2. Covered' = Granules(blocks')
    BY <1>2, GranulesAre DEF Covered, FreeRun
  <2> QED
    BY <2>1, <2>2
<1>6. \A g \in Base .. End - 1 : g \in Covered' <=> g \in Covered \/ g \in addr .. addr + size - 1
  <2> SUFFICES ASSUME NEW g \in Base .. End - 1
               PROVE  g \in Covered' <=> g \in Covered \/ g \in addr .. addr + size - 1
    OBVIOUS
  <2>1. g \in Covered <=> \E k \in 1 .. n : blocks[k].addr <= g /\ g < Stop(blocks[k])
    BY <1>5a DEF Granules, n
  <2>2. g \in Covered' <=> \E k \in 1 .. n + 1 : blocks'[k].addr <= g /\ g < Stop(blocks'[k])
    BY <1>5a, <1>2 DEF Granules
  <2>3. ASSUME NEW k \in 1 .. n + 1, blocks'[k].addr <= g /\ g < Stop(blocks'[k])
        PROVE  g \in Covered \/ g \in addr .. addr + size - 1
    <3>1. CASE k < i
      <4>1. k \in 1 .. n /\ blocks'[k] = blocks[k]
        BY <3>1, <1>0, <1>0a, <1>2
      <4> QED
        BY <4>1, <2>1, <2>3
    <3>2. CASE k = i
      <4>1. addr <= g /\ g < addr + size
        BY <3>2, <2>3, <1>1, <1>2
      <4> QED
        BY <4>1, ConstFacts
    <3>3. CASE k > i
      <4>1. k - 1 \in 1 .. n /\ blocks'[k] = blocks[k - 1]
        BY <3>3, <1>0, <1>0a, <1>2
      <4> QED
        BY <4>1, <2>1, <2>3
    <3> QED
      BY <3>1, <3>2, <3>3, <1>0, <1>0a
  <2>4. ASSUME g \in Covered PROVE g \in Covered'
    <3>1. PICK k \in 1 .. n : blocks[k].addr <= g /\ g < Stop(blocks[k])
      BY <2>1, <2>4
    <3>2. CASE k < i
      <4>1. k \in 1 .. n + 1 /\ blocks'[k] = blocks[k]
        BY <3>2, <1>0, <1>0a, <1>2
      <4> QED
        BY <4>1, <3>1, <2>2
    <3>3. CASE k >= i
      <4>1. k + 1 \in 1 .. n + 1 /\ ~(k + 1 < i) /\ k + 1 # i /\ (k + 1) - 1 = k
        BY <3>3, <1>0, <1>0a
      <4>2. blocks'[k + 1] = blocks[(k + 1) - 1]
        BY <4>1, <1>2
      <4>3. blocks'[k + 1] = blocks[k]
        BY <4>1, <4>2
      <4> QED
        BY <4>1, <4>3, <3>1, <2>2
    <3> QED
      BY <3>2, <3>3, <1>0, <1>0a
  <2>5. ASSUME g \in addr .. addr + size - 1 PROVE g \in Covered'
    <3>1. i \in 1 .. n + 1 /\ blocks'[i] = e
      BY <1>0, <1>0a, <1>2 DEF n
    <3>2. e.addr <= g /\ g < Stop(e)
      BY <1>1, <2>5
    <3> QED
      BY <3>1, <3>2, <2>2
  <2> QED
    BY <2>2, <2>3, <2>4, <2>5
<1>7. Covered' = Covered \cup (addr .. addr + size - 1)
  <2>1. Covered \subseteq Base .. End - 1 /\ Covered' \subseteq Base .. End - 1
    BY DEF Covered, Addresses
  <2>2. addr .. addr + size - 1 \subseteq Base .. End - 1
    BY ConstFacts
  <2> QED
    BY <2>1, <2>2, <1>6
<1>8. Covered \cap (addr .. addr + size - 1) = {}
  <2> SUFFICES ASSUME NEW g \in Covered, g \in addr .. addr + size - 1 PROVE FALSE
    OBVIOUS
  <2>1. g \in Base .. End - 1
    BY DEF Covered, Addresses
  <2>2. PICK k \in 1 .. n : blocks[k].addr <= g /\ g < Stop(blocks[k])
    BY <2>1, <1>5a DEF Granules, n
  <2>3. blocks[k].addr \in Nat /\ Stop(blocks[k]) \in Nat
    BY <1>0, BlockFacts DEF n
  <2>4. k < i \/ i <= k
    BY <1>0, <1>0a
  <2> QED
    BY <2>2, <2>3, <2>4, <1>3, <1>4, SMTT(30)
<1>9. used' = Cardinality(Covered')
  <2>1. Cardinality(Covered \cup (addr .. addr + size - 1)) =
          Cardinality(Covered) + Cardinality(addr .. addr + size - 1)
            - Cardinality(Covered \cap (addr .. addr + size - 1))
    BY CoveredFinite, RangeCount, FS_Union
  <2>2. Cardinality(Covered \cap (addr .. addr + size - 1)) = 0
    BY <1>8, FS_EmptySet
  <2>3. used' = used + size
    BY DEF Insert
  <2>4. Cardinality(addr .. addr + size - 1) = size
    BY RangeCount
  <2> QED
    BY <2>1, <2>2, <2>3, <2>4, <1>0, <1>7, CoveredFinite
<1> QED
  BY <1>2, <1>5, <1>9 DEF IInv

-----------------------------------------------------------------------------
(* The bisection of sa_find.                                               *)

Bounds == (0 .. Len(blocks)) \X (0 .. Len(blocks))
Mid(r) == (r[1] + r[2]) \div 2

BisectStep(bisect, addr, r) ==
  LET lo == r[1]
      hi == r[2]
      mid == (lo + hi) \div 2
  IN  IF lo >= hi THEN lo
      ELSE IF blocks[mid + 1].addr < addr THEN bisect[<<mid + 1, hi>>]
      ELSE bisect[<<lo, mid>>]

(* Both halves are shorter.                                                *)
LEMMA Halves ==
  ASSUME blocks \in Seq(Block), NEW r \in Bounds, r[1] < r[2]
  PROVE  /\ Mid(r) + 1 \in 1 .. Len(blocks) /\ Mid(r) \in 0 .. Len(blocks)
         /\ r[1] <= Mid(r) /\ Mid(r) < r[2]
         /\ <<Mid(r) + 1, r[2]>> \in Bounds /\ <<r[1], Mid(r)>> \in Bounds
<1>1. r[1] \in 0 .. Len(blocks) /\ r[2] \in 0 .. Len(blocks) /\ Len(blocks) \in Nat
  BY DEF Bounds
<1>2. Mid(r) \in Int /\ r[1] <= Mid(r) /\ Mid(r) < r[2]
  <2> DEFINE a == r[1]
             b == r[2]
  <2>1. Mid(r) = (a + b) \div 2
    BY DEF Mid
  <2>2. a \in Int /\ b \in Int /\ a < b
    BY <1>1
  <2> HIDE DEF a, b
  <2>3. (a + b) \div 2 \in Int /\ a <= (a + b) \div 2 /\ (a + b) \div 2 < b
    BY <2>2
  <2> QED
    BY <2>1, <2>3 DEF a, b
<1>3. Mid(r) + 1 \in 0 .. Len(blocks) /\ Mid(r) + 1 \in 1 .. Len(blocks) /\ Mid(r) \in 0 .. Len(blocks)
  BY <1>1, <1>2
<1> QED
  BY <1>1, <1>2, <1>3 DEF Bounds

LEMMA BisectStepIs ==
  ASSUME NEW f, NEW addr, NEW r
  PROVE  BisectStep(f, addr, r) =
           IF r[1] >= r[2] THEN r[1]
           ELSE IF blocks[Mid(r) + 1].addr < addr THEN f[<<Mid(r) + 1, r[2]>>]
           ELSE f[<<r[1], Mid(r)>>]
BY DEF BisectStep, Mid

(* A function that is right up to a length of m.                           *)
RightUpTo(f, m, addr) ==
  \A r \in Bounds : r[2] - r[1] <= m => f[r] = BisectStep(f, addr, r)

(* A step looks at shorter bounds only.                                    *)
LEMMA BisectStepNext ==
  ASSUME blocks \in Seq(Block), NEW addr, NEW r \in Bounds,
         NEW f \in [Bounds -> 0 .. Len(blocks)], NEW g,
         \A q \in Bounds : q[2] - q[1] < r[2] - r[1] => f[q] = g[q]
  PROVE  /\ BisectStep(f, addr, r) = BisectStep(g, addr, r)
         /\ BisectStep(f, addr, r) \in 0 .. Len(blocks)
<1>1. r[1] \in 0 .. Len(blocks) /\ r[2] \in 0 .. Len(blocks) /\ Len(blocks) \in Nat
  BY DEF Bounds
<1>2. CASE r[1] >= r[2]
  BY <1>1, <1>2, BisectStepIs
<1>3. CASE r[1] < r[2]
  <2> DEFINE p == <<Mid(r) + 1, r[2]>>
             q == <<r[1], Mid(r)>>
  <2>1. /\ p \in Bounds /\ q \in Bounds
        /\ Mid(r) \in 0 .. Len(blocks) /\ r[1] <= Mid(r) /\ Mid(r) < r[2]
    BY <1>3, Halves
  <2>2. p[2] - p[1] < r[2] - r[1] /\ q[2] - q[1] < r[2] - r[1]
    BY <1>1, <2>1
  <2>3. ~(r[1] >= r[2])
    BY <1>1, <1>3
  <2>4. \A h : BisectStep(h, addr, r) = IF blocks[Mid(r) + 1].addr < addr THEN h[p] ELSE h[q]
    BY <2>3, BisectStepIs
  <2> HIDE DEF p, q
  <2>5. f[p] = g[p] /\ f[q] = g[q] /\ f[p] \in 0 .. Len(blocks) /\ f[q] \in 0 .. Len(blocks)
    BY <2>1, <2>2
  <2> QED
    BY <2>4, <2>5
<1> QED
  BY <1>1, <1>2, <1>3

LEMMA BisectExists ==
  ASSUME blocks \in Seq(Block), NEW addr
  PROVE  \E f \in [Bounds -> 0 .. Len(blocks)] : RightUpTo(f, Len(blocks), addr)
<1> DEFINE n == Len(blocks)
           T == {k \in 0 .. n : ~\E f \in [Bounds -> 0 .. n] : RightUpTo(f, k, addr)}
<1>0. n \in Nat
  OBVIOUS
<1>1. 0 \notin T
  <2> DEFINE f == [r \in Bounds |-> r[1]]
  <2>1. f \in [Bounds -> 0 .. n]
    BY DEF Bounds
  <2>2. ASSUME NEW r \in Bounds, r[2] - r[1] <= 0
        PROVE  f[r] = BisectStep(f, addr, r)
    <3>1. r[1] >= r[2]
      BY <2>2, <1>0 DEF Bounds
    <3>2. BisectStep(f, addr, r) = r[1]
      BY <3>1, BisectStepIs
    <3> QED
      BY <3>2
  <2> HIDE DEF f
  <2> QED
    BY <2>1, <2>2 DEF RightUpTo
<1>2. ASSUME NEW k \in 0 .. n - 1, k \notin T PROVE k + 1 \notin T
  <2>1. PICK f \in [Bounds -> 0 .. n] : RightUpTo(f, k, addr)
    BY <1>0, <1>2
  <2> DEFINE h == [r \in Bounds |-> IF r[2] - r[1] = k + 1 THEN BisectStep(f, addr, r) ELSE f[r]]
  <2>2. \A r \in Bounds : BisectStep(f, addr, r) \in 0 .. n
    BY BisectStepNext
  <2>3. h \in [Bounds -> 0 .. n]
    BY <2>2
  <2>4. ASSUME NEW r \in Bounds, r[2] - r[1] <= k + 1
        PROVE  h[r] = BisectStep(h, addr, r)
    <3>0. r[1] \in 0 .. n /\ r[2] \in 0 .. n
      BY DEF Bounds
    <3>1. ASSUME NEW q \in Bounds, q[2] - q[1] < r[2] - r[1] PROVE f[q] = h[q]
      <4>1. q[1] \in 0 .. n /\ q[2] \in 0 .. n
        BY DEF Bounds
      <4>2. q[2] - q[1] # k + 1
        BY <3>0, <3>1, <4>1, <2>4, <1>0
      <4> QED
        BY <4>2
    <3>2. BisectStep(f, addr, r) = BisectStep(h, addr, r)
      <4> HIDE DEF h
      <4> QED
        BY <3>1, BisectStepNext
    <3>3. CASE r[2] - r[1] = k + 1
      <4>1. h[r] = BisectStep(f, addr, r)
        BY <3>3
      <4> QED
        BY <4>1, <3>2
    <3>4. CASE r[2] - r[1] # k + 1
      <4>1. h[r] = f[r]
        BY <3>4
      <4>2. r[2] - r[1] <= k
        BY <3>0, <3>4, <2>4, <1>0
      <4>3. f[r] = BisectStep(f, addr, r)
        BY <4>2, <2>1 DEF RightUpTo
      <4> QED
        BY <4>1, <4>3, <3>2
    <3> QED
      BY <3>3, <3>4
  <2> HIDE DEF h
  <2>5. RightUpTo(h, k + 1, addr)
    BY <2>4 DEF RightUpTo
  <2> QED
    BY <2>3, <2>5
<1>3. T = {}
  <2> SUFFICES ASSUME T # {} PROVE FALSE
    OBVIOUS
  <2>1. T \subseteq Nat
    OBVIOUS
  <2>2. PICK k \in T : \A y \in T : k <= y
    <3> HIDE DEF T
    <3> QED
      BY <2>1, LeastNat
  <2>3. k \in 0 .. n /\ k # 0
    <3>1. k \in 0 .. n
      OBVIOUS
    <3> HIDE DEF T
    <3> QED
      BY <3>1, <1>1
  <2>4. k - 1 \in 0 .. n - 1 /\ k - 1 + 1 = k
    BY <2>3, <1>0
  <2> HIDE DEF T
  <2>5. k - 1 \notin T
    BY <2>2, <2>3
  <2> QED
    BY <1>2, <2>4, <2>5
<1> QED
  BY <1>0, <1>3

LEMMA BisectIs ==
  ASSUME blocks \in Seq(Block), NEW addr, NEW r \in Bounds
  PROVE  Bisection(addr)[r] = BisectStep(Bisection(addr), addr, r)
<1>1. PICK f \in [Bounds -> 0 .. Len(blocks)] : RightUpTo(f, Len(blocks), addr)
  BY BisectExists
<1>2. \A q \in Bounds : q[2] - q[1] <= Len(blocks)
  BY DEF Bounds
<1>3. f = [q \in Bounds |-> BisectStep(f, addr, q)]
  BY <1>1, <1>2 DEF RightUpTo
<1>4. Bisection(addr) = [q \in Bounds |-> BisectStep(Bisection(addr), addr, q)]
  BY <1>3 DEF Bisection, BisectStep, Bounds
<1> QED
  BY <1>4

(* The search has narrowed to [lo, hi].                                    *)
Bracket(lo, hi, addr) ==
  \A j \in 1 .. Len(blocks) :
    /\ j <= lo => blocks[j].addr < addr
    /\ j > hi => blocks[j].addr >= addr

(* Bounds from which it goes wrong.                                        *)
Lost(addr) ==
  {k \in 0 .. Len(blocks) :
     \E r \in Bounds :
       /\ k = r[2] - r[1] /\ Bracket(r[1], r[2], addr)
       /\ ~(/\ Bisection(addr)[r] \in 0 .. Len(blocks)
            /\ Bracket(Bisection(addr)[r], Bisection(addr)[r], addr))}

LEMMA BisectFinds ==
  ASSUME IInv, NEW addr \in Nat
  PROVE  LET k == Bisection(addr)[<<0, Len(blocks)>>]
         IN  k \in 0 .. Len(blocks) /\ Bracket(k, k, addr)
<1> DEFINE n == Len(blocks)
           f == Bisection(addr)
<1>0. blocks \in Seq(Block) /\ n \in Nat /\ TableSorted
  BY DEF IInv
<1>1. Lost(addr) = {}
  <2> SUFFICES ASSUME Lost(addr) # {} PROVE FALSE
    OBVIOUS
  <2>1. Lost(addr) \subseteq Nat
    BY DEF Lost
  <2>2. PICK k \in Lost(addr) : \A y \in Lost(addr) : k <= y
    BY <2>1, LeastNat
  <2>3. PICK r \in Bounds :
          /\ k = r[2] - r[1] /\ Bracket(r[1], r[2], addr)
          /\ ~(f[r] \in 0 .. n /\ Bracket(f[r], f[r], addr))
    BY DEF Lost
  <2>4. k \in 0 .. n /\ r[1] \in 0 .. n /\ r[2] \in 0 .. n
    BY DEF Lost, Bounds
  <2>5. f[r] = BisectStep(f, addr, r)
    BY <1>0, BisectIs
  <2>5a. \A g : BisectStep(g, addr, r) =
           IF r[1] >= r[2] THEN r[1]
           ELSE IF blocks[Mid(r) + 1].addr < addr THEN g[<<Mid(r) + 1, r[2]>>]
           ELSE g[<<r[1], Mid(r)>>]
    BY BisectStepIs
  <2>6. ASSUME NEW q \in Bounds, Bracket(q[1], q[2], addr), q[2] - q[1] \in 0 .. n,
               q[2] - q[1] < k
        PROVE  f[q] \in 0 .. n /\ Bracket(f[q], f[q], addr)
    <3>1. q[2] - q[1] \notin Lost(addr)
      BY <2>2, <2>4, <2>6
    <3> QED
      BY <2>6, <3>1 DEF Lost
  <2>7. r[1] < r[2]
    <3>1. SUFFICES ASSUME r[1] = r[2] PROVE FALSE
      BY <2>3, <2>4
    <3> HIDE DEF f
    <3>2. f[r] = r[1]
      <4>1. r[1] >= r[2]
        BY <2>4, <3>1
      <4> QED
        BY <2>5, <2>5a, <4>1
    <3> QED
      BY <2>3, <2>4, <3>1, <3>2
  <2> DEFINE p == <<Mid(r) + 1, r[2]>>
             q == <<r[1], Mid(r)>>
             m == Mid(r) + 1
  <2>8. /\ p \in Bounds /\ q \in Bounds /\ m \in 1 .. n /\ m - 1 = Mid(r)
        /\ Mid(r) \in 0 .. n /\ r[1] <= Mid(r) /\ Mid(r) < r[2]
    BY <1>0, <2>7, Halves
  <2>9. p[1] = m /\ p[2] = r[2] /\ q[1] = r[1] /\ q[2] = Mid(r)
    OBVIOUS
  <2> HIDE DEF f
  <2>10. f[r] = IF blocks[m].addr < addr THEN f[p] ELSE f[q]
    <3>1. ~(r[1] >= r[2])
      BY <2>4, <2>7
    <3> QED
      BY <2>5, <2>5a, <3>1
  <2>11. \A i, j \in 1 .. n : i <= j => blocks[i].addr <= blocks[j].addr /\ blocks[i].addr \in Nat
    <3>1. ASSUME NEW i \in 1 .. n, NEW j \in 1 .. n, i <= j
          PROVE  blocks[i].addr <= blocks[j].addr /\ blocks[i].addr \in Nat
      <4>1. blocks[i].addr \in Nat /\ blocks[j].addr \in Nat /\ blocks[i].size \in Nat
        BY <1>0, BlockFacts
      <4>2. i < j => Stop(blocks[i]) <= blocks[j].addr
        BY <1>0 DEF TableSorted
      <4> QED
        BY <3>1, <4>1, <4>2 DEF Stop
    <3> QED
      BY <3>1
  <2> HIDE DEF p, q, m, f
  <2>12. CASE blocks[m].addr < addr
    <3>1. Bracket(p[1], p[2], addr)
      <4>1. ASSUME NEW j \in 1 .. n
            PROVE  /\ j <= m => blocks[j].addr < addr
                   /\ j > r[2] => blocks[j].addr >= addr
        <5>1. j > r[2] => blocks[j].addr >= addr
          BY <2>3 DEF Bracket
        <5>2. j <= m => blocks[j].addr <= blocks[m].addr
          BY <2>8, <2>11
        <5>3. blocks[j].addr \in Nat /\ blocks[m].addr \in Nat
          BY <2>8, <2>11
        <5> QED
          BY <5>1, <5>2, <5>3, <2>12
      <4> QED
        BY <4>1, <2>9 DEF Bracket
    <3>2. p[2] - p[1] \in 0 .. n /\ p[2] - p[1] < k
      BY <2>3, <2>4, <2>8, <2>9, <1>0
    <3>3. f[p] \in 0 .. n /\ Bracket(f[p], f[p], addr)
      BY <2>6, <2>8, <3>1, <3>2
    <3> QED
      BY <3>3, <2>3, <2>10, <2>12
  <2>13. CASE ~(blocks[m].addr < addr)
    <3>1. Bracket(q[1], q[2], addr)
      <4>1. ASSUME NEW j \in 1 .. n
            PROVE  /\ j <= r[1] => blocks[j].addr < addr
                   /\ j > Mid(r) => blocks[j].addr >= addr
        <5>1. j <= r[1] => blocks[j].addr < addr
          BY <2>3 DEF Bracket
        <5>2. j > Mid(r) => m <= j
          BY <2>8
        <5>3. m <= j => blocks[m].addr <= blocks[j].addr
          BY <2>8, <2>11
        <5>4. blocks[j].addr \in Nat /\ blocks[m].addr \in Nat
          BY <2>8, <2>11
        <5> QED
          BY <5>1, <5>2, <5>3, <5>4, <2>13
      <4> QED
        BY <4>1, <2>9 DEF Bracket
    <3>2. q[2] - q[1] \in 0 .. n /\ q[2] - q[1] < k
      BY <2>3, <2>4, <2>8, <2>9, <1>0, SMTT(30)
    <3>3. f[q] \in 0 .. n /\ Bracket(f[q], f[q], addr)
      BY <2>6, <2>8, <3>1, <3>2
    <3> QED
      BY <3>3, <2>3, <2>10, <2>13
  <2> QED
    BY <2>12, <2>13
<1>2. <<0, n>> \in Bounds /\ <<0, n>>[2] - <<0, n>>[1] = n /\ n \in 0 .. n
  BY <1>0 DEF Bounds
<1>3. Bracket(0, n, addr)
  BY <1>0 DEF Bracket
<1> DEFINE r == <<0, n>>
<1>4. Bracket(r[1], r[2], addr) /\ r \in Bounds /\ r[2] - r[1] \in 0 .. n
  BY <1>2, <1>3
<1> HIDE DEF r
<1>5. f[r] \in 0 .. n /\ Bracket(f[r], f[r], addr)
  BY <1>1, <1>4 DEF Lost
<1> QED
  BY <1>5 DEF r

(* The search is exact.                                                    *)
LEMMA FindIs ==
  ASSUME IInv, NEW a \in Addresses
  PROVE  /\ sa_find(a) \in 0 .. Len(blocks)
         /\ LET hits == {i \in DOMAIN blocks : blocks[i].addr = a}
            IN  sa_find(a) = IF hits = {} THEN 0 ELSE Min(hits)
<1> DEFINE n == Len(blocks)
           k == Bisection(a)[<<0, n>>]
           hits == {i \in DOMAIN blocks : blocks[i].addr = a}
<1>0. blocks \in Seq(Block) /\ n \in Nat /\ TableSorted /\ a \in Nat
  BY ConstFacts DEF IInv, Addresses
<1>1. k \in 0 .. n /\ Bracket(k, k, a)
  BY <1>0, BisectFinds
<1>2. sa_find(a) = IF k + 1 <= n /\ blocks[k + 1].addr = a THEN k + 1 ELSE 0
  BY DEF sa_find
<1> HIDE DEF k
<1>3. ASSUME NEW j \in hits PROVE j = k + 1
  <2>1. j \in 1 .. n /\ blocks[j].addr = a
    BY <1>0
  <2>2. ~(j <= k)
    <3>1. j <= k => blocks[j].addr < a
      BY <1>1, <2>1 DEF Bracket
    <3> QED
      BY <3>1, <2>1, <1>0
  <2>3. CASE j > k + 1
    <3>1. k + 1 \in 1 .. n /\ k + 1 > k
      BY <2>1, <2>3, <1>0, <1>1
    <3>2. blocks[k + 1].addr >= a
      BY <3>1, <1>1 DEF Bracket
    <3>3. blocks[k + 1].addr \in Nat /\ blocks[k + 1].size \in Nat \ {0}
      BY <3>1, <1>0, BlockFacts
    <3>4. Stop(blocks[k + 1]) <= blocks[j].addr
      BY <3>1, <2>1, <2>3, <1>0 DEF TableSorted
    <3> QED
      BY <3>2, <3>3, <3>4, <2>1, <1>0 DEF Stop
  <2> QED
    BY <2>1, <2>2, <2>3, <1>1
<1>4. CASE hits = {}
  <2>1. sa_find(a) = 0
    <3>1. k + 1 <= n => k + 1 \in DOMAIN blocks
      BY <1>0, <1>1
    <3> QED
      BY <3>1, <1>2, <1>4
  <2> QED
    BY <2>1, <1>4, <1>0
<1>5. CASE hits # {}
  <2>1. k + 1 \in hits
    BY <1>3, <1>5
  <2>2. k + 1 \in 1 .. n /\ blocks[k + 1].addr = a
    BY <2>1, <1>0
  <2>3. hits \subseteq Nat
    BY <1>0
  <2>4. \A j \in hits : k + 1 <= j
    <3>1. k + 1 <= k + 1
      BY <1>1
    <3> HIDE DEF hits
    <3> QED
      BY <3>1, <1>3
  <2> HIDE DEF hits
  <2>5. Min(hits) = k + 1
    BY <2>1, <2>3, <2>4, MinIs
  <2>6. sa_find(a) = k + 1
    BY <1>2, <2>2
  <2> QED
    BY <2>2, <2>5, <2>6, <1>0, <1>5 DEF hits
<1> QED
  BY <1>4, <1>5

(* A block freed takes its granules out of the count.                      *)
LEMMA RemoveInv ==
  ASSUME IInv, NEW i \in 1 .. Len(blocks),
         used' = used - blocks[i].size, blocks' = RemoveAt(blocks, i)
  PROVE  IInv'
<1> DEFINE n == Len(blocks)
           run == blocks[i].addr .. Stop(blocks[i]) - 1
<1>0. blocks \in Seq(Block) /\ TableSorted /\ n \in Nat /\ used = Cardinality(Covered)
      /\ i \in 1 .. n
  BY DEF IInv
<1>1. /\ blocks[i].addr \in Nat /\ blocks[i].size \in Nat \ {0}
      /\ Stop(blocks[i]) = blocks[i].addr + blocks[i].size
      /\ Base <= blocks[i].addr /\ Stop(blocks[i]) <= End
  BY <1>0, BlockFacts
<1>2. /\ blocks' \in Seq(Block) /\ Len(blocks') = n - 1
      /\ \A k \in 1 .. n - 1 : blocks'[k] = IF k < i THEN blocks[k] ELSE blocks[k + 1]
  BY <1>0, RemoveFacts
<1>3. ASSUME NEW k \in 1 .. n - 1
      PROVE  \E j \in 1 .. n : /\ blocks'[k] = blocks[j] /\ j # i
                               /\ j = IF k < i THEN k ELSE k + 1
  <2> HIDE DEF n
  <2>1. CASE k < i
    <3>1. k \in 1 .. n /\ blocks'[k] = blocks[k] /\ k # i
      BY <2>1, <1>0, <1>2
    <3> QED
      BY <3>1, <2>1
  <2>2. CASE ~(k < i)
    <3>1. k + 1 \in 1 .. n /\ blocks'[k] = blocks[k + 1] /\ k + 1 # i
      BY <2>2, <1>0, <1>2
    <3> QED
      BY <3>1, <2>2
  <2> QED
    BY <2>1, <2>2
<1>4. TableSorted'
  <2>1. ASSUME NEW k \in 1 .. n - 1
        PROVE  Base <= blocks'[k].addr /\ Stop(blocks'[k]) <= End
    BY <1>0, <1>3, BlockFacts
  <2>2. ASSUME NEW k \in 1 .. n - 1, NEW l \in 1 .. n - 1, k < l
        PROVE  Stop(blocks'[k]) <= blocks'[l].addr
    <3>1. PICK j \in 1 .. n : blocks'[k] = blocks[j] /\ j = IF k < i THEN k ELSE k + 1
      BY <1>3
    <3>2. PICK m \in 1 .. n : blocks'[l] = blocks[m] /\ m = IF l < i THEN l ELSE l + 1
      BY <1>3
    <3>3. j < m
      BY <3>1, <3>2, <2>2, <1>0
    <3> QED
      BY <3>1, <3>2, <3>3, <1>0, Ordered
  <2>3. DOMAIN blocks' = 1 .. n - 1
    BY <1>0, <1>2
  <2> QED
    BY <2>1, <2>2, <2>3 DEF TableSorted
<1>5. Covered = Granules(blocks) /\ Covered' = Granules(blocks')
  BY <1>0, <1>2, GranulesAre DEF Covered, FreeRun
<1>6. \A g \in Base .. End - 1 : g \in Covered' <=> g \in Covered /\ g \notin run
  <2> SUFFICES ASSUME NEW g \in Base .. End - 1
               PROVE  g \in Covered' <=> g \in Covered /\ g \notin run
    OBVIOUS
  <2>0. g \in Nat /\ g \in Int
    BY ConstFacts
  <2>1. g \in Covered <=> \E k \in 1 .. n : blocks[k].addr <= g /\ g < Stop(blocks[k])
    BY <1>5 DEF Granules
  <2>2. g \in Covered' <=> \E k \in 1 .. n - 1 : blocks'[k].addr <= g /\ g < Stop(blocks'[k])
    BY <1>5, <1>2 DEF Granules
  <2>3. ASSUME NEW k \in 1 .. n - 1, blocks'[k].addr <= g, g < Stop(blocks'[k])
        PROVE  g \in Covered /\ g \notin run
    <3>1. PICK j \in 1 .. n : blocks'[k] = blocks[j] /\ j # i
      BY <1>3
    <3>2. g \in Covered
      BY <3>1, <2>1, <2>3
    <3>3. /\ blocks[j].addr \in Nat /\ Stop(blocks[j]) \in Nat
          /\ blocks[i].addr \in Nat /\ Stop(blocks[i]) \in Nat
      BY <1>0, BlockFacts
    <3>4. Stop(blocks[j]) <= blocks[i].addr \/ Stop(blocks[i]) <= blocks[j].addr
      <4>1. j < i \/ i < j
        BY <3>1, <1>0
      <4> QED
        BY <4>1, <1>0, Ordered
    <3> QED
      BY <3>1, <3>2, <3>3, <3>4, <2>3, <2>0
  <2>4. ASSUME g \in Covered, g \notin run PROVE g \in Covered'
    <3>1. PICK j \in 1 .. n : blocks[j].addr <= g /\ g < Stop(blocks[j])
      BY <2>1, <2>4
    <3>2. j # i
      BY <3>1, <2>4, <2>0, <1>1
    <3>3. \E k \in 1 .. n - 1 : blocks'[k] = blocks[j]
      <4> HIDE DEF n
      <4>1. CASE j < i
        <5>1. j \in 1 .. n - 1 /\ blocks'[j] = blocks[j]
          BY <4>1, <1>0, <1>2
        <5> QED
          BY <5>1
      <4>2. CASE j > i
        <5>1. j - 1 \in 1 .. n - 1 /\ ~(j - 1 < i) /\ j - 1 + 1 = j
          BY <4>2, <1>0
        <5>2. blocks'[j - 1] = blocks[j - 1 + 1]
          BY <5>1, <1>2
        <5> QED
          BY <5>1, <5>2
      <4> QED
        BY <4>1, <4>2, <3>2, <1>0
    <3> QED
      BY <3>1, <3>3, <2>2
  <2> QED
    BY <2>2, <2>3, <2>4
<1>7. Covered' = Covered \ run
  <2>1. Covered \subseteq Base .. End - 1 /\ Covered' \subseteq Base .. End - 1
    BY DEF Covered, Addresses
  <2> QED
    BY <2>1, <1>6
<1>8. Covered \cap run = run
  <2> SUFFICES ASSUME NEW g \in run PROVE g \in Covered
    OBVIOUS
  <2>1. g \in Base .. End - 1 /\ blocks[i].addr <= g /\ g < Stop(blocks[i])
    BY <1>1, ConstFacts
  <2> QED
    BY <2>1, <1>0, <1>5 DEF Granules
<1>9. used' = Cardinality(Covered')
  <2>1. run = blocks[i].addr .. blocks[i].addr + blocks[i].size - 1
    BY <1>1
  <2>2. IsFiniteSet(run) /\ Cardinality(run) = blocks[i].size
    BY <2>1, <1>1, RangeCount
  <2> HIDE DEF run
  <2>3. Cardinality(Covered \ run) = Cardinality(Covered) - Cardinality(Covered \cap run)
    BY CoveredFinite, FS_Difference
  <2> QED
    BY <2>2, <2>3, <1>0, <1>7, <1>8
<1> QED
  BY <1>2, <1>4, <1>9 DEF IInv

-----------------------------------------------------------------------------
(* Alignment *)

LEMMA ModDef ==
  ASSUME NEW d \in Nat \ {0}, NEW x \in Int
  PROVE  x % d \in 0 .. d - 1 /\ x \div d \in Int /\ x = d * (x \div d) + (x % d)
OBVIOUS

LEMMA MulBounds ==
  ASSUME NEW d \in Nat \ {0}, NEW q \in Int
  PROVE  /\ d * q \in Int /\ (q = 0 => d * q = 0)
         /\ (q >= 1 => d * q >= d) /\ (q <= -1 => d * q <= -d)
OBVIOUS

(* The remainder is the only one: d * q + r has remainder r.               *)
LEMMA ModUnique ==
  ASSUME NEW d \in Nat \ {0}, NEW q \in Int, NEW r \in 0 .. d - 1
  PROVE  (d * q + r) % d = r
<1> DEFINE x == d * q + r
           p == x \div d
           s == x % d
<1>1. d * q \in Int /\ x \in Int
  OBVIOUS
<1>2. p \in Int /\ s \in 0 .. d - 1 /\ x = d * p + s /\ d * p \in Int
  BY <1>1, ModDef
<1>3. d * (q - p) = d * q - d * p
  BY <1>2
<1>4. d * (q - p) = s - r
  <2> HIDE DEF x, p, s
  <2> QED
    BY <1>1, <1>2, <1>3 DEF x
<1>5. q - p \in Int
  BY <1>2
<1>6. q - p = 0
  <2> HIDE DEF p, s
  <2> QED
    BY <1>2, <1>4, <1>5, MulBounds
<1> HIDE DEF p, s
<1>7. s = r
  BY <1>2, <1>4, <1>6, MulBounds
<1> QED
  BY <1>7 DEF s

LEMMA ModSmall ==
  ASSUME NEW d \in Nat \ {0}, NEW x \in 0 .. d - 1
  PROVE  x % d = x
<1>1. (d * 0 + x) % d = x
  BY ModUnique
<1>2. d * 0 + x = x
  OBVIOUS
<1> QED
  BY <1>1, <1>2

LEMMA ModWhole ==
  ASSUME NEW d \in Nat \ {0}
  PROVE  d % d = 0
<1>1. (d * 1 + 0) % d = 0
  BY ModUnique
<1>2. d * 1 + 0 = d
  OBVIOUS
<1> QED
  BY <1>1, <1>2

(* Without overflow sa_align_up is the least multiple that is no smaller.  *)
LEMMA AlignUp ==
  ASSUME NEW v \in Nat, NEW al \in Nat \ {0}
  PROVE  LET c == ((v + al - 1) \div al) * al
         IN  /\ c \in Nat /\ v <= c /\ c <= v + al - 1 /\ c % al = 0
             /\ \A a \in Nat : a % al = 0 /\ v <= a => c <= a
<1> DEFINE x == v + al - 1
           q == x \div al
           r == x % al
           c == q * al
<1>1. x \in Nat
  OBVIOUS
<1>2. q \in Int /\ r \in 0 .. al - 1 /\ x = al * q + r /\ al * q \in Int
  BY <1>1, ModDef
<1> HIDE DEF q, r
<1>3. c = al * q
  BY <1>2
<1>4. c \in Int /\ v <= c /\ c <= x
  <2> HIDE DEF c
  <2> QED
    BY <1>2, <1>3
<1>5. c % al = 0
  <2>0. 0 \in 0 .. al - 1
    OBVIOUS
  <2> HIDE DEF c
  <2>1. (al * q + 0) % al = 0
    BY <1>2, <2>0, ModUnique
  <2>2. al * q + 0 = c
    BY <1>3, <1>4
  <2> QED
    BY <2>1, <2>2
<1>6. ASSUME NEW a \in Nat, a % al = 0, v <= a PROVE c <= a
  <2> SUFFICES ASSUME a < c PROVE FALSE
    BY <1>4
  <2> DEFINE p == a \div al
  <2>1. p \in Int /\ a = al * p + (a % al) /\ al * p \in Int
    BY ModDef
  <2> HIDE DEF p
  <2>2. a = al * p
    BY <2>1, <1>6
  <2>3. al * (q - p) = al * q - al * p /\ q - p \in Int
    BY <1>2, <2>1
  <2> HIDE DEF c
  <2>4. al * (q - p) = c - a
    BY <2>2, <2>3, <1>3
  <2>5. al * (q - p) >= al
    BY <2>3, <2>4, <1>4, MulBounds
  <2> QED
    BY <2>4, <2>5, <1>4, <1>6
<1> QED
  BY <1>1, <1>4, <1>5, <1>6 DEF q

LEMMA AlignUpFacts ==
  ASSUME NEW v \in Nat, NEW al \in Nat \ {0}
  PROVE  /\ sa_align_up(v, al) \in 0 .. Word
         /\ v + al - 1 >= Word => sa_align_up(v, al) = 0
         /\ v + al - 1 < Word => /\ v <= sa_align_up(v, al) /\ sa_align_up(v, al) % al = 0
                                 /\ \A a \in Nat : a % al = 0 /\ v <= a => sa_align_up(v, al) <= a
         /\ 0 < v /\ sa_align_up(v, al) # 0 => al <= sa_align_up(v, al)
<1> DEFINE c == ((v + al - 1) \div al) * al
<1>1. /\ c \in Nat /\ v <= c /\ c <= v + al - 1 /\ c % al = 0
      /\ \A a \in Nat : a % al = 0 /\ v <= a => c <= a
  BY AlignUp
<1>2. sa_align_up(v, al) = IF v + al - 1 >= Word THEN 0 ELSE c
  BY DEF sa_align_up
<1> HIDE DEF c
<1>3. 0 < v => al <= c
  <2> SUFFICES ASSUME 0 < v, c < al PROVE FALSE
    BY <1>1
  <2>1. c \in 0 .. al - 1
    BY <1>1
  <2>2. c = 0
    BY <2>1, <1>1, ModSmall
  <2> QED
    BY <2>2, <1>1
<1>4. CASE v + al - 1 >= Word
  BY <1>2, <1>4, ConstFacts
<1>5. CASE v + al - 1 < Word
  <2>1. ~(v + al - 1 >= Word) /\ c \in 0 .. Word
    BY <1>1, <1>5, ConstFacts
  <2>2. sa_align_up(v, al) = c
    BY <1>2, <2>1
  <2> QED
    BY <1>1, <1>3, <2>1, <2>2
<1>6. v + al - 1 \in Nat
  OBVIOUS
<1> QED
  BY <1>4, <1>5, <1>6, ConstFacts

(* Where a window has a multiple of the alignment at all, rounding up does *)
(* not overflow: the heap lies in the lower half of the address space.     *)
LEMMA NoOverflow ==
  ASSUME NEW v \in Nat, NEW al \in Nat \ {0}, v <= End,
         NEW a \in Nat, a % al = 0, v <= a, 0 < a, a < End
  PROVE  v + al - 1 < Word
<1>1. al <= a
  <2> SUFFICES ASSUME a < al PROVE FALSE
    OBVIOUS
  <2>1. a \in 0 .. al - 1
    OBVIOUS
  <2> QED
    BY <2>1, ModSmall
<1> QED
  BY <1>1, ConstFacts

LEMMA AlignOne ==
  ASSUME NEW v \in Nat, v <= End
  PROVE  sa_align_up(v, 1) = v
<1> DEFINE c == ((v + 1 - 1) \div 1) * 1
<1>1. c \in Nat /\ v <= c /\ c <= v + 1 - 1
  BY AlignUp
<1>2. sa_align_up(v, 1) = IF v + 1 - 1 >= Word THEN 0 ELSE c
  BY DEF sa_align_up
<1> HIDE DEF c
<1> QED
  BY <1>1, <1>2, ConstFacts

-----------------------------------------------------------------------------
(* Gaps: before block i, from the end of the block before it.              *)

GapStart(i) == IF i = 1 THEN Base ELSE Stop(blocks[i - 1])
GapEnd(i) == IF i > Len(blocks) THEN End ELSE blocks[i].addr

LEMMA GapFacts ==
  ASSUME blocks \in Seq(Block), TableSorted, NEW i \in 1 .. Len(blocks) + 1
  PROVE  /\ GapStart(i) \in Nat /\ GapEnd(i) \in Nat
         /\ Base <= GapStart(i) /\ GapStart(i) <= GapEnd(i) /\ GapEnd(i) <= End
         /\ (GapEnd(i) - GapStart(i)) % Word = GapEnd(i) - GapStart(i)
<1>0. Len(blocks) \in Nat
  OBVIOUS
<1>1. /\ GapStart(i) \in Nat /\ GapEnd(i) \in Nat
      /\ Base <= GapStart(i) /\ GapStart(i) <= GapEnd(i) /\ GapEnd(i) <= End
  <2>1. CASE i = 1 /\ i > Len(blocks)
    BY <2>1, ConstFacts DEF GapStart, GapEnd
  <2>2. CASE i = 1 /\ i <= Len(blocks)
    BY <2>2, <1>0, ConstFacts, BlockFacts DEF GapStart, GapEnd
  <2>3. CASE i # 1 /\ i > Len(blocks)
    <3>1. i - 1 \in 1 .. Len(blocks)
      BY <2>3, <1>0
    <3> QED
      BY <2>3, <3>1, <1>0, ConstFacts, BlockFacts DEF GapStart, GapEnd
  <2>4. CASE i # 1 /\ i <= Len(blocks)
    <3>1. i - 1 \in 1 .. Len(blocks) /\ i \in 1 .. Len(blocks) /\ i - 1 < i
      BY <2>4, <1>0
    <3>2. Stop(blocks[i - 1]) <= blocks[i].addr
      BY <3>1, Ordered
    <3>3. Stop(blocks[i - 1]) \in Nat /\ Base < Stop(blocks[i - 1])
      BY <3>1, BlockFacts, ConstFacts
    <3>4. blocks[i].addr \in Nat /\ blocks[i].addr <= End
      BY <3>1, BlockFacts, ConstFacts
    <3> QED
      BY <2>4, <3>2, <3>3, <3>4, ConstFacts DEF GapStart, GapEnd
  <2> QED
    BY <2>1, <2>2, <2>3, <2>4, <1>0
<1>2. GapEnd(i) - GapStart(i) \in 0 .. Word - 1 /\ Word \in Nat \ {0}
  BY <1>1, ConstFacts
<1> QED
  BY <1>1, <1>2, ModSmall

(* What lies in a gap is free,                                             *)
LEMMA GapFree ==
  ASSUME blocks \in Seq(Block), TableSorted, NEW i \in 1 .. Len(blocks) + 1,
         NEW a \in Nat, NEW size \in Nat,
         i > 1 => Stop(blocks[i - 1]) <= a, i <= Len(blocks) => a + size <= blocks[i].addr
  PROVE  FreeRun(a, size)
<1> SUFFICES ASSUME NEW k \in 1 .. Len(blocks)
             PROVE  Stop(blocks[k]) <= a \/ a + size <= blocks[k].addr
  BY DEF FreeRun
<1>0. Len(blocks) \in Nat
  OBVIOUS
<1>1. Stop(blocks[k]) \in Nat /\ blocks[k].addr \in Nat
  BY BlockFacts
<1>2. CASE k < i
  <2>1. i - 1 \in 1 .. Len(blocks) /\ k <= i - 1
    BY <1>0, <1>2
  <2>2. Stop(blocks[k]) <= Stop(blocks[i - 1]) /\ Stop(blocks[i - 1]) \in Nat
    BY <2>1, EndsBelow, BlockFacts
  <2>3. Stop(blocks[i - 1]) <= a
    BY <2>1, <1>2
  <2> QED
    BY <1>1, <2>2, <2>3
<1>3. CASE i <= k
  <2>1. i \in 1 .. Len(blocks)
    BY <1>0, <1>3
  <2>2. blocks[i].addr <= blocks[k].addr /\ blocks[i].addr \in Nat
    BY <2>1, <1>3, EndsBelow, BlockFacts
  <2>3. a + size <= blocks[i].addr
    BY <2>1
  <2> QED
    BY <1>1, <2>2, <2>3
<1> QED
  BY <1>0, <1>2, <1>3

(* and what is free lies in a gap.                                         *)
LEMMA FreeInGap ==
  ASSUME blocks \in Seq(Block), TableSorted, NEW a \in Nat, NEW size \in Nat \ {0},
         Base <= a, a + size <= End, FreeRun(a, size)
  PROVE  \E i \in 1 .. Len(blocks) + 1 : GapStart(i) <= a /\ a + size <= GapEnd(i)
<1> DEFINE T == {j \in 1 .. Len(blocks) : a + size <= blocks[j].addr} \cup {Len(blocks) + 1}
<1>0. Len(blocks) \in Nat
  OBVIOUS
<1>1. T \subseteq Nat /\ T # {}
  BY <1>0
<1>2. PICK i \in T : \A y \in T : i <= y
  <2> HIDE DEF T
  <2> QED
    BY <1>1, LeastNat
<1>3. i \in 1 .. Len(blocks) + 1
  BY <1>0
<1>4. a + size <= GapEnd(i)
  <2>1. i = Len(blocks) + 1 \/ (i <= Len(blocks) /\ a + size <= blocks[i].addr)
    BY <1>0
  <2> QED
    BY <2>1, <1>0 DEF GapEnd
<1>5. GapStart(i) <= a
  <2>1. CASE i = 1
    BY <2>1 DEF GapStart
  <2>2. CASE i # 1
    <3>1. i - 1 \in 1 .. Len(blocks) /\ ~(i <= i - 1)
      BY <1>0, <1>3, <2>2
    <3>2. ~(a + size <= blocks[i - 1].addr)
      BY <1>2, <3>1
    <3>3. Stop(blocks[i - 1]) <= a
      BY <3>1, <3>2 DEF FreeRun
    <3> QED
      BY <2>2, <3>3 DEF GapStart
  <2> QED
    BY <2>1, <2>2
<1> QED
  BY <1>3, <1>4, <1>5

LEMMA LowestIs ==
  ASSUME NEW lo \in Nat, NEW hi \in Nat, hi <= End, NEW size \in Nat, NEW al \in Nat \ {0},
         NEW c \in lo .. hi - size, c % al = 0, FreeRun(c, size),
         \A a \in lo .. hi - size : a % al = 0 /\ FreeRun(a, size) => c <= a
  PROVE  LowestFit(size, al, lo, hi) = c
<1> DEFINE T == {a \in lo .. hi - size : a % al = 0 /\ FreeRun(a, size)} \cup {Word}
<1>1. T \subseteq Nat /\ c \in T /\ c \in 0 .. Word - 1
  BY ConstFacts
<1>2. \A y \in T : c <= y
  BY ConstFacts
<1>3. LowestFit(size, al, lo, hi) = Min(T) % Word
  BY DEF LowestFit
<1> HIDE DEF T
<1>4. Min(T) = c
  BY <1>1, <1>2, MinIs
<1> QED
  BY <1>1, <1>3, <1>4, ModSmall, ConstFacts

LEMMA LowestNone ==
  ASSUME NEW lo \in Nat, NEW hi \in Nat, NEW size \in Nat, NEW al \in Nat \ {0},
         \A a \in lo .. hi - size : ~(a % al = 0 /\ FreeRun(a, size))
  PROVE  LowestFit(size, al, lo, hi) = 0
<1> DEFINE T == {a \in lo .. hi - size : a % al = 0 /\ FreeRun(a, size)} \cup {Word}
<1>1. T = {Word}
  OBVIOUS
<1>2. LowestFit(size, al, lo, hi) = Min(T) % Word
  BY DEF LowestFit
<1> HIDE DEF T
<1>3. T \subseteq Nat /\ Word \in T /\ \A y \in T : Word <= y
  BY <1>1, ConstFacts
<1>4. Min(T) = Word
  BY <1>3, MinIs
<1>5. Word % Word = 0
  BY ModWhole, ConstFacts
<1> QED
  BY <1>2, <1>4, <1>5

-----------------------------------------------------------------------------
(* surface_allocator_alloc_aligned at its natural alignment *)

(* A place is where a block of that size may be entered, or NoPlace where  *)
(* the window has none; it is the lowest.                                  *)
IsPlace(p, size, al, lo, hi) ==
  IF p.addr = 0
  THEN \A a \in lo .. hi - size : ~(a % al = 0 /\ FreeRun(a, size))
  ELSE /\ p.at \in 1 .. Len(blocks) + 1
       /\ p.addr \in lo .. hi - size /\ p.addr % al = 0
       /\ p.at > 1 => Stop(blocks[p.at - 1]) <= p.addr
       /\ p.at <= Len(blocks) => p.addr + size <= blocks[p.at].addr
       /\ \A a \in lo .. hi - size : a % al = 0 /\ FreeRun(a, size) => p.addr <= a

LEMMA PlaceIsLowest ==
  ASSUME blocks \in Seq(Block), TableSorted,
         NEW lo \in Nat, NEW hi \in Nat, hi <= End, NEW size \in Nat, NEW al \in Nat \ {0},
         NEW p, IsPlace(p, size, al, lo, hi)
  PROVE  p.addr = LowestFit(size, al, lo, hi)
<1>1. CASE p.addr = 0
  BY <1>1, LowestNone DEF IsPlace
<1>2. CASE p.addr # 0
  <2>1. /\ p.at \in 1 .. Len(blocks) + 1
        /\ p.addr \in lo .. hi - size /\ p.addr % al = 0 /\ p.addr \in Nat
        /\ p.at > 1 => Stop(blocks[p.at - 1]) <= p.addr
        /\ p.at <= Len(blocks) => p.addr + size <= blocks[p.at].addr
        /\ \A a \in lo .. hi - size : a % al = 0 /\ FreeRun(a, size) => p.addr <= a
    BY <1>2 DEF IsPlace
  <2>2. FreeRun(p.addr, size)
    BY <2>1, GapFree
  <2> QED
    BY <2>1, <2>2, LowestIs
<1> QED
  BY <1>1, <1>2

LEMMA AlignedPlaceIs ==
  ASSUME blocks \in Seq(Block), TableSorted, NEW size \in Nat \ {0}
  PROVE  IsPlace(AlignedPlace(size, 1), size, 1, Base, End)
<1> DEFINE n == Len(blocks)
           T == {i \in 1 .. n : GapEnd(i) - GapStart(i) >= size} \cup {n + 1}
           at == Min(T)
           c == GapStart(at)
<1>0. n \in Nat /\ DOMAIN blocks = 1 .. n
  OBVIOUS
<1>1. ASSUME NEW i \in 1 .. n + 1
      PROVE  Candidate(i, 1) = GapStart(i)
  <2>1. GapStart(i) \in Nat /\ GapStart(i) <= End
    BY GapFacts, ConstFacts
  <2>2. sa_align_up(GapStart(i), 1) = GapStart(i)
    BY <2>1, AlignOne
  <2> QED
    BY <2>2 DEF Candidate, GapStart
<1>2. ASSUME NEW i \in 1 .. n
      PROVE  (blocks[i].addr - Candidate(i, 1)) % Word = GapEnd(i) - GapStart(i)
  <2>1. GapEnd(i) = blocks[i].addr /\ i \in 1 .. n + 1
    BY <1>0 DEF GapEnd
  <2> QED
    BY <2>1, <1>1, GapFacts
<1>3. {i \in DOMAIN blocks : (blocks[i].addr - Candidate(i, 1)) % Word >= size} \cup {n + 1} = T
  BY <1>0, <1>2
<1>4. T \subseteq Nat /\ T # {} /\ T \subseteq 1 .. n + 1
  BY <1>0
<1>5. at \in T /\ \A y \in T : at <= y
  <2> HIDE DEF T
  <2> QED
    BY <1>4, MinNat
<1>6. at \in 1 .. n + 1
  BY <1>4, <1>5
<1>7. AlignedPlace(size, 1) =
        IF c < Base \/ c > End \/ size > End - c THEN NoPlace ELSE [at |-> at, addr |-> c]
  BY <1>1, <1>3, <1>6 DEF AlignedPlace
<1>8. at <= n => GapEnd(at) - GapStart(at) >= size
  BY <1>0, <1>5
<1>9. /\ c \in Nat /\ Base <= c /\ c <= GapEnd(at) /\ GapEnd(at) \in Nat /\ GapEnd(at) <= End
      /\ 0 < Base /\ Base \in Nat /\ End \in Nat
  BY <1>6, GapFacts, ConstFacts
<1>10. ASSUME NEW a \in Base .. End - size, FreeRun(a, size)
       PROVE  c <= a
  <2>1. a \in Nat /\ Base <= a /\ a + size <= End
    BY <1>9
  <2>2. PICK i \in 1 .. n + 1 : GapStart(i) <= a /\ a + size <= GapEnd(i)
    BY <2>1, <1>10, FreeInGap
  <2>3. GapStart(i) \in Nat /\ GapEnd(i) \in Nat
    BY GapFacts
  <2>4. at <= i
    <3>1. i \in T
      BY <2>1, <2>2, <2>3, <1>0
    <3> HIDE DEF T
    <3> QED
      BY <3>1, <1>5
  <2> HIDE DEF T, at, c
  <2>5. CASE at = i
    BY <2>2, <2>5 DEF c
  <2>6. CASE at < i
    <3>1. i # 1 /\ i - 1 \in 1 .. n /\ GapStart(i) = Stop(blocks[i - 1]) /\ at \in 1 .. n /\ at <= i - 1
      BY <2>6, <1>0, <1>6 DEF GapStart
    <3>2. c <= blocks[at].addr /\ blocks[at].addr < Stop(blocks[at])
      BY <3>1, <1>0, <1>9, BlockFacts DEF GapEnd
    <3>3. Stop(blocks[at]) <= Stop(blocks[i - 1])
      BY <3>1, EndsBelow
    <3>4. blocks[at].addr \in Nat /\ Stop(blocks[at]) \in Nat /\ Stop(blocks[i - 1]) \in Nat
      BY <3>1, BlockFacts
    <3> QED
      BY <2>1, <2>2, <3>1, <3>2, <3>3, <3>4, <1>9
  <2> QED
    BY <2>4, <2>5, <2>6, <1>6
<1>11. at > 1 => Stop(blocks[at - 1]) <= c
  <2> HIDE DEF T, at
  <2>1. at > 1 => c = Stop(blocks[at - 1])
    BY <1>6 DEF GapStart
  <2> QED
    BY <2>1, <1>9
<1> HIDE DEF T, at, c
<1>12. \A a \in Int : a % 1 = 0
  OBVIOUS
<1>13. CASE c < Base \/ c > End \/ size > End - c
  <2>1. AlignedPlace(size, 1).addr = 0
    BY <1>7, <1>13 DEF NoPlace
  <2>2. ASSUME NEW a \in Base .. End - size, FreeRun(a, size) PROVE FALSE
    BY <2>2, <1>9, <1>10, <1>13
  <2> QED
    BY <2>1, <2>2 DEF IsPlace
<1>14. CASE ~(c < Base \/ c > End \/ size > End - c)
  <2>1. AlignedPlace(size, 1) = [at |-> at, addr |-> c]
    BY <1>7, <1>14
  <2>2. c # 0 /\ c \in Base .. End - size /\ c % 1 = 0
    BY <1>9, <1>12, <1>14
  <2>3. at <= n => c + size <= blocks[at].addr
    <3> SUFFICES ASSUME at <= n PROVE c + size <= blocks[at].addr
      OBVIOUS
    <3>1. GapEnd(at) = blocks[at].addr
      BY <1>0, <1>6 DEF GapEnd
    <3> QED
      BY <3>1, <1>8, <1>9 DEF c
  <2> QED
    BY <2>1, <2>2, <2>3, <1>6, <1>10, <1>11 DEF IsPlace
<1> QED
  BY <1>13, <1>14

-----------------------------------------------------------------------------
(* The walk of surface_allocator_alloc_range is a recursive function; that *)
(* there is one has to be shown, row by row from the end of the table.     *)

Rows == (1 .. Len(blocks) + 1) \X (0 .. Word)
Ends == [at : 1 .. Len(blocks) + 1, addr : 0 .. Word, found : BOOLEAN]

WalkStep(walk, size, al, hi, r) ==
  LET i == r[1]
      c == r[2]
      b == blocks[i]
      next == sa_align_up(Stop(b), al)
  IN  IF i > Len(blocks) \/ b.addr >= hi THEN [at |-> i, addr |-> c, found |-> FALSE]
      ELSE IF PassedOver(b, c) THEN walk[<<i + 1, c>>]
      ELSE IF b.addr >= c /\ b.addr - c >= size
        THEN [at |-> i, addr |-> c, found |-> TRUE]
      ELSE IF next < Stop(b) \/ next >= hi
        THEN [at |-> Len(blocks) + 1, addr |-> next, found |-> FALSE]
      ELSE walk[<<i + 1, next>>]

(* A step looks at the next row only.                                      *)
LEMMA WalkStepNext ==
  ASSUME blocks \in Seq(Block), NEW size, NEW al \in Nat \ {0}, NEW hi,
         NEW r \in Rows, NEW f \in [Rows -> Ends], NEW g,
         r[1] <= Len(blocks) => \A c \in 0 .. Word : f[<<r[1] + 1, c>>] = g[<<r[1] + 1, c>>]
  PROVE  /\ WalkStep(f, size, al, hi, r) = WalkStep(g, size, al, hi, r)
         /\ WalkStep(f, size, al, hi, r) \in Ends
<1> DEFINE i == r[1]
           c == r[2]
           next == sa_align_up(Stop(blocks[i]), al)
<1>0. Len(blocks) \in Nat /\ i \in 1 .. Len(blocks) + 1 /\ c \in 0 .. Word
  BY DEF Rows
<1>1. CASE i > Len(blocks)
  <2>1. /\ WalkStep(f, size, al, hi, r) = [at |-> i, addr |-> c, found |-> FALSE]
        /\ WalkStep(g, size, al, hi, r) = [at |-> i, addr |-> c, found |-> FALSE]
    BY <1>1 DEF WalkStep
  <2> HIDE DEF i, c
  <2> QED
    BY <2>1, <1>0 DEF Ends
<1>2. CASE i <= Len(blocks)
  <2>0. i \in 1 .. Len(blocks) /\ ~(i > Len(blocks))
    BY <1>0, <1>2
  <2>1. blocks[i] \in Block
    BY <2>0, ElementOfSeq
  <2>2. Stop(blocks[i]) \in Nat
    BY <2>1 DEF Block, Stop
  <2>3. next \in 0 .. Word
    BY <2>2, AlignUpFacts
  <2>4. ASSUME NEW d \in 0 .. Word
        PROVE  f[<<i + 1, d>>] = g[<<i + 1, d>>] /\ f[<<i + 1, d>>] \in Ends
    <3>1. <<i + 1, d>> \in Rows
      BY <1>0, <2>0 DEF Rows
    <3> QED
      BY <3>1, <1>2
  <2>5. /\ f[<<i + 1, c>>] = g[<<i + 1, c>>] /\ f[<<i + 1, c>>] \in Ends
        /\ f[<<i + 1, next>>] = g[<<i + 1, next>>] /\ f[<<i + 1, next>>] \in Ends
    BY <2>3, <2>4, <1>0
  <2>6. /\ [at |-> i, addr |-> c, found |-> FALSE] \in Ends
        /\ [at |-> i, addr |-> c, found |-> TRUE] \in Ends
        /\ [at |-> Len(blocks) + 1, addr |-> next, found |-> FALSE] \in Ends
    BY <1>0, <2>3 DEF Ends
  <2>7. \A w : WalkStep(w, size, al, hi, r) =
          IF blocks[i].addr >= hi THEN [at |-> i, addr |-> c, found |-> FALSE]
          ELSE IF PassedOver(blocks[i], c) THEN w[<<i + 1, c>>]
          ELSE IF blocks[i].addr >= c /\ blocks[i].addr - c >= size
            THEN [at |-> i, addr |-> c, found |-> TRUE]
          ELSE IF next < Stop(blocks[i]) \/ next >= hi
            THEN [at |-> Len(blocks) + 1, addr |-> next, found |-> FALSE]
          ELSE w[<<i + 1, next>>]
    BY <2>0 DEF WalkStep
  <2> HIDE DEF i, c, next
  <2> QED
    BY <2>5, <2>6, <2>7
<1> QED
  BY <1>0, <1>1, <1>2

(* A function that is right from row m down.                               *)
RightFrom(f, m, size, al, hi) ==
  \A r \in Rows : r[1] >= m => f[r] = WalkStep(f, size, al, hi, r)

LEMMA WalkExists ==
  ASSUME blocks \in Seq(Block), NEW size, NEW al \in Nat \ {0}, NEW hi
  PROVE  \E f \in [Rows -> Ends] : RightFrom(f, 1, size, al, hi)
<1> DEFINE n == Len(blocks)
           T == {k \in 0 .. n : ~\E f \in [Rows -> Ends] : RightFrom(f, n + 1 - k, size, al, hi)}
<1>0. n \in Nat
  OBVIOUS
<1>1. 0 \notin T
  <2> DEFINE f == [r \in Rows |-> [at |-> r[1], addr |-> r[2], found |-> FALSE]]
  <2>1. f \in [Rows -> Ends]
    BY DEF Rows, Ends
  <2>2. ASSUME NEW r \in Rows, r[1] >= n + 1 - 0
        PROVE  f[r] = WalkStep(f, size, al, hi, r)
    <3>1. r[1] > Len(blocks)
      BY <2>2, <1>0 DEF Rows
    <3>2. WalkStep(f, size, al, hi, r) = [at |-> r[1], addr |-> r[2], found |-> FALSE]
      BY <3>1 DEF WalkStep
    <3> QED
      BY <3>2
  <2> HIDE DEF f
  <2> QED
    BY <2>1, <2>2 DEF RightFrom
<1>2. ASSUME NEW k \in 0 .. n - 1, k \notin T PROVE k + 1 \notin T
  <2>1. PICK f \in [Rows -> Ends] : RightFrom(f, n + 1 - k, size, al, hi)
    BY <1>0, <1>2
  <2> DEFINE i == n - k
             h == [r \in Rows |-> IF r[1] = i THEN WalkStep(f, size, al, hi, r) ELSE f[r]]
  <2>2. i \in 1 .. n
    BY <1>0
  <2>3. \A r \in Rows : WalkStep(f, size, al, hi, r) \in Ends
    BY WalkStepNext
  <2>4. h \in [Rows -> Ends]
    BY <2>3
  <2>5. ASSUME NEW r \in Rows, r[1] >= i
        PROVE  h[r] = WalkStep(h, size, al, hi, r)
    <3>1. r[1] \in 1 .. n + 1
      BY DEF Rows
    <3>2. ASSUME NEW c \in 0 .. Word, r[1] <= n PROVE f[<<r[1] + 1, c>>] = h[<<r[1] + 1, c>>]
      <4>1. <<r[1] + 1, c>> \in Rows /\ <<r[1] + 1, c>>[1] = r[1] + 1
        BY <3>1, <3>2, <1>0 DEF Rows
      <4>2. r[1] + 1 # i
        BY <3>1, <2>2, <2>5
      <4> QED
        BY <4>1, <4>2
    <3>3. WalkStep(f, size, al, hi, r) = WalkStep(h, size, al, hi, r)
      <4> HIDE DEF h
      <4> QED
        BY <3>2, WalkStepNext
    <3>4. CASE r[1] = i
      <4>1. h[r] = WalkStep(f, size, al, hi, r)
        BY <3>4
      <4> QED
        BY <4>1, <3>3
    <3>5. CASE r[1] # i
      <4>1. h[r] = f[r]
        BY <3>5
      <4>2. r[1] >= n + 1 - k
        BY <3>1, <3>5, <2>2, <2>5, <1>0
      <4>3. f[r] = WalkStep(f, size, al, hi, r)
        BY <4>2, <2>1 DEF RightFrom
      <4> QED
        BY <4>1, <4>3, <3>3
    <3> QED
      BY <3>4, <3>5
  <2>6. RightFrom(h, i, size, al, hi)
    <3> HIDE DEF h, i
    <3> QED
      BY <2>5 DEF RightFrom
  <2>7. n + 1 - (k + 1) = i
    BY <1>0
  <2> HIDE DEF h, i
  <2> QED
    BY <2>4, <2>6, <2>7
<1>3. T = {}
  <2> SUFFICES ASSUME T # {} PROVE FALSE
    OBVIOUS
  <2>1. T \subseteq Nat
    OBVIOUS
  <2>2. PICK k \in T : \A y \in T : k <= y
    <3> HIDE DEF T
    <3> QED
      BY <2>1, LeastNat
  <2>3. k \in 0 .. n /\ k # 0
    <3>1. k \in 0 .. n
      OBVIOUS
    <3> HIDE DEF T
    <3> QED
      BY <3>1, <1>1
  <2>4. k - 1 \in 0 .. n - 1 /\ k - 1 + 1 = k
    BY <2>3, <1>0
  <2> HIDE DEF T
  <2>5. k - 1 \notin T
    BY <2>2, <2>3
  <2> QED
    BY <1>2, <2>4, <2>5
<1>4. \E f \in [Rows -> Ends] : RightFrom(f, n + 1 - n, size, al, hi)
  BY <1>0, <1>3
<1>5. n + 1 - n = 1
  BY <1>0
<1> QED
  BY <1>4, <1>5

LEMMA WalkIs ==
  ASSUME blocks \in Seq(Block), NEW size, NEW al \in Nat \ {0}, NEW hi, NEW r \in Rows
  PROVE  Walk(size, al, hi)[r] = WalkStep(Walk(size, al, hi), size, al, hi, r)
<1>1. PICK f \in [Rows -> Ends] : RightFrom(f, 1, size, al, hi)
  BY WalkExists
<1>2. \A q \in Rows : q[1] >= 1
  BY DEF Rows
<1>3. f = [q \in Rows |-> WalkStep(f, size, al, hi, q)]
  BY <1>1, <1>2 DEF RightFrom
<1>4. Walk(size, al, hi) = [q \in Rows |-> WalkStep(Walk(size, al, hi), size, al, hi, q)]
  BY <1>3 DEF Walk, WalkStep, Rows
<1> QED
  BY <1>4

(* The least multiple of the alignment that is no smaller than v.          *)
LeastMultiple(x, v, al) ==
  v <= x /\ x % al = 0 /\ \A a \in Nat : a % al = 0 /\ v <= a => x <= a

LEMMA AlignUpLeast ==
  ASSUME NEW v \in Nat, NEW al \in Nat \ {0}
  PROVE  /\ sa_align_up(v, al) \in 0 .. Word /\ sa_align_up(v, al) \in Nat
         /\ v + al - 1 >= Word => sa_align_up(v, al) = 0
         /\ v + al - 1 < Word => LeastMultiple(sa_align_up(v, al), v, al)
<1>1. sa_align_up(v, al) \in 0 .. Word
  BY AlignUpFacts
<1>2. sa_align_up(v, al) \in Nat
  BY <1>1, ConstFacts
<1> QED
  BY <1>1, <1>2, AlignUpFacts DEF LeastMultiple

(* What the walk knows when it comes to block i with candidate c: nothing  *)
(* below the candidate fits.                                               *)
Sofar(i, c, size, al, lo, hi) ==
  /\ lo <= c /\ c % al = 0
  /\ \A j \in 1 .. Len(blocks) : j < i => Stop(blocks[j]) <= c
  /\ \A a \in lo .. hi - size : a % al = 0 /\ FreeRun(a, size) => c <= a

(* What RangePlace makes of the end of a walk.                             *)
Fails(p, size, lo, hi) == ~p.found /\ (p.addr < lo \/ p.addr >= hi \/ hi - p.addr < size)
Answer(p, size, al, lo, hi) ==
  IF Fails(p, size, lo, hi)
  THEN \A a \in lo .. hi - size : ~(a % al = 0 /\ FreeRun(a, size))
  ELSE IsPlace(p, size, al, lo, hi)

(* A candidate that fits before block i, or after the last, is the answer. *)
LEMMA AnswerFits ==
  ASSUME blocks \in Seq(Block), TableSorted, NEW i \in 1 .. Len(blocks) + 1,
         NEW c \in 0 .. Word, NEW size \in Nat \ {0}, NEW al \in Nat \ {0},
         NEW lo \in Nat, NEW hi \in Nat, 0 < lo,
         Sofar(i, c, size, al, lo, hi), c + size <= hi,
         i <= Len(blocks) => c + size <= blocks[i].addr, NEW found \in BOOLEAN
  PROVE  Answer([at |-> i, addr |-> c, found |-> found], size, al, lo, hi)
<1> DEFINE p == [at |-> i, addr |-> c, found |-> found]
<1>0. Len(blocks) \in Nat /\ Word \in Nat
  BY ConstFacts
<1>1. c # 0 /\ c \in lo .. hi - size /\ c % al = 0 /\ ~(c < lo \/ c >= hi \/ hi - c < size)
  BY <1>0 DEF Sofar
<1>2. i > 1 => Stop(blocks[i - 1]) <= c
  <2> SUFFICES ASSUME i > 1 PROVE Stop(blocks[i - 1]) <= c
    OBVIOUS
  <2>1. i - 1 \in 1 .. Len(blocks) /\ i - 1 < i
    BY <1>0
  <2> QED
    BY <2>1 DEF Sofar
<1>3. IsPlace(p, size, al, lo, hi)
  BY <1>1, <1>2 DEF IsPlace, Sofar
<1>4. ~Fails(p, size, lo, hi)
  BY <1>1 DEF Fails
<1> QED
  BY <1>3, <1>4 DEF Answer

(* A candidate too close to the window's end ends the walk in vain.        *)
LEMMA AnswerVoid ==
  ASSUME NEW i, NEW c \in Nat, NEW size \in Nat \ {0}, NEW al \in Nat \ {0},
         NEW lo \in Nat, NEW hi \in Nat, 0 < lo,
         \A a \in lo .. hi - size : a % al = 0 /\ FreeRun(a, size) => c <= a,
         c + size > hi
  PROVE  Answer([at |-> i, addr |-> c, found |-> FALSE], size, al, lo, hi)
<1>1. Fails([at |-> i, addr |-> c, found |-> FALSE], size, lo, hi)
  BY DEF Fails
<1>2. ASSUME NEW a \in lo .. hi - size, a % al = 0, FreeRun(a, size) PROVE FALSE
  BY <1>2
<1> QED
  BY <1>1, <1>2 DEF Answer

Goes(i, c, size, al, lo, hi) ==
  \/ Answer(Walk(size, al, hi)[<<i, c>>], size, al, lo, hi)
  \/ /\ i <= Len(blocks)
     /\ \E d \in 0 .. Word :
          /\ Sofar(i + 1, d, size, al, lo, hi)
          /\ Walk(size, al, hi)[<<i, c>>] = Walk(size, al, hi)[<<i + 1, d>>]

(* One step of the walk: it ends with the answer or goes on knowing more.  *)
LEMMA WalkOn ==
  ASSUME blocks \in Seq(Block), TableSorted, NEW i \in 1 .. Len(blocks) + 1,
         NEW c \in 0 .. Word, NEW size \in Nat \ {0}, NEW al \in Nat \ {0},
         NEW lo \in Nat, NEW hi \in Nat, 0 < lo, hi <= End,
         Sofar(i, c, size, al, lo, hi)
  PROVE  Goes(i, c, size, al, lo, hi)
<1> SUFFICES \/ Answer(Walk(size, al, hi)[<<i, c>>], size, al, lo, hi)
             \/ /\ i <= Len(blocks)
                /\ \E d \in 0 .. Word :
                     /\ Sofar(i + 1, d, size, al, lo, hi)
                     /\ Walk(size, al, hi)[<<i, c>>] = Walk(size, al, hi)[<<i + 1, d>>]
  BY DEF Goes
<1> DEFINE n == Len(blocks)
           b == blocks[i]
           e == Stop(b)
           next == sa_align_up(e, al)
           w == Walk(size, al, hi)
<1>0. n \in Nat /\ Word \in Nat /\ c \in Nat /\ size \in Nat /\ <<i, c>> \in Rows
  BY ConstFacts DEF Rows
<1>1. w[<<i, c>>] = WalkStep(w, size, al, hi, <<i, c>>)
  BY <1>0, WalkIs
<1>2. w[<<i, c>>] =
        IF i > n \/ b.addr >= hi THEN [at |-> i, addr |-> c, found |-> FALSE]
        ELSE IF PassedOver(b, c) THEN w[<<i + 1, c>>]
        ELSE IF b.addr >= c /\ b.addr - c >= size
          THEN [at |-> i, addr |-> c, found |-> TRUE]
        ELSE IF next < e \/ next >= hi
          THEN [at |-> n + 1, addr |-> next, found |-> FALSE]
        ELSE w[<<i + 1, next>>]
  <2> HIDE DEF w
  <2> QED
    BY <1>1 DEF WalkStep
<1> HIDE DEF w
<1>0a. n \in Nat /\ Word \in Nat /\ c \in Nat /\ size \in Nat /\ i \in Nat
  BY <1>0
<1>3. i <= n => /\ b.addr \in Nat /\ e \in Nat /\ Base <= b.addr /\ b.addr < e
                /\ e <= End /\ i \in 1 .. n
  BY <1>0, BlockFacts
<1>4. CASE i > n \/ b.addr >= hi
  <2>1. w[<<i, c>>] = [at |-> i, addr |-> c, found |-> FALSE]
    BY <1>2, <1>4
  <2>2. CASE c + size <= hi
    <3>1. i <= n => c + size <= b.addr
      BY <1>0, <1>3, <1>4, <2>2
    <3> QED
      BY <2>1, <2>2, <3>1, AnswerFits DEF w
  <2>3. CASE c + size > hi
    <3>1. \A a \in lo .. hi - size : a % al = 0 /\ FreeRun(a, size) => c <= a
      BY DEF Sofar
    <3>2. Answer([at |-> i, addr |-> c, found |-> FALSE], size, al, lo, hi)
      BY <3>1, <2>3, <1>0a, AnswerVoid
    <3> QED
      BY <3>2, <2>1 DEF w
  <2>4. c + size <= hi \/ c + size > hi
    BY <1>0a
  <2> QED
    BY <2>2, <2>3, <2>4
<1>5. CASE i <= n /\ b.addr < hi /\ PassedOver(b, c)
  <2>1. w[<<i, c>>] = w[<<i + 1, c>>]
    BY <1>0, <1>2, <1>3, <1>5
  <2>2. Sofar(i + 1, c, size, al, lo, hi)
    <3>1. ASSUME NEW j \in 1 .. n, j < i + 1 PROVE Stop(blocks[j]) <= c
      <4>1. j < i \/ j = i
        BY <3>1, <1>0
      <4> QED
        BY <4>1, <1>5 DEF Sofar, PassedOver
    <3> QED
      BY <3>1 DEF Sofar
  <2> QED
    BY <2>1, <2>2, <1>5 DEF w
<1>6. CASE i <= n /\ b.addr < hi /\ ~PassedOver(b, c) /\ b.addr >= c /\ b.addr - c >= size
  <2>1. w[<<i, c>>] = [at |-> i, addr |-> c, found |-> TRUE]
    BY <1>0, <1>2, <1>3, <1>6
  <2>2. c + size <= b.addr /\ c + size <= hi
    BY <1>0, <1>3, <1>6
  <2> QED
    BY <2>1, <2>2, AnswerFits DEF w
<1>7. CASE i <= n /\ b.addr < hi /\ ~PassedOver(b, c) /\ ~(b.addr >= c /\ b.addr - c >= size)
  <2>0. i \in 1 .. n /\ c < e /\ e + al - 1 \in Nat
    <3>1. i \in 1 .. n /\ e \in Nat
      BY <1>3, <1>7
    <3>2. ~(e <= c)
      BY <1>7 DEF PassedOver
    <3> HIDE DEF e
    <3> QED
      BY <3>1, <3>2, <1>0
  <2>1. ASSUME NEW a \in lo .. hi - size, a % al = 0, FreeRun(a, size)
        PROVE  e <= a /\ a \in Nat /\ a < End /\ 0 < a
    <3>1. c <= a /\ a \in Nat /\ a + size <= hi
      BY <2>1, <1>0 DEF Sofar
    <3>2. e <= a \/ a + size <= b.addr
      BY <2>0, <2>1 DEF FreeRun
    <3> QED
      BY <3>1, <3>2, <1>0, <1>3, <1>7, ConstFacts, SMTT(30)
  <2>2. ASSUME NEW a \in lo .. hi - size, a % al = 0, FreeRun(a, size)
        PROVE  e + al - 1 < Word
    BY <2>1, <2>2, <1>3, <1>7, NoOverflow
  <2>0a. e \in Nat /\ 0 < e /\ Word \in Nat
    BY <1>3, <2>0, ConstFacts
  <2> HIDE DEF e
  <2>3. /\ next \in 0 .. Word /\ next \in Nat
        /\ e + al - 1 >= Word => next = 0
        /\ e + al - 1 < Word => LeastMultiple(next, e, al)
    BY <2>0a, AlignUpLeast
  <2> HIDE DEF next
  <2>4. CASE next < e \/ next >= hi
    <3>1. w[<<i, c>>] = [at |-> n + 1, addr |-> next, found |-> FALSE]
      BY <1>0, <1>2, <1>3, <1>7, <2>4
    <3>2. ASSUME NEW a \in lo .. hi - size, a % al = 0, FreeRun(a, size) PROVE FALSE
      <4>1. e + al - 1 < Word
        BY <2>2, <3>2
      <4>2. e <= a /\ a \in Nat
        BY <2>1, <3>2
      <4>3. e <= next /\ next <= a
        BY <4>1, <4>2, <3>2, <2>3 DEF LeastMultiple
      <4> QED
        BY <4>2, <4>3, <3>2, <2>3, <2>0a, <2>4, <1>0a
    <3>3. Fails([at |-> n + 1, addr |-> next, found |-> FALSE], size, lo, hi)
      <4>1. CASE next >= hi
        BY <4>1 DEF Fails
      <4>2. CASE next < e
        <5>1. ~(e + al - 1 < Word)
          BY <4>2, <2>3, <2>0a DEF LeastMultiple
        <5>2. e + al - 1 >= Word
          BY <5>1, <2>0, ConstFacts
        <5>3. next = 0
          BY <5>2, <2>3
        <5> QED
          BY <5>3 DEF Fails
      <4> QED
        BY <4>1, <4>2, <2>4
    <3> QED
      BY <3>1, <3>2, <3>3 DEF Answer, w
  <2>5. CASE ~(next < e \/ next >= hi)
    <3>1. w[<<i, c>>] = w[<<i + 1, next>>]
      BY <1>0, <1>2, <1>3, <1>7, <2>5, SMTT(30)
    <3>2. e <= next
      BY <2>3, <2>5, <1>3, <2>0
    <3>3. e + al - 1 < Word
      <4> SUFFICES ASSUME e + al - 1 >= Word PROVE FALSE
        BY <2>0, ConstFacts
      <4>1. next = 0
        BY <2>3
      <4> QED
        BY <4>1, <3>2, <1>3, <2>0
    <3>4. next % al = 0 /\ \A a \in Nat : a % al = 0 /\ e <= a => next <= a
      BY <3>3, <2>3 DEF LeastMultiple
    <3>5. lo <= next
      BY <3>2, <2>0, <2>3, <1>0, <1>3 DEF Sofar
    <3>6. ASSUME NEW j \in 1 .. n, j < i + 1 PROVE Stop(blocks[j]) <= next
      <4>1. Stop(blocks[j]) <= e /\ Stop(blocks[j]) \in Nat
        BY <3>6, <2>0, <1>0, EndsBelow, BlockFacts, SMTT(30) DEF e
      <4> QED
        BY <4>1, <3>2, <2>3, <1>3, <2>0
    <3>7. ASSUME NEW a \in lo .. hi - size, a % al = 0, FreeRun(a, size) PROVE next <= a
      BY <3>4, <3>7, <2>1
    <3>8. Sofar(i + 1, next, size, al, lo, hi)
      BY <3>4, <3>5, <3>6, <3>7 DEF Sofar
    <3> QED
      BY <3>1, <3>8, <2>3, <1>7 DEF w
  <2> QED
    BY <2>4, <2>5
<1>8. i > n \/ b.addr >= hi \/ (i <= n /\ b.addr < hi)
  BY <1>0a, <1>3
<1>9. CASE i <= n /\ b.addr < hi
  BY <1>5, <1>6, <1>7, <1>9
<1> QED
  BY <1>4, <1>8, <1>9

(* A row from which the walk would end with something else.                *)
Astray(i, size, al, lo, hi) ==
  \E d \in 0 .. Word : /\ Sofar(i, d, size, al, lo, hi)
                       /\ ~Answer(Walk(size, al, hi)[<<i, d>>], size, al, lo, hi)

LEMMA AstrayNext ==
  ASSUME blocks \in Seq(Block), TableSorted, NEW size \in Nat \ {0}, NEW al \in Nat \ {0},
         NEW lo \in Nat, NEW hi \in Nat, 0 < lo, hi <= End,
         NEW i \in 1 .. Len(blocks) + 1, Astray(i, size, al, lo, hi)
  PROVE  i <= Len(blocks) /\ Astray(i + 1, size, al, lo, hi)
<1>1. PICK d \in 0 .. Word : /\ Sofar(i, d, size, al, lo, hi)
                            /\ ~Answer(Walk(size, al, hi)[<<i, d>>], size, al, lo, hi)
  BY DEF Astray
<1>2. /\ i <= Len(blocks)
      /\ \E e \in 0 .. Word : /\ Sofar(i + 1, e, size, al, lo, hi)
                              /\ Walk(size, al, hi)[<<i, d>>] = Walk(size, al, hi)[<<i + 1, e>>]
  <2>1. Goes(i, d, size, al, lo, hi)
    BY <1>1, WalkOn
  <2> QED
    BY <1>1, <2>1 DEF Goes
<1> QED
  BY <1>1, <1>2 DEF Astray

(* So it ends with the answer.                                             *)
LEMMA WalkFinds ==
  ASSUME blocks \in Seq(Block), TableSorted, NEW size \in Nat \ {0}, NEW al \in Nat \ {0},
         NEW lo \in Nat, NEW hi \in Nat, 0 < lo, hi <= End,
         NEW i \in 1 .. Len(blocks) + 1, NEW c \in 0 .. Word, Sofar(i, c, size, al, lo, hi)
  PROVE  Answer(Walk(size, al, hi)[<<i, c>>], size, al, lo, hi)
<1> DEFINE n == Len(blocks)
           T == {k \in 0 .. n : Astray(n + 1 - k, size, al, lo, hi)}
<1>0. n \in Nat
  OBVIOUS
<1>1. T = {}
  <2> SUFFICES ASSUME T # {} PROVE FALSE
    OBVIOUS
  <2>1. T \subseteq Nat
    OBVIOUS
  <2>2. PICK k \in T : \A y \in T : k <= y
    <3> HIDE DEF T
    <3> QED
      BY <2>1, LeastNat
  <2>3. k \in 0 .. n /\ Astray(n + 1 - k, size, al, lo, hi)
    OBVIOUS
  <2>4. n + 1 - k \in 1 .. Len(blocks) + 1
    BY <1>0, <2>3
  <2>5. n + 1 - k <= n /\ Astray(n + 1 - k + 1, size, al, lo, hi)
    BY <2>3, <2>4, AstrayNext
  <2>6. k - 1 \in 0 .. n /\ n + 1 - k + 1 = n + 1 - (k - 1)
    BY <1>0, <2>3, <2>5
  <2>7. k - 1 \in T
    BY <2>5, <2>6
  <2> HIDE DEF T
  <2> QED
    BY <2>2, <2>3, <2>7
<1>2. n + 1 - i \in 0 .. n /\ n + 1 - (n + 1 - i) = i
  BY <1>0
<1>3. ~Astray(i, size, al, lo, hi)
  BY <1>1, <1>2
<1> QED
  BY <1>3 DEF Astray

LEMMA RangePlaceIs ==
  ASSUME blocks \in Seq(Block), TableSorted, NEW size \in Nat \ {0}, NEW al \in Nat \ {0},
         NEW lo \in Nat, NEW hi \in Nat, 0 < lo, lo < hi, hi <= End
  PROVE  IsPlace(RangePlace(size, al, lo, hi), size, al, lo, hi)
<1> DEFINE c == sa_align_up(lo, al)
           w == Walk(size, al, hi)
           p == w[<<1, c>>]
<1>0. /\ Len(blocks) \in Nat /\ Word \in Nat /\ lo + al - 1 \in Nat /\ size \in Nat
      /\ 1 \in 1 .. Len(blocks) + 1
  BY ConstFacts
<1>1. /\ c \in 0 .. Word /\ c \in Nat
      /\ lo + al - 1 >= Word => c = 0
      /\ lo + al - 1 < Word => LeastMultiple(c, lo, al)
  BY AlignUpLeast
<1>2. RangePlace(size, al, lo, hi) =
        IF size > hi - lo \/ Fails(p, size, lo, hi) THEN NoPlace ELSE [at |-> p.at, addr |-> p.addr]
  BY DEF RangePlace, Fails
<1> HIDE DEF c, p
<1>3. CASE size > hi - lo
  <2>1. RangePlace(size, al, lo, hi).addr = 0
    BY <1>2, <1>3 DEF NoPlace
  <2>2. ASSUME NEW a \in lo .. hi - size PROVE FALSE
    BY <1>0, <1>3
  <2> QED
    BY <2>1, <2>2 DEF IsPlace
<1>4. CASE size <= hi - lo /\ lo + al - 1 < Word
  <2>1. Sofar(1, c, size, al, lo, hi)
    <3>1. lo <= c /\ c % al = 0 /\ \A a \in Nat : a % al = 0 /\ lo <= a => c <= a
      BY <1>1, <1>4 DEF LeastMultiple
    <3>2. \A a \in lo .. hi - size : a \in Nat /\ lo <= a
      BY <1>0
    <3>3. \A j \in 1 .. Len(blocks) : ~(j < 1)
      BY <1>0
    <3> QED
      BY <3>1, <3>2, <3>3 DEF Sofar
  <2>2. Answer(p, size, al, lo, hi)
    BY <2>1, <1>0, <1>1, WalkFinds DEF p
  <2>3. CASE Fails(p, size, lo, hi)
    <3>1. RangePlace(size, al, lo, hi).addr = 0
      BY <1>2, <2>3 DEF NoPlace
    <3> QED
      BY <3>1, <2>2, <2>3 DEF IsPlace, Answer
  <2>4. CASE ~Fails(p, size, lo, hi)
    <3>1. RangePlace(size, al, lo, hi) = [at |-> p.at, addr |-> p.addr]
      BY <1>0, <1>2, <1>4, <2>4
    <3>2. IsPlace(p, size, al, lo, hi)
      BY <2>2, <2>4 DEF Answer
    <3>3. /\ RangePlace(size, al, lo, hi).at = p.at
          /\ RangePlace(size, al, lo, hi).addr = p.addr
      BY <3>1
    <3> QED
      BY <3>2, <3>3 DEF IsPlace
  <2> QED
    BY <2>3, <2>4
<1>5. CASE size <= hi - lo /\ lo + al - 1 >= Word
  <2>1. c = 0
    BY <1>1, <1>5
  <2>2. ASSUME NEW a \in lo .. hi - size, a % al = 0 PROVE FALSE
    <3>1. a \in Nat /\ lo <= a /\ 0 < a /\ a < End /\ lo <= End
      BY <1>0, ConstFacts
    <3>2. lo + al - 1 < Word
      BY <3>1, <2>2, NoOverflow
    <3> QED
      BY <3>2, <1>0, <1>5
  <2>3. Fails(p, size, lo, hi) \/ p.addr = 0
    <3> DEFINE n == Len(blocks)
               b == blocks[1]
               e == Stop(b)
               next == sa_align_up(e, al)
    <3>1. <<1, 0>> \in Rows /\ p = w[<<1, 0>>]
      BY <1>0, <2>1 DEF Rows, p
    <3>2. p = WalkStep(w, size, al, hi, <<1, 0>>)
      BY <3>1, WalkIs
    <3> HIDE DEF w
    <3>3. p = IF 1 > n \/ b.addr >= hi THEN [at |-> 1, addr |-> 0, found |-> FALSE]
              ELSE IF PassedOver(b, 0) THEN w[<<1 + 1, 0>>]
              ELSE IF b.addr >= 0 /\ b.addr - 0 >= size
                THEN [at |-> 1, addr |-> 0, found |-> TRUE]
              ELSE IF next < e \/ next >= hi
                THEN [at |-> n + 1, addr |-> next, found |-> FALSE]
              ELSE w[<<1 + 1, next>>]
      BY <3>2 DEF WalkStep
    <3>4. CASE 1 > n \/ b.addr >= hi
      <4>1. p = [at |-> 1, addr |-> 0, found |-> FALSE]
        BY <3>3, <3>4
      <4> QED
        BY <4>1 DEF Fails
    <3>5. CASE ~(1 > n \/ b.addr >= hi)
      <4>1. 1 \in 1 .. n
        BY <3>5, <1>0
      <4>2. b.addr \in Nat /\ e \in Nat /\ 0 < e
        BY <4>1, BlockFacts, ConstFacts
      <4>3. ~PassedOver(b, 0)
        BY <4>2 DEF PassedOver
      <4> HIDE DEF e, n
      <4>4. next \in Nat /\ (next # 0 => al <= next)
            /\ (e + al - 1 < Word => LeastMultiple(next, e, al))
        BY <4>2, AlignUpLeast, AlignUpFacts
      <4> HIDE DEF next
      <4>5. next >= hi \/ next = 0
        BY <4>4, <1>0, <1>5, ConstFacts
      <4>6. CASE b.addr - 0 >= size
        <5>1. p = [at |-> 1, addr |-> 0, found |-> TRUE]
          BY <3>3, <3>5, <4>2, <4>3, <4>6
        <5> QED
          BY <5>1
      <4>7. CASE ~(b.addr - 0 >= size)
        <5>1. next < e \/ next >= hi
          BY <4>2, <4>5
        <5>2. p = [at |-> n + 1, addr |-> next, found |-> FALSE]
          BY <3>3, <3>5, <4>3, <4>7, <5>1
        <5> QED
          BY <5>2, <4>5 DEF Fails
      <4> QED
        BY <4>6, <4>7
    <3> QED
      BY <3>4, <3>5
  <2>4. RangePlace(size, al, lo, hi).addr = 0
    BY <2>3, <1>2 DEF NoPlace
  <2> QED
    BY <2>2, <2>4 DEF IsPlace
<1> QED
  BY <1>0, <1>3, <1>4, <1>5

(* First fit is exact.                                                     *)
LEMMA FitsExactly ==
  ASSUME IInv, Aligns = {1}
  PROVE  FirstFitExact
<1>0. blocks \in Seq(Block) /\ TableSorted
  BY DEF IInv
<1>1. ASSUME NEW s \in Sizes, NEW al \in Aligns
      PROVE  AlignedPlace(s, al).addr = LowestFit(s, al, Base, End)
  <2>1. s \in Nat \ {0} /\ al = 1 /\ s \in Nat
    BY ConstFacts DEF Sizes
  <2>2. IsPlace(AlignedPlace(s, 1), s, 1, Base, End)
    BY <1>0, <2>1, AlignedPlaceIs
  <2>3. Base \in Nat /\ End \in Nat /\ End <= End
    BY ConstFacts
  <2> QED
    BY <1>0, <2>1, <2>2, <2>3, PlaceIsLowest
<1>2. ASSUME NEW s \in Sizes, NEW al \in RangeAligns, NEW w \in Windows
      PROVE  RangePlace(s, al, w[1], w[2]).addr = LowestFit(s, al, w[1], w[2])
  <2>1. s \in Nat \ {0} /\ al \in Nat \ {0} /\ s \in Nat
    <3>1. al \in Aligns \cup RangeAligns
      OBVIOUS
    <3>2. s \in Nat \ {0} /\ s \in Nat
      BY DEF Sizes
    <3> QED
      BY <3>1, <3>2, ConstFacts
  <2>2. w[1] \in Nat /\ w[2] \in Nat /\ 0 < w[1] /\ w[1] < w[2] /\ w[2] <= End
    BY ConstFacts DEF Windows, Addresses
  <2>3. IsPlace(RangePlace(s, al, w[1], w[2]), s, al, w[1], w[2])
    BY <1>0, <2>1, <2>2, RangePlaceIs
  <2> QED
    BY <1>0, <2>1, <2>2, <2>3, PlaceIsLowest
<1> QED
  BY <1>1, <1>2 DEF FirstFitExact

-----------------------------------------------------------------------------
(* Every step keeps the table.                                             *)

LEMMA InitInv == Init => IInv
<1> SUFFICES ASSUME Init PROVE IInv
  OBVIOUS
<1>1. blocks = << >> /\ used = 0
  BY DEF Init
<1>2. blocks \in Seq(Block) /\ DOMAIN blocks = {}
  BY <1>1
<1>3. Covered = {}
  BY <1>2 DEF Covered, FreeRun
<1> QED
  BY <1>1, <1>2, <1>3, FS_EmptySet DEF IInv, TableSorted

(* A place of either walk is one where a block may be entered.             *)
LEMMA PlaceInv ==
  ASSUME IInv, NEW p, NEW size \in Nat \ {0}, NEW al \in Nat \ {0},
         NEW lo \in Nat, NEW hi \in Nat, Base <= lo, hi <= End,
         IsPlace(p, size, al, lo, hi), p.addr # 0, Insert(p.at, p.addr, size)
  PROVE  IInv'
<1>1. /\ p.at \in 1 .. Len(blocks) + 1
      /\ p.addr \in lo .. hi - size
      /\ p.at > 1 => Stop(blocks[p.at - 1]) <= p.addr
      /\ p.at <= Len(blocks) => p.addr + size <= blocks[p.at].addr
  BY DEF IsPlace
<1>2. p.addr \in Nat /\ Base <= p.addr /\ p.addr + size <= End
  BY <1>1, ConstFacts
<1> QED
  BY <1>1, <1>2, InsertInv

LEMMA NextInv ==
  ASSUME IInv, Aligns = {1}, [Next]_vars
  PROVE  IInv'
<1>0. blocks \in Seq(Block) /\ TableSorted
  BY DEF IInv
<1>1. CASE surface_allocator_init
  <2>1. blocks' = << >> /\ used' = 0
    BY <1>1 DEF surface_allocator_init
  <2>2. blocks' \in Seq(Block) /\ DOMAIN blocks' = {}
    BY <2>1
  <2>3. Covered' = {}
    BY <2>2 DEF Covered, FreeRun
  <2> QED
    BY <2>1, <2>2, <2>3, FS_EmptySet DEF IInv, TableSorted
<1>2. ASSUME NEW a \in Addresses, NEW s \in Sizes, surface_allocator_reserve(a, s)
      PROVE  IInv'
  <2> DEFINE T == {i \in DOMAIN blocks : blocks[i].addr >= a} \cup {Len(blocks) + 1}
             at == Min(T)
  <2>1. /\ s <= End - a
        /\ at > 1 => Stop(blocks[at - 1]) <= a
        /\ at <= Len(blocks) => a + s <= blocks[at].addr
        /\ Insert(at, a, s)
    BY <1>2 DEF surface_allocator_reserve
  <2>2. T \subseteq 1 .. Len(blocks) + 1 /\ T \subseteq Nat /\ T # {}
    BY <1>0
  <2> HIDE DEF T
  <2>3. at \in 1 .. Len(blocks) + 1
    BY <2>2, MinNat
  <2> HIDE DEF at
  <2>4. a \in Nat /\ s \in Nat \ {0} /\ Base <= a /\ a + s <= End
    BY <2>1, ConstFacts DEF Addresses, Sizes
  <2> QED
    BY <2>1, <2>3, <2>4, InsertInv
<1>3. ASSUME NEW s \in Sizes, NEW al \in Aligns, surface_allocator_alloc_aligned(s, al)
      PROVE  IInv'
  <2>1. s \in Nat \ {0} /\ al = 1 /\ 1 \in Nat \ {0}
    BY ConstFacts DEF Sizes
  <2>2. IsPlace(AlignedPlace(s, 1), s, 1, Base, End)
    BY <1>0, <2>1, AlignedPlaceIs
  <2>3. /\ AlignedPlace(s, 1).addr # 0
        /\ Insert(AlignedPlace(s, 1).at, AlignedPlace(s, 1).addr, s)
    BY <1>3, <2>1 DEF surface_allocator_alloc_aligned
  <2>4. Base \in Nat /\ End \in Nat /\ Base <= Base /\ End <= End
    BY ConstFacts
  <2> QED
    BY <2>1, <2>2, <2>3, <2>4, PlaceInv
<1>4. ASSUME NEW s \in Sizes, NEW al \in RangeAligns, NEW w \in Windows,
             surface_allocator_alloc_range(s, al, w[1], w[2])
      PROVE  IInv'
  <2> DEFINE p == RangePlace(s, al, w[1], w[2])
  <2>1. s \in Nat \ {0} /\ al \in Nat \ {0}
    <3>1. al \in Aligns \cup RangeAligns
      OBVIOUS
    <3>2. s \in Nat \ {0}
      BY DEF Sizes
    <3> QED
      BY <3>1, <3>2, ConstFacts
  <2>2. /\ w[1] \in Nat /\ w[2] \in Nat /\ 0 < w[1] /\ w[1] < w[2] /\ w[2] <= End
        /\ Base <= w[1]
    BY ConstFacts DEF Windows, Addresses
  <2>3. IsPlace(p, s, al, w[1], w[2])
    BY <1>0, <2>1, <2>2, RangePlaceIs
  <2>4. p.addr # 0 /\ Insert(p.at, p.addr, s)
    BY <1>4 DEF surface_allocator_alloc_range
  <2> HIDE DEF p
  <2> QED
    BY <2>1, <2>2, <2>3, <2>4, PlaceInv
<1>5. ASSUME NEW a \in Addresses, surface_allocator_free(a)
      PROVE  IInv'
  <2> DEFINE i == sa_find(a)
  <2>1. i # 0 /\ used' = used - blocks[i].size /\ blocks' = RemoveAt(blocks, i)
    BY <1>5 DEF surface_allocator_free
  <2>2. i \in 1 .. Len(blocks)
    <3>1. i \in 0 .. Len(blocks)
      BY FindIs
    <3> HIDE DEF i
    <3> QED
      BY <2>1, <3>1
  <2> HIDE DEF i
  <2> QED
    BY <2>1, <2>2, RemoveInv
<1>6. CASE UNCHANGED vars
  BY <1>6 DEF vars, IInv, TableSorted, Covered, FreeRun
<1> QED
  BY <1>1, <1>2, <1>3, <1>4, <1>5, <1>6 DEF Next

-----------------------------------------------------------------------------
(* What the Amiga reads. *)

LEMMA MaxBounded ==
  ASSUME NEW N \in Nat, NEW T, T \subseteq 0 .. N, T # {}
  PROVE  Max(T) \in T /\ \A y \in T : Max(T) >= y
<1> DEFINE D == {N - y : y \in T}
<1>1. D \subseteq Nat /\ D # {}
  <2>1. \A y \in T : N - y \in Nat
    OBVIOUS
  <2>2. D # {}
    OBVIOUS
  <2> QED
    BY <2>1, <2>2
<1>2. PICK d \in D : \A e \in D : d <= e
  <2> HIDE DEF D
  <2> QED
    BY <1>1, LeastNat
<1>3. PICK x \in T : d = N - x
  OBVIOUS
<1>4. \A y \in T : x >= y
  <2> SUFFICES ASSUME NEW y \in T PROVE x >= y
    OBVIOUS
  <2>1. d <= N - y
    BY <1>2
  <2>2. x \in 0 .. N /\ y \in 0 .. N
    OBVIOUS
  <2> QED
    BY <1>3, <2>1, <2>2
<1> QED
  BY <1>4 DEF Max

LEMMA LargestIs ==
  ASSUME IInv
  PROVE  LargestFree = Max({0} \cup {s \in 1 .. End - Base :
                              \E a \in Base .. End - s : FreeRun(a, s)})
<1> DEFINE n == Len(blocks)
           G == {GapEnd(i) - GapStart(i) : i \in 1 .. n + 1}
           U == {0} \cup {s \in 1 .. End - Base : \E a \in Base .. End - s : FreeRun(a, s)}
           m == Max(G)
<1>0. /\ blocks \in Seq(Block) /\ n \in Nat /\ TableSorted
      /\ Base \in Nat /\ End \in Nat /\ Base < End /\ End - Base \in Nat
  BY ConstFacts DEF IInv
<1>1. LargestFree = m
  <2> DEFINE ends == [i \in 1 .. n + 1 |-> IF i = 1 THEN Base ELSE Stop(blocks[i - 1])]
             next(i) == IF i > n THEN End ELSE blocks[i].addr
  <2>1. \A i \in 1 .. n + 1 : (next(i) - ends[i]) % Word = GapEnd(i) - GapStart(i)
    <3>1. \A i \in 1 .. n + 1 : next(i) = GapEnd(i) /\ ends[i] = GapStart(i)
      BY DEF GapEnd, GapStart
    <3>2. \A i \in 1 .. n + 1 : (GapEnd(i) - GapStart(i)) % Word = GapEnd(i) - GapStart(i)
      BY <1>0, GapFacts
    <3> HIDE DEF next, ends
    <3> QED
      BY <3>1, <3>2
  <2>2. {(next(i) - ends[i]) % Word : i \in DOMAIN ends} = G
    <3>1. DOMAIN ends = 1 .. n + 1
      OBVIOUS
    <3> HIDE DEF next, ends
    <3> QED
      BY <2>1, <3>1
  <2>3. LargestFree = Max({(next(i) - ends[i]) % Word : i \in DOMAIN ends})
    BY DEF LargestFree
  <2> HIDE DEF next, ends, G
  <2> QED
    BY <2>2, <2>3
<1>2. G \subseteq 0 .. End - Base
  <2> SUFFICES ASSUME NEW i \in 1 .. n + 1 PROVE GapEnd(i) - GapStart(i) \in 0 .. End - Base
    OBVIOUS
  <2>1. /\ GapStart(i) \in Nat /\ GapEnd(i) \in Nat
        /\ Base <= GapStart(i) /\ GapStart(i) <= GapEnd(i) /\ GapEnd(i) <= End
    BY <1>0, GapFacts
  <2> QED
    BY <1>0, <2>1
<1>3. G # {}
  <2>1. 1 \in 1 .. n + 1
    BY <1>0
  <2> QED
    BY <2>1
<1>4. m \in G /\ \A y \in G : m >= y
  <2> HIDE DEF G
  <2> QED
    BY <1>0, <1>2, <1>3, MaxBounded
<1>5. m \in 0 .. End - Base
  <2> HIDE DEF G, m
  <2> QED
    BY <1>2, <1>4
<1>6. PICK i \in 1 .. n + 1 : m = GapEnd(i) - GapStart(i)
  <2> HIDE DEF m
  <2> QED
    BY <1>4
<1> HIDE DEF m
<1>7. m \in U
  <2>1. CASE m = 0
    BY <2>1
  <2>2. CASE m # 0
    <3>1. /\ GapStart(i) \in Nat /\ GapEnd(i) \in Nat
          /\ Base <= GapStart(i) /\ GapStart(i) <= GapEnd(i) /\ GapEnd(i) <= End
      BY <1>0, GapFacts
    <3>2. GapStart(i) \in Base .. End - m /\ m \in Nat /\ m \in 1 .. End - Base
      BY <1>0, <1>5, <1>6, <2>2, <3>1
    <3>3. i > 1 => Stop(blocks[i - 1]) <= GapStart(i)
      <4>1. i > 1 => GapStart(i) = Stop(blocks[i - 1])
        BY <1>0 DEF GapStart
      <4> QED
        BY <3>1, <4>1
    <3>4. i <= Len(blocks) => GapStart(i) + m <= blocks[i].addr
      <4>1. i <= Len(blocks) => GapEnd(i) = blocks[i].addr
        BY <1>0 DEF GapEnd
      <4>2. GapStart(i) + m <= GapEnd(i)
        BY <1>6, <3>1, <3>2
      <4> QED
        BY <4>1, <4>2
    <3>5. FreeRun(GapStart(i), m)
      BY <1>0, <3>1, <3>2, <3>3, <3>4, GapFree
    <3> QED
      BY <3>2, <3>5
  <2> QED
    BY <2>1, <2>2
<1>8. ASSUME NEW s \in U PROVE m >= s
  <2>1. CASE s = 0
    BY <1>5, <2>1, <1>0
  <2>2. CASE s # 0
    <3>1. s \in 1 .. End - Base
      BY <2>2
    <3>2. PICK a \in Base .. End - s : FreeRun(a, s)
      BY <2>2
    <3>3. a \in Nat /\ s \in Nat \ {0} /\ Base <= a /\ a + s <= End
      BY <1>0, <3>1
    <3>4. PICK j \in 1 .. n + 1 : GapStart(j) <= a /\ a + s <= GapEnd(j)
      BY <1>0, <3>2, <3>3, FreeInGap
    <3>5. GapEnd(j) - GapStart(j) \in G
      OBVIOUS
    <3>6. m >= GapEnd(j) - GapStart(j)
      <4> HIDE DEF G
      <4> QED
        BY <1>4, <3>5
    <3>7. GapStart(j) \in Nat /\ GapEnd(j) \in Nat
      BY <1>0, GapFacts
    <3>8. m \in Int
      BY <1>5
    <3> QED
      BY <3>3, <3>4, <3>6, <3>7, <3>8
  <2> QED
    BY <2>1, <2>2
<1>9. U \subseteq Nat
  BY <1>0
<1> HIDE DEF U
<1>10. Max(U) = m
  BY <1>7, <1>8, <1>9, MaxIs
<1> QED
  BY <1>1, <1>10 DEF U

(* The table is exact wherever the invariant holds.                        *)
LEMMA TableIsExact == IInv => TableExact
<1> SUFFICES ASSUME IInv PROVE TableExact
  OBVIOUS
<1>1. TableSorted /\ used = Cardinality({g \in Addresses : ~FreeRun(g, 1)})
  BY DEF IInv, Covered
<1>2. FindExact
  BY FindIs DEF FindExact
<1>3. StatsExact
  BY <1>1, LargestIs DEF StatsExact
<1> QED
  BY <1>1, <1>2, <1>3 DEF TableExact

-----------------------------------------------------------------------------
(* The theorems. *)

(*****************************************************************************)
(* Any sequence of allocations, reservations, frees and resets leaves the    *)
(* blocks of the table sorted, apart and inside the heap, and sa_used the    *)
(* number of granules they cover.                                            *)
(*****************************************************************************)
THEOREM SurfaceInvariant ==
  ASSUME Aligns = {1}
  PROVE  Spec => []IInv
<1>1. IInv /\ [Next]_vars => IInv'
  BY NextInv
<1> QED
  BY <1>1, InitInv, PTL DEF Spec

(*****************************************************************************)
(* surface_allocator_alloc_aligned and surface_allocator_alloc_range return  *)
(* the lowest free place that fits their request, and 0 only if none does.   *)
(*****************************************************************************)
THEOREM FirstFitIsExact ==
  ASSUME Aligns = {1}
  PROVE  Spec => []FirstFitExact
<1>1. IInv => FirstFitExact
  BY FitsExactly
<1> QED
  BY <1>1, SurfaceInvariant, PTL

(*****************************************************************************)
(* Every live block is found by sa_find, so that none can be lost to         *)
(* surface_allocator_free, and surface_allocator_free_stats reports the      *)
(* memory that is used and the largest run that is free.                     *)
(*****************************************************************************)
THEOREM TableStaysExact ==
  ASSUME Aligns = {1}
  PROVE  Spec => []TableExact
BY TableIsExact, SurfaceInvariant, PTL

(*****************************************************************************)
(* No two blocks overlap: what is reserved or handed out is not handed out   *)
(* again, whoever asks.                                                      *)
(*****************************************************************************)
THEOREM BlocksStayApart ==
  ASSUME Aligns = {1}
  PROVE  Spec => []BlocksApart
<1>1. IInv => BlocksApart
  <2> SUFFICES ASSUME IInv, NEW i \in DOMAIN blocks, NEW j \in DOMAIN blocks, i # j
               PROVE  Stop(blocks[i]) <= blocks[j].addr \/ Stop(blocks[j]) <= blocks[i].addr
    BY DEF BlocksApart
  <2>1. i \in Nat /\ j \in Nat
    BY DEF IInv
  <2> QED
    BY <2>1 DEF IInv, TableSorted
<1> QED
  BY <1>1, SurfaceInvariant, PTL
===============================================================================
