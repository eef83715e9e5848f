--------------------------- MODULE CardPoolProofs ---------------------------
(***************************************************************************)
(* Proofs about the card pool, for every layout of the ranges, set of      *)
(* owners, limit and table size.                                           *)
(*                                                                         *)
(* BlocksDisjoint and BlocksPlaced need each other: a first-fit candidate  *)
(* is the end of a block, and only because the blocks of the range are     *)
(* apart and inside it is a gap after a candidate free of every block.     *)
(* WindowExclusive is not inductive: that the gate may open depends on the *)
(* take-back several steps before, and that the window may be lent on what *)
(* was written to the gate.  ResetInv says what holds at each label.       *)
(* AccountInv adds what the accounting needs; QueriesExact and             *)
(* FirstFitComplete are consequences of both, not invariants of their own. *)
(***************************************************************************)
EXTENDS CardPool, FiniteSetTheorems, FunctionTheorems, TLAPS

(* What the reset handler has established at each of its labels.           *)
ResetInv ==
  /\ pc = "take_back" => core1 = NoBlock
  /\ pc \in {"lent", "take_back", "reload", "gate"} => ~gate
  /\ pc \in {"reload", "gate", "modules", "release", "lend"} => ~open["revocable"]
  /\ pc \in {"modules", "release", "lend"} => gate = CanAdvertise
  /\ AmigaOwnsWindow => ~open["revocable"]

(* A task of core 1 is in the window only while the window is lent.        *)
TaskInv == core1 # NoBlock /\ ~(Stop(core1) <= Mid) => open["revocable"]

IInv == TypeOK /\ BlocksDisjoint /\ BlocksPlaced /\ ResetInv /\ TaskInv

-----------------------------------------------------------------------------
(* Facts about first fit *)

LEMMA RangeFacts ==
  /\ RangeBase("permanent") = Base /\ RangeEnd("permanent") = Mid
  /\ RangeBase("revocable") = Mid /\ RangeEnd("revocable") = End
  /\ \A r \in Ranges : /\ RangeBase(r) \in Nat /\ RangeEnd(r) \in Nat
                       /\ Base <= RangeBase(r) /\ RangeBase(r) < RangeEnd(r)
                       /\ RangeEnd(r) <= End
BY BoundsAssumption DEF Ranges, RangeBase, RangeEnd

LEMMA BlockFacts ==
  ASSUME NEW b \in Block
  PROVE  b.addr \in Nat /\ b.size \in Nat /\ 0 < b.size /\ Stop(b) \in Nat
         /\ b.addr < Stop(b) /\ b.owner \in Owners /\ Base <= b.addr /\ b.addr < End
BY BoundsAssumption DEF Block, Stop

(* A block that starts in a range also ends in it: none crosses the border *)
(* between the permanent pages and the window.                             *)
LEMMA InRangeInside ==
  ASSUME TypeOK, BlocksPlaced, NEW r \in Ranges, NEW b \in InRange(r)
  PROVE  RangeBase(r) <= b.addr /\ Stop(b) <= RangeEnd(r)
<1>1. b \in blocks /\ b \in Block
  BY DEF InRange, TypeOK
<1>2. PICK q \in Ranges : RangeBase(q) <= b.addr /\ Stop(b) <= RangeEnd(q)
  BY <1>1 DEF BlocksPlaced
<1>3. b.addr \in Nat /\ Stop(b) \in Nat /\ b.addr < Stop(b)
  BY <1>1, BlockFacts
<1> QED
  BY <1>1, <1>2, <1>3, RangeFacts, BoundsAssumption DEF InRange, Ranges

(* Every gap find_gap can return is a run of pages of the range that       *)
(* overlaps no live block.                                                 *)
LEMMA GapIsFree ==
  ASSUME TypeOK, BlocksDisjoint, BlocksPlaced, NEW r \in Ranges,
         NEW size \in 1 .. MaxSize, NEW a \in Gaps(r, size)
  PROVE  /\ a \in Nat /\ RangeBase(r) <= a /\ a + size <= RangeEnd(r)
         /\ \A b \in blocks : Stop(b) <= a \/ a + size <= b.addr
<1>0. /\ size \in Nat /\ 0 < size
      /\ RangeBase(r) \in Nat /\ RangeEnd(r) \in Nat
  BY RangeFacts, BoundsAssumption
<1>1. a \in Candidates(r) /\ GapFits(r, a, size)
  BY DEF Gaps
<1>2. a \in Nat /\ RangeBase(r) <= a
  <2>1. CASE a = RangeBase(r)
    BY <2>1, RangeFacts
  <2>2. CASE \E b \in InRange(r) : a = Stop(b)
    <3>1. PICK b \in InRange(r) : a = Stop(b)
      BY <2>2
    <3>2. b \in Block
      BY DEF InRange, TypeOK
    <3> QED
      BY <3>1, <3>2, BlockFacts, RangeFacts DEF InRange
  <2> QED
    BY <1>1, <2>1, <2>2 DEF Candidates
<1>3. a + size <= RangeEnd(r)
  BY <1>1 DEF GapFits
<1>4. ASSUME NEW b \in blocks
      PROVE  Stop(b) <= a \/ a + size <= b.addr
  <2>0. b \in Block /\ b.addr \in Nat /\ Stop(b) \in Nat /\ b.addr < Stop(b)
    BY BlockFacts DEF TypeOK
  <2>1. CASE b \in InRange(r) /\ a <= b.addr
    BY <2>1, <1>1 DEF GapFits
  <2>2. CASE b \in InRange(r) /\ b.addr < a
    <3>1. a # RangeBase(r)
      BY <2>2, <2>0, <1>0 DEF InRange
    <3>2. PICK c \in InRange(r) : a = Stop(c)
      BY <3>1, <1>1 DEF Candidates
    <3>3. c \in blocks /\ c \in Block /\ c.addr \in Nat /\ Stop(c) \in Nat /\ c.addr < Stop(c)
      BY BlockFacts DEF InRange, TypeOK
    <3>4. CASE b = c
      BY <3>4, <3>2, <3>3
    <3>5. CASE b # c
      <4>1. Stop(b) <= c.addr \/ Stop(c) <= b.addr
        BY <3>5, <3>3 DEF BlocksDisjoint, Apart
      <4> QED
        BY <4>1, <3>2, <3>3, <2>2, <2>0
    <3> QED
      BY <3>4, <3>5
  <2>3. CASE b \notin InRange(r)
    <3>1. PICK q \in Ranges : RangeBase(q) <= b.addr /\ Stop(b) <= RangeEnd(q)
      BY DEF BlocksPlaced
    <3>2. q # r
      BY <2>3, <3>1, <2>0, RangeFacts DEF InRange
    <3> QED
      BY <3>1, <3>2, <2>0, <1>0, <1>2, <1>3, RangeFacts, BoundsAssumption DEF Ranges
  <2> QED
    BY <2>0, <1>2, <2>1, <2>2, <2>3
<1> QED
  BY <1>2, <1>3, <1>4

-----------------------------------------------------------------------------
(* The inductive invariant *)

LEMMA InitInv == Init => IInv
BY RangeFacts, BoundsAssumption
   DEF Init, IInv, TypeOK, BlocksDisjoint, BlocksPlaced, ResetInv, TaskInv,
       AmigaOwnsWindow, CanAdvertise, Zorro3, Ranges, Revocable, Classes, Boards,
       NoBlock

LEMMA AllocInv ==
  ASSUME IInv, NEW o \in Owners, NEW size \in 1 .. MaxSize, Alloc(o, size)
  PROVE  IInv'
<1> USE DEF IInv
<1>0. PICK r \in Ranges :
        /\ MayPlace(r, ClassOf[o])
        /\ \E a \in Gaps(r, size) :
             blocks' = blocks \cup {[addr |-> a, size |-> size, owner |-> o]}
  BY DEF Alloc, FirstRange
<1>1. PICK a \in Gaps(r, size) :
        blocks' = blocks \cup {[addr |-> a, size |-> size, owner |-> o]}
  BY <1>0
<1> DEFINE n == [addr |-> a, size |-> size, owner |-> o]
<1>2. /\ a \in Nat /\ RangeBase(r) <= a /\ a + size <= RangeEnd(r)
      /\ \A b \in blocks : Stop(b) <= a \/ a + size <= b.addr
  BY GapIsFree
<1>3. n \in Block /\ n.addr = a /\ n.owner = o /\ Stop(n) = a + size
  <2>1. a \in Base .. End - 1
    BY <1>2, RangeFacts, BoundsAssumption
  <2> QED
    BY <2>1 DEF Block, Stop
<1> HIDE DEF n
<1>4. blocks' = blocks \cup {n}
  BY <1>1 DEF n
<1>5. UNCHANGED <<open, gate, advertise, board, boot, pc, core1>>
  BY DEF Alloc
<1>6. TypeOK'
  BY <1>3, <1>4, <1>5 DEF TypeOK, Alloc
<1>7. BlocksDisjoint'
  BY <1>2, <1>3, <1>4 DEF BlocksDisjoint, Apart
<1>8. BlocksPlaced'
  <2>1. ASSUME NEW b \in blocks
        PROVE  \E q \in Ranges : /\ open'[q]
                                 /\ Revocable(q) => ClassOf[b.owner] \notin {"FIRMWARE", "APP"}
                                 /\ RangeBase(q) <= b.addr /\ Stop(b) <= RangeEnd(q)
    BY <1>5 DEF BlocksPlaced
  <2>2. \E q \in Ranges : /\ open'[q]
                          /\ Revocable(q) => ClassOf[n.owner] \notin {"FIRMWARE", "APP"}
                          /\ RangeBase(q) <= n.addr /\ Stop(n) <= RangeEnd(q)
    BY <1>0, <1>2, <1>3, <1>5 DEF MayPlace
  <2> QED
    BY <2>1, <2>2, <1>4 DEF BlocksPlaced
<1>9. ResetInv' /\ TaskInv'
  BY <1>5 DEF ResetInv, TaskInv, AmigaOwnsWindow, CanAdvertise, Zorro3
<1> QED
  BY <1>6, <1>7, <1>8, <1>9

(* Dropping blocks disturbs nothing that speaks of the blocks, as long as  *)
(* the ranges of the remaining ones stay open.                             *)
LEMMA RemoveInv ==
  ASSUME TypeOK, BlocksDisjoint, BlocksPlaced, NEW S, Remove(S)
  PROVE  /\ blocks' \subseteq blocks /\ blocks' \subseteq Block
         /\ DOMAIN used' = Classes
         /\ BlocksDisjoint'
         /\ open' = open => BlocksPlaced'
<1>1. blocks' \subseteq blocks /\ DOMAIN used' = Classes
  BY DEF Remove
<1>2. BlocksDisjoint'
  BY <1>1 DEF BlocksDisjoint, Apart
<1>3. open' = open => BlocksPlaced'
  BY <1>1 DEF BlocksPlaced
<1> QED
  BY <1>1, <1>2, <1>3 DEF TypeOK

LEMMA KeepsBlocks ==
  ASSUME BlocksDisjoint, BlocksPlaced, blocks' = blocks,
         \A r \in Ranges : open[r] => open'[r]
  PROVE  BlocksDisjoint' /\ BlocksPlaced'
BY DEF BlocksDisjoint, BlocksPlaced, Apart

LEMMA FreeInv ==
  ASSUME IInv, NEW S, Remove(S),
         UNCHANGED <<open, gate, advertise, board, boot, pc, core1>>
  PROVE  IInv'
<1>1. TypeOK' /\ BlocksDisjoint' /\ BlocksPlaced'
  BY RemoveInv DEF IInv, TypeOK
<1>2. ResetInv' /\ TaskInv'
  BY DEF IInv, ResetInv, TaskInv, AmigaOwnsWindow, CanAdvertise, Zorro3
<1> QED
  BY <1>1, <1>2 DEF IInv

LEMMA TaskStepInv ==
  ASSUME IInv, EndTask \/ \E b \in blocks : StartTask(b)
  PROVE  IInv'
<1> USE DEF IInv
<1>1. UNCHANGED <<poolVars, gate, advertise, board, boot, pc>>
  BY DEF EndTask, StartTask
<1>2. core1' = NoBlock \/ (core1' \in blocks /\ pc = "run")
  BY DEF EndTask, StartTask
<1>3. TypeOK'
  BY <1>1, <1>2 DEF TypeOK, poolVars
<1>4. BlocksDisjoint' /\ BlocksPlaced'
  BY <1>1, KeepsBlocks DEF poolVars
<1>5. ResetInv'
  BY <1>1, <1>2 DEF ResetInv, AmigaOwnsWindow, CanAdvertise, Zorro3, poolVars
<1>6. TaskInv'
  <2>1. ASSUME core1' \in blocks, ~(Stop(core1') <= Mid)
        PROVE  open["revocable"]
    <3>1. PICK r \in Ranges : open[r] /\ Stop(core1') <= RangeEnd(r)
      BY <2>1 DEF BlocksPlaced
    <3> QED
      BY <3>1, <2>1, RangeFacts DEF Ranges
  <2> QED
    BY <2>1, <1>1, <1>2 DEF TaskInv, poolVars, Stop
<1> QED
  BY <1>3, <1>4, <1>5, <1>6

(* The take-back closes the window, so what stays must be in the permanent *)
(* range: a block placed in the window is one of the revoked blocks.       *)
LEMMA TakeBackInv ==
  ASSUME IInv, TakeBackLent
  PROVE  IInv'
<1> USE DEF IInv
<1> DEFINE S == {b \in blocks : Lent(b)}
<1>1. Remove(S) /\ open' = [r \in Ranges |-> open[r] /\ ~Revocable(r)]
  BY DEF TakeBackLent
<1>2. blocks' \subseteq blocks /\ BlocksDisjoint' /\ DOMAIN used' = Classes
  BY <1>1, RemoveInv
<1>3. TypeOK'
  BY <1>1, <1>2 DEF TypeOK, TakeBackLent, Ranges
<1>4. ASSUME NEW b \in blocks'
      PROVE  \E r \in Ranges : /\ open'[r]
                               /\ Revocable(r) => ClassOf[b.owner] \notin {"FIRMWARE", "APP"}
                               /\ RangeBase(r) <= b.addr /\ Stop(b) <= RangeEnd(r)
  <2>1. b \in blocks /\ ~Lent(b)
    BY <1>1 DEF Remove
  <2>2. PICK r \in Ranges : /\ open[r]
                            /\ Revocable(r) => ClassOf[b.owner] \notin {"FIRMWARE", "APP"}
                            /\ RangeBase(r) <= b.addr /\ Stop(b) <= RangeEnd(r)
    BY <2>1 DEF BlocksPlaced
  <2>3. b.addr \in Nat /\ Stop(b) \in Nat /\ b.addr < Stop(b)
    BY <2>1, BlockFacts DEF TypeOK
  <2>4. b \in InRange(r)
    BY <2>1, <2>2, <2>3, RangeFacts DEF InRange
  <2>5. ~Revocable(r)
    BY <2>1, <2>2, <2>4 DEF Lent
  <2> QED
    BY <2>2, <2>5, <1>1
<1>5. BlocksPlaced'
  BY <1>4 DEF BlocksPlaced
<1>6. ResetInv' /\ TaskInv'
  BY <1>1 DEF ResetInv, TaskInv, TakeBackLent, AmigaOwnsWindow, CanAdvertise, Zorro3,
              Ranges, Revocable
<1> QED
  BY <1>2, <1>3, <1>5, <1>6

(* The steps of the reset handler that neither drop a block nor close a    *)
(* range.                                                                  *)
LEMMA ResetStepInv ==
  ASSUME IInv,
         AmigaReset \/ CloseGate \/ Quiesce \/ Reload \/ WriteGate
         \/ ResetModules \/ Lend
  PROVE  IInv'
<1> USE DEF IInv
<1>1. blocks' = blocks /\ used' = used /\ board' = board
  BY DEF AmigaReset, CloseGate, Quiesce, Reload, WriteGate, ResetModules, Lend,
         poolVars
<1>2. open' \in [Ranges -> BOOLEAN] /\ \A r \in Ranges : open[r] => open'[r]
  BY DEF AmigaReset, CloseGate, Quiesce, Reload, WriteGate, ResetModules, Lend,
         poolVars, TypeOK
<1>3. core1' = core1 \/ core1' = NoBlock
  BY DEF AmigaReset, CloseGate, Quiesce, Reload, WriteGate, ResetModules, Lend
<1>4. gate' \in BOOLEAN /\ advertise' \in BOOLEAN /\ boot' \in BOOLEAN
  BY DEF AmigaReset, CloseGate, Quiesce, Reload, WriteGate, ResetModules, Lend,
         TypeOK, CanAdvertise
<1>5. TypeOK'
  BY <1>1, <1>2, <1>3, <1>4
     DEF AmigaReset, CloseGate, Quiesce, Reload, WriteGate, ResetModules, Lend, TypeOK
<1>6. BlocksDisjoint' /\ BlocksPlaced'
  BY <1>1, <1>2, KeepsBlocks
<1>7. TaskInv'
  BY <1>2, <1>3 DEF TaskInv, Stop, Ranges
<1>8. ResetInv'
  <2> USE DEF ResetInv, AmigaOwnsWindow, CanAdvertise, Zorro3, TypeOK, poolVars
  <2>1. CASE AmigaReset
    BY <2>1 DEF AmigaReset
  <2>2. CASE CloseGate
    BY <2>2 DEF CloseGate
  <2>3. CASE Quiesce
    BY <2>3 DEF Quiesce, HasLent, Ranges, Revocable
  <2>4. CASE Reload
    BY <2>4 DEF Reload
  <2>5. CASE WriteGate
    BY <2>5 DEF WriteGate
  <2>6. CASE ResetModules
    BY <2>6 DEF ResetModules
  <2>7. CASE Lend
    BY <2>7 DEF Lend, Ranges, Revocable
  <2> QED
    BY <2>1, <2>2, <2>3, <2>4, <2>5, <2>6, <2>7
<1> QED
  BY <1>5, <1>6, <1>7, <1>8

LEMMA ReleaseAllInv ==
  ASSUME IInv, ReleaseAll
  PROVE  IInv'
<1> USE DEF IInv
<1>1. TypeOK' /\ BlocksDisjoint' /\ BlocksPlaced'
  BY RemoveInv DEF ReleaseAll, TypeOK
<1>2. ResetInv' /\ TaskInv'
  BY DEF ReleaseAll, ResetInv, TaskInv, AmigaOwnsWindow, CanAdvertise, Zorro3
<1> QED
  BY <1>1, <1>2

LEMMA NextInv == IInv /\ [Next]_vars => IInv'
<1> SUFFICES ASSUME IInv, [Next]_vars PROVE IInv'
  OBVIOUS
<1>1. CASE \E o \in Owners, size \in 1 .. MaxSize : Alloc(o, size)
  BY <1>1, AllocInv
<1>2. CASE \E o \in Owners, a \in Base .. End - 1 : Free(o, a)
  BY <1>2, FreeInv DEF Free
<1>3. CASE \E o \in Owners : ReleaseOwner(o)
  BY <1>3, FreeInv DEF ReleaseOwner
<1>4. CASE EndTask \/ \E b \in blocks : StartTask(b)
  BY <1>4, TaskStepInv
<1>5. CASE TakeBackLent
  BY <1>5, TakeBackInv
<1>6. CASE ReleaseAll
  BY <1>6, ReleaseAllInv
<1>7. CASE AmigaReset \/ CloseGate \/ Quiesce \/ Reload \/ WriteGate
           \/ ResetModules \/ Lend
  BY <1>7, ResetStepInv
<1>8. CASE UNCHANGED vars
  <2>1. UNCHANGED <<blocks, open, used, gate, advertise, board, boot, pc, core1>>
    BY <1>8 DEF vars
  <2> QED
    BY <2>1 DEF IInv, TypeOK, BlocksDisjoint, BlocksPlaced, ResetInv, TaskInv, Apart,
              AmigaOwnsWindow, CanAdvertise, Zorro3
<1> QED
  BY <1>1, <1>2, <1>3, <1>4, <1>5, <1>6, <1>7, <1>8 DEF Next

-----------------------------------------------------------------------------
(* Counting pages *)

(* Pages is a natural number that adds up over disjoint sets of blocks.    *)
LEMMA PagesAddUp ==
  ASSUME NEW S, NEW T, IsFiniteSet(S), IsFiniteSet(T), S \cap T = {}
  PROVE  /\ Pages(S) \in Nat /\ Pages(T) \in Nat
         /\ Pages(S \cup T) = Pages(S) + Pages(T)
<1> DEFINE A == {bp \in S \X (1 .. MaxSize) : bp[2] <= bp[1].size}
           B == {bp \in T \X (1 .. MaxSize) : bp[2] <= bp[1].size}
<1>1. ASSUME NEW X, IsFiniteSet(X)
      PROVE  IsFiniteSet({bp \in X \X (1 .. MaxSize) : bp[2] <= bp[1].size})
  <2>1. IsFiniteSet(1 .. MaxSize)
    BY FS_Interval, BoundsAssumption
  <2>2. IsFiniteSet(X \X (1 .. MaxSize))
    BY <1>1, <2>1, FS_Product
  <2>3. {bp \in X \X (1 .. MaxSize) : bp[2] <= bp[1].size} \in SUBSET (X \X (1 .. MaxSize))
    OBVIOUS
  <2> QED
    BY <2>2, <2>3, FS_Subset
<1>2. A \cap B = {}
  OBVIOUS
<1>3. IsFiniteSet(A) /\ IsFiniteSet(B)
  BY <1>1
<1>4. Pages(S) = Cardinality(A) /\ Pages(T) = Cardinality(B)
  BY DEF Pages
<1>5. Pages(S \cup T) = Cardinality(A \cup B)
  <2>1. {bp \in (S \cup T) \X (1 .. MaxSize) : bp[2] <= bp[1].size} = A \cup B
    OBVIOUS
  <2> QED
    BY <2>1 DEF Pages
<1> HIDE DEF A, B
<1>6. Cardinality(A) \in Nat /\ Cardinality(B) \in Nat
  BY <1>3, FS_CardinalityType
<1>7. Cardinality(A \cup B) = Cardinality(A) + Cardinality(B) - Cardinality({})
  BY <1>2, <1>3, FS_Union
<1>8. Cardinality({}) = 0
  BY FS_EmptySet
<1> QED
  BY <1>4, <1>5, <1>6, <1>7, <1>8

(* A single block counts its size.                                         *)
LEMMA PagesOfOne ==
  ASSUME NEW b, b.size \in 1 .. MaxSize
  PROVE  Pages({b}) = b.size
<1> DEFINE Bp == {bp \in {b} \X (1 .. MaxSize) : bp[2] <= bp[1].size}
           f == [k \in 1 .. b.size |-> <<b, k>>]
<1>0. MaxSize \in Nat /\ b.size \in Nat
  BY BoundsAssumption
<1>1. f \in Bijection(1 .. b.size, Bp)
  <2>1. \A k \in 1 .. b.size : f[k] \in Bp
    BY <1>0
  <2>2. f \in [1 .. b.size -> Bp]
    BY <2>1
  <2>3. \A x, y \in 1 .. b.size : f[x] = f[y] => x = y
    OBVIOUS
  <2>4. \A t \in Bp : \E k \in 1 .. b.size : f[k] = t
    BY <1>0
  <2> QED
    BY <2>2, <2>3, <2>4, Fun_IsBij
<1>2. IsFiniteSet(1 .. b.size) /\ Cardinality(1 .. b.size) = b.size
  <2>1. \A n \in Nat \ {0} : IsFiniteSet(1 .. n) /\ Cardinality(1 .. n) = n
    <3> TAKE n \in Nat \ {0}
    <3>1. IsFiniteSet(1 .. n) /\ Cardinality(1 .. n) = IF 1 > n THEN 0 ELSE n - 1 + 1
      BY FS_Interval
    <3> QED
      BY <3>1
  <2> QED
    BY <2>1, <1>0
<1>3. Cardinality(Bp) = b.size
  <2> HIDE DEF f, Bp
  <2> QED
    BY <1>1, <1>2, FS_Bijection DEF ExistsBijection
<1> QED
  BY <1>3 DEF Pages

-----------------------------------------------------------------------------
(* Accounting *)

(* class_used is a number for every class and the exact sum of its blocks. *)
AccountInv ==
  /\ IsFiniteSet(blocks)
  /\ used \in [Classes -> Nat]
  /\ AccountingExact

LEMMA ClassFacts ==
  ASSUME IsFiniteSet(blocks), NEW c \in Classes
  PROVE  IsFiniteSet(InClass(c)) /\ InClass(c) \subseteq blocks
<1>1. InClass(c) \in SUBSET blocks
  BY DEF InClass
<1> QED
  BY <1>1, FS_Subset

(* card_pool_alloc charges the class of the new block and no other.        *)
LEMMA AllocAccount ==
  ASSUME IInv, AccountInv, NEW o \in Owners, NEW size \in 1 .. MaxSize, Alloc(o, size)
  PROVE  AccountInv'
<1> DEFINE c == ClassOf[o]
<1>0. c \in Classes /\ size \in Nat /\ Limit[c] \in Nat /\ used[c] \in Nat
  BY OwnersAssumption, BoundsAssumption DEF AccountInv
<1>1. PICK r \in Ranges : \E a \in Gaps(r, size) :
        blocks' = blocks \cup {[addr |-> a, size |-> size, owner |-> o]}
  BY DEF Alloc
<1>2. PICK a \in Gaps(r, size) :
        blocks' = blocks \cup {[addr |-> a, size |-> size, owner |-> o]}
  BY <1>1
<1> DEFINE n == [addr |-> a, size |-> size, owner |-> o]
<1>3. n.addr = a /\ n.size = size /\ n.owner = o /\ Stop(n) = a + size
  BY DEF Stop
<1>4. n \notin blocks
  <2>1. a \in Nat /\ \A b \in blocks : Stop(b) <= a \/ a + size <= b.addr
    BY GapIsFree DEF IInv
  <2> QED
    BY <2>1, <1>3
<1>5. blocks' = blocks \cup {n}
  BY <1>2
<1> HIDE DEF n
<1>6. IsFiniteSet(blocks')
  BY <1>5, FS_AddElement DEF AccountInv
<1>7. used' = [used EXCEPT ![c] = @ + size] /\ size <= Limit[c] - used[c]
  BY DEF Alloc, Affordable
<1>8. used' \in [Classes -> Nat]
  BY <1>0, <1>7 DEF AccountInv
<1>9. ASSUME NEW d \in Classes
      PROVE  used'[d] = Pages(InClass(d)') /\ used'[d] <= Limit[d]
  <2>1. used[d] = Pages(InClass(d)) /\ used[d] <= Limit[d]
    BY DEF AccountInv, AccountingExact
  <2>2. CASE d = c
    <3>1. InClass(c)' = InClass(c) \cup {n} /\ InClass(c) \cap {n} = {}
      BY <1>3, <1>4, <1>5 DEF InClass
    <3>2. Pages({n}) = size
      BY <1>3, PagesOfOne
    <3>3. IsFiniteSet(InClass(c)) /\ IsFiniteSet({n})
      BY <1>0, ClassFacts, FS_Singleton DEF AccountInv
    <3>4. Pages(InClass(c) \cup {n}) = Pages(InClass(c)) + size
      BY <3>1, <3>2, <3>3, PagesAddUp
    <3>5. used'[c] = used[c] + size
      BY <1>0, <1>7 DEF AccountInv
    <3> QED
      BY <2>1, <2>2, <3>1, <3>4, <3>5, <1>0, <1>7
  <2>3. CASE d # c
    <3>1. InClass(d)' = InClass(d)
      BY <2>3, <1>3, <1>5 DEF InClass
    <3>2. used'[d] = used[d]
      BY <2>3, <1>0, <1>7 DEF AccountInv
    <3> QED
      BY <2>1, <3>1, <3>2
  <2> QED
    BY <2>2, <2>3
<1> QED
  BY <1>6, <1>8, <1>9 DEF AccountInv, AccountingExact, Pages

(* remove_blocks and release_where give back to each class the pages of    *)
(* exactly the blocks they drop, so no subtraction from class_used wraps.  *)
LEMMA RemoveAccount ==
  ASSUME TypeOK, AccountInv, NEW S, Remove(S)
  PROVE  AccountInv'
<1>1. blocks' = blocks \ S
      /\ used' = [d \in Classes |-> used[d] - Pages(S \cap InClass(d))]
  BY DEF Remove
<1>2. IsFiniteSet(blocks')
  BY <1>1, FS_Difference DEF AccountInv
<1>3. ASSUME NEW d \in Classes
      PROVE  /\ used'[d] \in Nat /\ used'[d] = Pages(InClass(d)')
             /\ used'[d] <= Limit[d]
  <2> DEFINE kept == InClass(d) \ S
             gone == S \cap InClass(d)
  <2>1. used[d] = Pages(InClass(d)) /\ used[d] <= Limit[d] /\ used[d] \in Nat
    BY DEF AccountInv, AccountingExact
  <2>2. InClass(d)' = kept
    BY <1>1 DEF InClass
  <2>3. IsFiniteSet(kept) /\ IsFiniteSet(gone)
    <3>1. IsFiniteSet(InClass(d))
      BY ClassFacts DEF AccountInv
    <3>2. kept \in SUBSET InClass(d) /\ gone \in SUBSET InClass(d)
      OBVIOUS
    <3> QED
      BY <3>1, <3>2, FS_Subset
  <2>4. kept \cap gone = {} /\ InClass(d) = kept \cup gone
    OBVIOUS
  <2>5. /\ Pages(kept) \in Nat /\ Pages(gone) \in Nat
        /\ Pages(kept \cup gone) = Pages(kept) + Pages(gone)
    BY <2>3, <2>4, PagesAddUp
  <2>6. used'[d] = used[d] - Pages(gone)
    BY <1>1
  <2>7. Limit[d] \in Nat
    BY OwnersAssumption
  <2> HIDE DEF kept, gone
  <2>8. Pages(InClass(d)) = Pages(kept) + Pages(gone)
    BY <2>4, <2>5
  <2> QED
    BY <2>1, <2>2, <2>5, <2>6, <2>7, <2>8
<1>4. used' \in [Classes -> Nat]
  BY <1>1, <1>3
<1> QED
  BY <1>2, <1>3, <1>4 DEF AccountInv, AccountingExact, Pages

LEMMA NextAccount == IInv /\ AccountInv /\ [Next]_vars => AccountInv'
<1> SUFFICES ASSUME IInv, AccountInv, [Next]_vars PROVE AccountInv'
  OBVIOUS
<1>0. TypeOK
  BY DEF IInv
<1>1. CASE \E o \in Owners, size \in 1 .. MaxSize : Alloc(o, size)
  BY <1>1, AllocAccount
<1>2. CASE \E S : Remove(S)
  BY <1>0, <1>2, RemoveAccount
<1>3. CASE blocks' = blocks /\ used' = used
  BY <1>3 DEF AccountInv, AccountingExact, InClass, Pages
<1>4. (\E o \in Owners, a \in Base .. End - 1 : Free(o, a)) => \E S : Remove(S)
  BY DEF Free
<1>5. (\E o \in Owners : ReleaseOwner(o)) => \E S : Remove(S)
  BY DEF ReleaseOwner
<1>6. TakeBackLent \/ ReleaseAll => \E S : Remove(S)
  BY DEF TakeBackLent, ReleaseAll
<1>7. (\E b \in blocks : StartTask(b)) \/ EndTask => blocks' = blocks /\ used' = used
  BY DEF StartTask, EndTask, poolVars
<1>8. AmigaReset \/ CloseGate \/ Quiesce \/ Reload \/ WriteGate \/ ResetModules \/ Lend
        => blocks' = blocks /\ used' = used
  BY DEF AmigaReset, CloseGate, Quiesce, Reload, WriteGate, ResetModules, Lend, poolVars
<1>9. UNCHANGED vars => blocks' = blocks /\ used' = used
  BY DEF vars
<1> QED
  BY <1>1, <1>2, <1>3, <1>4, <1>5, <1>6, <1>7, <1>8, <1>9 DEF Next

LEMMA InitAccount == Init => AccountInv
<1> SUFFICES ASSUME Init PROVE AccountInv
  OBVIOUS
<1>1. IsFiniteSet(blocks) /\ Cardinality({}) = 0
  BY FS_EmptySet DEF Init
<1>2. used = [d \in Classes |-> 0]
  BY DEF Init
<1>3. ASSUME NEW d \in Classes PROVE Pages(InClass(d)) = 0
  <2>1. {bp \in InClass(d) \X (1 .. MaxSize) : bp[2] <= bp[1].size} = {}
    BY DEF InClass, Init
  <2> QED
    BY <1>1, <2>1 DEF Pages
<1> QED
  BY <1>1, <1>2, <1>3, OwnersAssumption DEF AccountInv, AccountingExact

-----------------------------------------------------------------------------
(* First fit misses nothing *)

(* Every set of natural numbers that is not empty has a least element.     *)
LEMMA LeastNat ==
  ASSUME NEW T, T \subseteq Nat, T # {}
  PROVE  \E x \in T : \A y \in T : x <= y
<1> DEFINE R == OpToRel(<, Nat)
<1>1. PICK x \in T : \A y \in T : <<y, x>> \notin R
  <2> HIDE DEF R
  <2> QED
    BY NatLessThanWellFounded, WFMin DEF R
<1>2. ASSUME NEW y \in T PROVE x <= y
  <2>1. x \in Nat /\ y \in Nat
    OBVIOUS
  <2>2. <<y, x>> \in Nat \X Nat /\ <<y, x>>[1] = y /\ <<y, x>>[2] = x
    BY <2>1
  <2>3. ~(y < x)
    BY <1>1, <2>2 DEF OpToRel
  <2> QED
    BY <2>1, <2>3
<1> QED
  BY <1>2

(* The candidates of find_gap are pages of the range or its end.           *)
LEMMA CandidateFacts ==
  ASSUME TypeOK, BlocksPlaced, NEW r \in Ranges, NEW x \in Candidates(r)
  PROVE  x \in Nat
<1>1. CASE x = RangeBase(r)
  BY <1>1, RangeFacts
<1>2. CASE \E b \in InRange(r) : x = Stop(b)
  BY <1>2, BlockFacts DEF InRange, TypeOK
<1> QED
  BY <1>1, <1>2 DEF Candidates

(* A run of free pages contains the candidate just below its start, and    *)
(* the gap of that candidate is at least as long as the run.               *)
LEMMA FreeRunHasGap ==
  ASSUME TypeOK, BlocksPlaced, NEW r \in Ranges,
         NEW size \in 1 .. MaxSize, NEW a \in RangeBase(r) .. RangeEnd(r) - size,
         \A b \in blocks : Stop(b) <= a \/ a + size <= b.addr
  PROVE  Gaps(r, size) # {}
<1>0. /\ size \in Nat /\ 0 < size /\ a \in Nat
      /\ RangeBase(r) \in Nat /\ RangeEnd(r) \in Nat
      /\ RangeBase(r) <= a /\ a + size <= RangeEnd(r)
  BY RangeFacts, BoundsAssumption
<1> DEFINE Below == {x \in Candidates(r) : x <= a}
           T == {a - x : x \in Below}
<1>1. T \subseteq Nat
  BY <1>0, CandidateFacts
<1>2. a - RangeBase(r) \in T
  BY <1>0 DEF Candidates
<1>3. PICK d \in T : \A y \in T : d <= y
  <2> HIDE DEF T
  <2> QED
    BY <1>1, <1>2, LeastNat
<1>4. PICK m \in Below : d = a - m
  OBVIOUS
<1>5. m \in Candidates(r) /\ m \in Nat /\ m <= a
  BY CandidateFacts
<1>6. ASSUME NEW x \in Candidates(r), x <= a PROVE x <= m
  <2>1. x \in Nat /\ a - x \in T
    BY <1>6, CandidateFacts
  <2>2. a - m <= a - x
    BY <2>1, <1>3, <1>4
  <2> HIDE DEF Below, T
  <2> QED
    BY <2>1, <2>2, <1>0, <1>5
<1>7. ASSUME NEW b \in InRange(r), m <= b.addr PROVE m + size <= b.addr
  <2>1. b \in blocks /\ b.addr \in Nat /\ Stop(b) \in Nat /\ b.addr < Stop(b)
    BY BlockFacts DEF InRange, TypeOK
  <2>2. Stop(b) \in Candidates(r)
    BY DEF Candidates
  <2>3. Stop(b) <= a \/ a + size <= b.addr
    BY <2>1
  <2> QED
    BY <2>1, <2>2, <2>3, <1>0, <1>5, <1>6, <1>7
<1>8. m + size <= RangeEnd(r)
  BY <1>0, <1>5
<1> QED
  BY <1>5, <1>7, <1>8 DEF Gaps, GapFits

LEMMA FirstFitFinds == IInv => FirstFitComplete
<1> SUFFICES ASSUME IInv, NEW r \in Ranges, NEW size \in 1 .. MaxSize
             PROVE  Gaps(r, size) # {} <=>
                      \E a \in RangeBase(r) .. RangeEnd(r) - size :
                        \A b \in blocks : Stop(b) <= a \/ a + size <= b.addr
  BY DEF FirstFitComplete
<1>1. ASSUME NEW a \in Gaps(r, size)
      PROVE  /\ a \in RangeBase(r) .. RangeEnd(r) - size
             /\ \A b \in blocks : Stop(b) <= a \/ a + size <= b.addr
  BY GapIsFree, RangeFacts, BoundsAssumption DEF IInv
<1>2. ASSUME NEW a \in RangeBase(r) .. RangeEnd(r) - size,
             \A b \in blocks : Stop(b) <= a \/ a + size <= b.addr
      PROVE  Gaps(r, size) # {}
  BY <1>2, FreeRunHasGap DEF IInv
<1> QED
  BY <1>1, <1>2

-----------------------------------------------------------------------------
(* The queries *)

LEMMA OwnedExact ==
  ASSUME IInv, NEW a \in Base .. End, NEW length \in 1 .. (End - Base), NEW o \in Owners
  PROVE  /\ RangeOwned(a, length, o) <=>
              \E b \in blocks : b.owner = o /\ b.addr <= a /\ a + length <= Stop(b)
         /\ BlockOwned(a, length, o) <=>
              \E b \in blocks : b.owner = o /\ b.addr <= a /\ a + length <= Stop(b)
                                /\ b.addr = a
<1>0. a \in Nat /\ length \in Nat /\ 0 < length
  BY BoundsAssumption
<1>1. ASSUME NEW b \in blocks
      PROVE  /\ b.addr \in Nat /\ b.size \in Nat
             /\ Stop(b) = b.addr + b.size /\ Stop(b) \in Nat /\ b.addr < Stop(b)
  BY BlockFacts DEF IInv, TypeOK, Stop
<1>2. ASSUME NEW b \in blocks, b.addr <= a, a + length <= Stop(b),
             NEW other \in blocks, other.addr <= a
      PROVE  other.addr <= b.addr
  <2>1. b = other \/ Stop(b) <= other.addr \/ Stop(other) <= b.addr
    BY DEF IInv, BlocksDisjoint, Apart
  <2> QED
    BY <2>1, <1>0, <1>1, <1>2
<1>3. ASSUME NEW b \in blocks, b.addr <= a
      PROVE  Covers(b, a, length) <=> a + length <= Stop(b)
  BY <1>0, <1>1, <1>3 DEF Covers
<1>4. ASSUME NEW b \in blocks, b.addr = a
      PROVE  length <= b.size <=> a + length <= Stop(b)
  BY <1>0, <1>1, <1>4
<1>5. RangeOwned(a, length, o) <=>
        \E b \in blocks : b.owner = o /\ b.addr <= a /\ a + length <= Stop(b)
  BY <1>2, <1>3 DEF RangeOwned
<1>6. BlockOwned(a, length, o) <=>
        \E b \in blocks : b.owner = o /\ b.addr <= a /\ a + length <= Stop(b)
                          /\ b.addr = a
  BY <1>0, <1>1, <1>4 DEF BlockOwned
<1> QED
  BY <1>5, <1>6

(* The pages of a range that lie in a block are, one by one, the pages of  *)
(* the blocks that start in it.                                            *)
LEMMA CoveredPages ==
  ASSUME IInv, AccountInv, NEW r \in Ranges
  PROVE  LET covered == {p \in RangeBase(r) .. RangeEnd(r) - 1 :
                           \E b \in blocks : b.addr <= p /\ p < Stop(b)}
         IN  Cardinality(covered) = Pages(InRange(r))
<1> DEFINE covered == {p \in RangeBase(r) .. RangeEnd(r) - 1 :
                         \E b \in blocks : b.addr <= p /\ p < Stop(b)}
           Bp == {bp \in InRange(r) \X (1 .. MaxSize) : bp[2] <= bp[1].size}
           f == [bp \in Bp |-> bp[1].addr + bp[2] - 1]
<1>0. TypeOK /\ BlocksPlaced /\ BlocksDisjoint /\ IsFiniteSet(blocks)
  BY DEF IInv, AccountInv
<1>1. ASSUME NEW b \in blocks
      PROVE  /\ b.addr \in Nat /\ b.size \in 1 .. MaxSize /\ b.size \in Nat
             /\ Stop(b) = b.addr + b.size /\ Stop(b) \in Nat /\ b.addr < Stop(b)
  BY <1>0, BlockFacts DEF TypeOK, Stop, Block
<1>2. /\ RangeBase(r) \in Nat /\ RangeEnd(r) \in Nat /\ MaxSize \in Nat
      /\ \A b \in InRange(r) : /\ b \in blocks
                               /\ RangeBase(r) <= b.addr /\ Stop(b) <= RangeEnd(r)
  BY <1>0, InRangeInside, RangeFacts, BoundsAssumption DEF InRange
<1>3. ASSUME NEW bp \in Bp
      PROVE  /\ bp[1] \in InRange(r) /\ bp[1] \in blocks
             /\ bp[2] \in Nat /\ 1 <= bp[2] /\ bp[2] <= bp[1].size
             /\ f[bp] = bp[1].addr + bp[2] - 1
             /\ f[bp] \in Nat /\ bp[1].addr <= f[bp] /\ f[bp] < Stop(bp[1])
             /\ bp = <<bp[1], bp[2]>>
  <2>1. /\ bp[1] \in InRange(r) /\ bp[1] \in blocks
        /\ bp[2] \in Nat /\ 1 <= bp[2] /\ bp[2] <= bp[1].size
        /\ bp = <<bp[1], bp[2]>>
    BY <1>2
  <2>2. f[bp] = bp[1].addr + bp[2] - 1
    OBVIOUS
  <2>3. /\ bp[1].addr \in Nat /\ bp[1].size \in Nat
        /\ Stop(bp[1]) = bp[1].addr + bp[1].size
    BY <2>1, <1>1
  <2> QED
    BY <2>1, <2>2, <2>3
<1>4. ASSUME NEW bp \in Bp PROVE f[bp] \in covered
  <2>1. /\ bp[1].addr \in Nat /\ Stop(bp[1]) \in Nat
        /\ RangeBase(r) <= bp[1].addr /\ Stop(bp[1]) <= RangeEnd(r)
    BY <1>1, <1>2, <1>3
  <2>2. f[bp] \in RangeBase(r) .. RangeEnd(r) - 1
    BY <2>1, <1>2, <1>3
  <2> QED
    BY <2>2, <1>3
<1>5. ASSUME NEW x \in Bp, NEW y \in Bp, f[x] = f[y] PROVE x = y
  <2>1. x[1] = y[1] \/ Stop(x[1]) <= y[1].addr \/ Stop(y[1]) <= x[1].addr
    BY <1>0, <1>3 DEF BlocksDisjoint, Apart
  <2>2. x[1] = y[1]
    BY <2>1, <1>1, <1>3, <1>5
  <2>3. x[2] = y[2]
    BY <2>2, <1>1, <1>3, <1>5
  <2> QED
    BY <2>2, <2>3, <1>3
<1>6. ASSUME NEW p \in covered PROVE \E bp \in Bp : f[bp] = p
  <2>1. PICK b \in blocks : b.addr <= p /\ p < Stop(b)
    OBVIOUS
  <2>2. p \in Nat /\ RangeBase(r) <= p /\ p < RangeEnd(r)
    BY <1>2
  <2>3. b \in InRange(r)
    <3>1. PICK q \in Ranges : RangeBase(q) <= b.addr /\ Stop(b) <= RangeEnd(q)
      BY <1>0 DEF BlocksPlaced
    <3>2. q = r
      BY <3>1, <2>1, <2>2, <1>1, RangeFacts, BoundsAssumption DEF Ranges
    <3> QED
      BY <3>1, <3>2, <2>1, <2>2, <1>1, <1>2 DEF InRange
  <2> DEFINE k == p - b.addr + 1
  <2>4. k \in 1 .. MaxSize /\ k <= b.size /\ b.addr + k - 1 = p
    BY <2>1, <2>2, <1>1, <1>2
  <2>5. <<b, k>> \in Bp
    BY <2>3, <2>4
  <2>6. f[<<b, k>>] = p
    BY <2>4, <2>5
  <2> QED
    BY <2>5, <2>6
<1>7. f \in [Bp -> covered]
  BY <1>4
<1>8. IsFiniteSet(Bp)
  <2>1. InRange(r) \in SUBSET blocks
    BY DEF InRange
  <2>2. IsFiniteSet(InRange(r)) /\ IsFiniteSet(1 .. MaxSize)
    BY <2>1, <1>0, FS_Subset, FS_Interval, BoundsAssumption
  <2>3. IsFiniteSet(InRange(r) \X (1 .. MaxSize))
    BY <2>2, FS_Product
  <2>4. Bp \in SUBSET (InRange(r) \X (1 .. MaxSize))
    OBVIOUS
  <2> QED
    BY <2>3, <2>4, FS_Subset
<1>9. Pages(InRange(r)) = Cardinality(Bp)
  BY DEF Pages
<1> HIDE DEF f, Bp, covered
<1>10. f \in Bijection(Bp, covered)
  BY <1>5, <1>6, <1>7, Fun_IsBij
<1>11. Cardinality(covered) = Cardinality(Bp)
  BY <1>8, <1>10, FS_Bijection DEF ExistsBijection
<1> QED
  BY <1>9, <1>11 DEF covered

LEMMA FreeBytesExact ==
  ASSUME IInv, AccountInv, NEW r \in Ranges
  PROVE  RangeEnd(r) - RangeBase(r) - Pages(InRange(r)) =
           Cardinality({p \in RangeBase(r) .. RangeEnd(r) - 1 :
                          \A b \in blocks : ~(b.addr <= p /\ p < Stop(b))})
<1> DEFINE all == RangeBase(r) .. RangeEnd(r) - 1
           covered == {p \in all : \E b \in blocks : b.addr <= p /\ p < Stop(b)}
           free == {p \in all : \A b \in blocks : ~(b.addr <= p /\ p < Stop(b))}
<1>1. free = all \ covered /\ all \cap covered = covered
  OBVIOUS
<1>2. Cardinality(covered) = Pages(InRange(r))
  BY CoveredPages
<1>3. IsFiniteSet(all) /\ Cardinality(all) = RangeEnd(r) - RangeBase(r)
  <2>1. \A m, n \in Nat : m < n => IsFiniteSet(m .. n - 1) /\ Cardinality(m .. n - 1) = n - m
    <3> SUFFICES ASSUME NEW m \in Nat, NEW n \in Nat, m < n
                 PROVE  IsFiniteSet(m .. n - 1) /\ Cardinality(m .. n - 1) = n - m
      OBVIOUS
    <3>1. /\ IsFiniteSet(m .. n - 1)
          /\ Cardinality(m .. n - 1) = IF m > n - 1 THEN 0 ELSE n - 1 - m + 1
      BY FS_Interval
    <3> QED
      BY <3>1
  <2> QED
    BY <2>1, RangeFacts
<1> HIDE DEF all, covered, free
<1>4. Cardinality(all \ covered) = Cardinality(all) - Cardinality(all \cap covered)
  BY <1>3, FS_Difference
<1>5. Cardinality(free) = RangeEnd(r) - RangeBase(r) - Pages(InRange(r))
  BY <1>1, <1>2, <1>3, <1>4
<1> QED
  BY <1>5 DEF free, all

LEMMA QueriesAgree == IInv /\ AccountInv => QueriesExact
<1> SUFFICES ASSUME IInv, AccountInv PROVE QueriesExact
  OBVIOUS
<1>1. ASSUME NEW r \in Ranges
      PROVE  RangeFreeBytes(r) =
               IF open[r]
                 THEN Cardinality({p \in RangeBase(r) .. RangeEnd(r) - 1 :
                                     \A b \in blocks : ~(b.addr <= p /\ p < Stop(b))})
                 ELSE 0
  BY FreeBytesExact DEF RangeFreeBytes
<1> QED
  BY <1>1, OwnedExact DEF QueriesExact

-----------------------------------------------------------------------------
(* The theorems *)

(* The inductive invariant holds in every reachable state.                 *)
THEOREM Invariant == Spec => []IInv
BY InitInv, NextInv, PTL DEF Spec

(* The pool's variables and the reset handler's keep their types.          *)
THEOREM TypeCorrect == Spec => []TypeOK
<1>1. IInv => TypeOK
  BY DEF IInv
<1> QED
  BY <1>1, Invariant, PTL

(* card_pool_alloc never hands out a page twice: first fit over candidates *)
(* that are ends of blocks keeps the blocks apart, for every sequence of   *)
(* allocations, frees, revocations and resets.                             *)
THEOREM NeverHandedOutTwice == Spec => []BlocksDisjoint
<1>1. IInv => BlocksDisjoint
  BY DEF IInv
<1> QED
  BY <1>1, Invariant, PTL

(* Every block lies wholly in an open range its class may use: nothing     *)
(* outlives card_pool_revoke_range.                                        *)
THEOREM AlwaysPlaced == Spec => []BlocksPlaced
<1>1. IInv => BlocksPlaced
  BY DEF IInv
<1> QED
  BY <1>1, Invariant, PTL

(* The Amiga and the ARM never own the Fast-RAM window at the same time:   *)
(* handle_amiga_reset's order of closing the gate, stopping core 1, taking *)
(* the window back, re-reading the configuration, writing the gate and     *)
(* lending is enough, whatever the services allocate meanwhile.            *)
THEOREM WindowHasOneOwner == Spec => []WindowExclusive
<1>1. IInv => WindowExclusive
  <2> SUFFICES ASSUME IInv, AmigaOwnsWindow
               PROVE  /\ ~open["revocable"]
                      /\ \A b \in blocks : Stop(b) <= Mid
                      /\ core1 # NoBlock => Stop(core1) <= Mid
    BY DEF WindowExclusive
  <2>1. ~open["revocable"]
    BY DEF IInv, ResetInv
  <2>2. core1 # NoBlock => Stop(core1) <= Mid
    BY <2>1 DEF IInv, TaskInv
  <2>3. ASSUME NEW b \in blocks
        PROVE  Stop(b) <= Mid
    <3>1. PICK r \in Ranges : open[r] /\ Stop(b) <= RangeEnd(r)
      BY DEF IInv, BlocksPlaced
    <3> QED
      BY <3>1, <2>1, RangeFacts DEF Ranges
  <2> QED
    BY <2>1, <2>2, <2>3
<1> QED
  BY <1>1, Invariant, PTL

(* No step of the reset handler drops a FIRMWARE block: the take-back only *)
(* reaches the window, where none is placed, and the release spares them.  *)
THEOREM FirmwareKept == Spec => FirmwareSurvives
<1>1. ASSUME IInv, [Next]_vars, pc' # pc, NEW b \in blocks,
             ClassOf[b.owner] = "FIRMWARE"
      PROVE  b \in blocks'
  <2>1. CASE TakeBackLent
    <3>1. ~Lent(b)
      <4> SUFFICES ASSUME NEW q \in Ranges, Revocable(q), b \in InRange(q)
                   PROVE  FALSE
        BY DEF Lent
      <4>1. b \in Block /\ b.addr \in Nat /\ Stop(b) \in Nat /\ b.addr < Stop(b)
        BY <1>1, BlockFacts DEF IInv, TypeOK
      <4>2. PICK r \in Ranges : ~Revocable(r) /\ Stop(b) <= RangeEnd(r)
        BY <1>1 DEF IInv, BlocksPlaced
      <4>3. r = "permanent" /\ q = "revocable"
        BY <4>2 DEF Ranges, Revocable
      <4> QED
        BY <4>1, <4>2, <4>3, RangeFacts, BoundsAssumption DEF InRange
    <3> QED
      BY <3>1, <2>1 DEF TakeBackLent, Remove
  <2>2. CASE ReleaseAll
    BY <2>2, <1>1 DEF ReleaseAll, Remove
  <2>3. CASE AmigaReset \/ CloseGate \/ Quiesce \/ Reload \/ WriteGate
             \/ ResetModules \/ Lend
    BY <2>3 DEF AmigaReset, CloseGate, Quiesce, Reload, WriteGate, ResetModules,
                Lend, poolVars
  <2>4. ~(\E o \in Owners, size \in 1 .. MaxSize : Alloc(o, size))
    BY <1>1 DEF Alloc
  <2>5. ~(\E o \in Owners, a \in Base .. End - 1 : Free(o, a))
        /\ ~(\E o \in Owners : ReleaseOwner(o))
    BY <1>1 DEF Free, ReleaseOwner
  <2>6. ~EndTask /\ ~(\E c \in blocks : StartTask(c)) /\ ~UNCHANGED vars
    BY <1>1 DEF EndTask, StartTask, vars
  <2> QED
    BY <1>1, <2>1, <2>2, <2>3, <2>4, <2>5, <2>6 DEF Next
<1>2. IInv /\ [Next]_vars =>
        [pc' # pc => \A b \in blocks : ClassOf[b.owner] = "FIRMWARE" => b \in blocks']_vars
  BY <1>1
<1> QED
  BY <1>2, Invariant, PTL DEF Spec, FirmwareSurvives

(* At every reachable state class_used is, for every class, the exact sum  *)
(* of the pages of its live blocks and within its limit: the unsigned      *)
(* `class_limit - class_used` of card_pool_alloc never wraps, and every    *)
(* free, revocation and reset gives back exactly what was charged.         *)
THEOREM AccountingStaysExact == Spec => []AccountingExact
<1>1. IInv /\ AccountInv /\ [Next]_vars => AccountInv'
  BY NextAccount
<1>2. AccountInv => AccountingExact
  BY DEF AccountInv
<1> QED
  BY <1>1, <1>2, InitAccount, Invariant, PTL DEF Spec

(* find_gap never refuses a request that fits: a range has a gap among the *)
(* candidates exactly when some run of that many pages of it is free.      *)
THEOREM FirstFitMissesNothing == Spec => []FirstFitComplete
BY FirstFitFinds, Invariant, PTL

(* What the services ask before they touch memory is true of the pages:    *)
(* card_pool_range_owned and card_pool_block_owned see exactly the ranges  *)
(* a block of the owner covers, and card_pool_range_free_bytes counts      *)
(* exactly the pages in no block.                                          *)
THEOREM QueriesAreExact == Spec => []QueriesExact
<1>1. IInv /\ AccountInv /\ [Next]_vars => AccountInv'
  BY NextAccount
<1> QED
  BY <1>1, QueriesAgree, InitAccount, Invariant, PTL DEF Spec
=============================================================================
