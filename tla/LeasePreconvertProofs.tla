------------------------ MODULE LeasePreconvertProofs ------------------------
(***************************************************************************)
(* Proofs about the converting lease, for every ring, transmit ring, word  *)
(* size, capacity, preroll, budget and timeout that Sizes allows.          *)
(*                                                                         *)
(* PInv is the inductive invariant.  Cursors: nothing wraps, because no    *)
(* cursor outruns another by more than the runway and whoever takes one    *)
(* past the limit rebases both.  Ring: which source period each slot       *)
(* holds, the periods behind the playback cursor that are not yet credited *)
(* included, since Retire and the replay go by them.  Queue: what the DMA  *)
(* queue holds of them.  Converter: which period the history expects next, *)
(* in the poll's converter, its snapshot and its unpublished output.       *)
(* Views and Where: what a poll or an interrupt suspended at each label    *)
(* still relies on.                                                        *)
(*                                                                         *)
(* The theorems assume ~RebaseRace, an interrupt that never lands between  *)
(* the poll's computation of its rebase and the masked stores: with such   *)
(* an interrupt the cursors wrap and nothing of this holds.                *)
(***************************************************************************)
EXTENDS LeasePreconvert, FiniteSetTheorems, FunctionTheorems, TLAPS

-----------------------------------------------------------------------------
(* Remainders: the slot of a period is its index modulo Depth.             *)

LEMMA ModDef ==
  ASSUME NEW d \in Nat \ {0}, NEW x \in Int
  PROVE  x % d \in 0 .. d - 1 /\ x \div d \in Int /\ x = d * (x \div d) + (x % d)
OBVIOUS

LEMMA MulBounds ==
  ASSUME NEW d \in Nat \ {0}, NEW q \in Int
  PROVE  /\ d * q \in Int /\ (q = 0 => d * q = 0)
         /\ (q >= 1 => d * q >= d) /\ (q <= -1 => d * q <= -d)
OBVIOUS

(* The remainder is the only one: d * q + r has remainder r.               *)
LEMMA ModUnique ==
  ASSUME NEW d \in Nat \ {0}, NEW q \in Int, NEW r \in 0 .. d - 1
  PROVE  (d * q + r) % d = r
<1> DEFINE x == d * q + r
           p == x \div d
           s == x % d
<1>1. d * q \in Int /\ x \in Int
  OBVIOUS
<1>2. p \in Int /\ s \in 0 .. d - 1 /\ x = d * p + s /\ d * p \in Int
  BY <1>1, ModDef
<1>3. d * (q - p) = d * q - d * p
  BY <1>2
<1>4. d * (q - p) = s - r
  <2> HIDE DEF x, p, s
  <2> QED
    BY <1>1, <1>2, <1>3 DEF x
<1>5. q - p \in Int
  BY <1>2
<1>6. q - p = 0
  <2> HIDE DEF p, s
  <2> QED
    BY <1>2, <1>4, <1>5, MulBounds
<1> HIDE DEF p, s
<1>7. s = r
  BY <1>2, <1>4, <1>6, MulBounds
<1> QED
  BY <1>7 DEF s

(* Two indices less than Depth apart have different slots.                 *)
LEMMA ModApart ==
  ASSUME NEW d \in Nat \ {0}, NEW x \in Int, NEW y \in Int, x < y, y - x < d
  PROVE  x % d # y % d
<1> SUFFICES ASSUME x % d = y % d PROVE FALSE
  OBVIOUS
<1> DEFINE p == x \div d
           q == y \div d
           s == x % d
<1>1. p \in Int /\ q \in Int /\ s \in Int /\ d * p \in Int /\ d * q \in Int
      /\ x = d * p + s /\ y = d * q + s
  BY ModDef
<1>2. d * (q - p) = d * q - d * p /\ q - p \in Int
  BY <1>1
<1> HIDE DEF p, q, s
<1>3. d * (q - p) = y - x
  BY <1>1, <1>2
<1> QED
  BY <1>2, <1>3, MulBounds

(* fabric_lease_rebase_cursors subtracts a whole number of rings, so every *)
(* index keeps its slot.                                                   *)
LEMMA ModRound ==
  ASSUME NEW d \in Nat \ {0}, NEW l \in Nat
  PROVE  /\ l - (l % d) \in Nat /\ l - (l % d) <= l /\ l - (l - (l % d)) < d
         /\ \A x \in Int : (x - (l - (l % d))) % d = x % d
<1> DEFINE q == l \div d
           r == l % d
<1>1. q \in Int /\ r \in 0 .. d - 1 /\ l = d * q + r /\ d * q \in Int
  BY ModDef
<1> HIDE DEF q, r
<1>2. q >= 0
  <2> SUFFICES ASSUME q <= -1 PROVE FALSE
    BY <1>1
  <2> QED
    BY <1>1, MulBounds
<1>3. l - r = d * q /\ d * q >= 0
  BY <1>1, <1>2, MulBounds
<1>4. ASSUME NEW x \in Int PROVE (x - d * q) % d = x % d
  <2> DEFINE p == x \div d
             s == x % d
  <2>1. p \in Int /\ s \in 0 .. d - 1 /\ x = d * p + s /\ d * p \in Int
    BY ModDef
  <2> HIDE DEF p, s
  <2>2. d * (p - q) = d * p - d * q /\ p - q \in Int
    BY <1>1, <2>1
  <2>3. x - d * q = d * (p - q) + s
    BY <1>1, <2>1, <2>2
  <2>4. (d * (p - q) + s) % d = s
    BY <2>1, <2>2, ModUnique
  <2>5. (x - d * q) % d = s
    BY <2>3, <2>4
  <2> QED
    BY <2>5 DEF s
<1>5. \A x \in Int : (x - (l - r)) % d = x % d
  BY <1>3, <1>4
<1>6. l - r \in Nat /\ l - r <= l /\ l - (l - r) < d
  BY <1>1, <1>3
<1> QED
  BY <1>5, <1>6 DEF r

LEMMA ModSmall ==
  ASSUME NEW d \in Nat \ {0}, NEW x \in 0 .. d - 1
  PROVE  x % d = x
<1>1. (d * 0 + x) % d = x
  BY ModUnique
<1>2. d * 0 + x = x
  OBVIOUS
<1> QED
  BY <1>1, <1>2

-----------------------------------------------------------------------------
(* Counting tags: the periods of a queue that carry this lease's audio.    *)

TagsOf(s, n) == Cardinality({i \in 1 .. n : i <= Len(s) /\ s[i] # Silent})

LEMMA TaggedIs == \A n : Tagged(n) = TagsOf(tx, n)
BY DEF Tagged, TagsOf

LEMMA TagsNat ==
  ASSUME NEW s, NEW n \in Nat
  PROVE  /\ IsFiniteSet({i \in 1 .. n : i <= Len(s) /\ s[i] # Silent})
         /\ TagsOf(s, n) \in Nat /\ TagsOf(s, n) <= n
<1>1. IsFiniteSet(1 .. n) /\ Cardinality(1 .. n) = n
  <2>1. IsFiniteSet(1 .. n) /\ Cardinality(1 .. n) = IF 1 > n THEN 0 ELSE n - 1 + 1
    BY FS_Interval
  <2> QED
    BY <2>1
<1> DEFINE T == {i \in 1 .. n : i <= Len(s) /\ s[i] # Silent}
<1>2. T \in SUBSET (1 .. n)
  OBVIOUS
<1> HIDE DEF T
<1>3. IsFiniteSet(T) /\ Cardinality(T) <= n /\ Cardinality(T) \in Nat
  BY <1>1, <1>2, FS_Subset, FS_CardinalityType
<1> QED
  BY <1>3 DEF T, TagsOf

LEMMA TagsZero == \A s : TagsOf(s, 0) = 0
<1> TAKE s
<1>1. {i \in 1 .. 0 : i <= Len(s) /\ s[i] # Silent} = {}
  OBVIOUS
<1> QED
  BY <1>1, FS_EmptySet DEF TagsOf

(* One period more counts one more if it is tagged.                        *)
LEMMA TagsStep ==
  ASSUME NEW s, NEW n \in Nat, Len(s) \in Nat, n < Len(s)
  PROVE  TagsOf(s, n + 1) = IF s[n + 1] # Silent THEN TagsOf(s, n) + 1 ELSE TagsOf(s, n)
<1> DEFINE T(m) == {i \in 1 .. m : i <= Len(s) /\ s[i] # Silent}
<1>1. CASE s[n + 1] # Silent
  <2>1. T(n + 1) = T(n) \cup {n + 1} /\ n + 1 \notin T(n)
    BY <1>1
  <2>2. IsFiniteSet(T(n))
    BY TagsNat
  <2>3. Cardinality(T(n) \cup {n + 1}) = Cardinality(T(n)) + 1
    BY <2>1, <2>2, FS_AddElement
  <2> QED
    BY <1>1, <2>1, <2>3 DEF TagsOf
<1>2. CASE s[n + 1] = Silent
  <2>1. T(n + 1) = T(n)
    BY <1>2
  <2> QED
    BY <1>2, <2>1 DEF TagsOf
<1> QED
  BY <1>1, <1>2

LEMMA TagsMono ==
  ASSUME NEW s, NEW m \in Nat, NEW n \in Nat, m <= n
  PROVE  TagsOf(s, m) <= TagsOf(s, n)
<1> DEFINE A == {i \in 1 .. m : i <= Len(s) /\ s[i] # Silent}
           B == {i \in 1 .. n : i <= Len(s) /\ s[i] # Silent}
<1>1. A \in SUBSET B
  OBVIOUS
<1>2. IsFiniteSet(B)
  BY TagsNat
<1> HIDE DEF A, B
<1>3. Cardinality(A) <= Cardinality(B)
  BY <1>1, <1>2, FS_Subset
<1> QED
  BY <1>3 DEF A, B, TagsOf

(* A tagged period carries the source period counted by the tags before it.*)
LEMMA TagBelow ==
  ASSUME NEW s, Len(s) \in Nat, NEW i \in 1 .. Len(s), s[i] # Silent
  PROVE  TagsOf(s, i - 1) \in Nat /\ TagsOf(s, i - 1) < TagsOf(s, Len(s))
<1> DEFINE n == i - 1
<1>1. n \in Nat /\ n + 1 = i /\ n < Len(s)
  OBVIOUS
<1> HIDE DEF n
<1>2. TagsOf(s, n + 1) = TagsOf(s, n) + 1
  BY <1>1, TagsStep
<1>3. TagsOf(s, n + 1) <= TagsOf(s, Len(s))
  BY <1>1, TagsMono
<1>4. \A k \in Nat : TagsOf(s, k) \in Nat
  BY TagsNat
<1> QED
  BY <1>1, <1>2, <1>3, <1>4 DEF n

(* Queueing a period changes no count before it.                           *)
LEMMA TagsAppend ==
  ASSUME NEW S, NEW s \in Seq(S), NEW x \in S, NEW n \in 0 .. Len(s)
  PROVE  TagsOf(Append(s, x), n) = TagsOf(s, n)
<1>1. Len(Append(s, x)) = Len(s) + 1 /\ \A i \in 1 .. Len(s) : Append(s, x)[i] = s[i]
  OBVIOUS
<1>2. {i \in 1 .. n : i <= Len(Append(s, x)) /\ Append(s, x)[i] # Silent}
        = {i \in 1 .. n : i <= Len(s) /\ s[i] # Silent}
  BY <1>1
<1> QED
  BY <1>2 DEF TagsOf

(* Dropping the first m periods takes their tags off every count.          *)
LEMMA TagsRest ==
  ASSUME NEW S, NEW s \in Seq(S), NEW m \in 0 .. Len(s), NEW n \in 0 .. Len(s) - m
  PROVE  TagsOf(SubSeq(s, m + 1, Len(s)), n) = TagsOf(s, m + n) - TagsOf(s, m)
<1> DEFINE t == SubSeq(s, m + 1, Len(s))
           A == {i \in 1 .. m : i <= Len(s) /\ s[i] # Silent}
           B == {i \in m + 1 .. m + n : i <= Len(s) /\ s[i] # Silent}
           C == {i \in 1 .. m + n : i <= Len(s) /\ s[i] # Silent}
           D == {i \in 1 .. n : i <= Len(t) /\ t[i] # Silent}
           f == [i \in D |-> i + m]
<1>1. Len(t) = Len(s) - m /\ \A i \in 1 .. Len(s) - m : t[i] = s[i + m]
  OBVIOUS
<1>2. C = A \cup B /\ A \cap B = {}
  OBVIOUS
<1>3. f \in Bijection(D, B)
  <2>1. \A i \in D : i + m \in B
    BY <1>1
  <2>2. \A j \in B : j - m \in D /\ f[j - m] = j
    BY <1>1
  <2>3. f \in [D -> B] /\ \A i, j \in D : f[i] = f[j] => i = j
    BY <2>1, SMTT(30)
  <2> QED
    BY <2>2, <2>3, Fun_IsBij
<1>4. IsFiniteSet(A) /\ IsFiniteSet(C) /\ IsFiniteSet(D)
  <2>1. m \in Nat /\ n \in Nat /\ m + n \in Nat
    OBVIOUS
  <2>2. \A k \in Nat : /\ IsFiniteSet({i \in 1 .. k : i <= Len(s) /\ s[i] # Silent})
                       /\ IsFiniteSet({i \in 1 .. k : i <= Len(t) /\ t[i] # Silent})
    BY TagsNat
  <2> QED
    BY <2>1, <2>2
<1> HIDE DEF t, A, B, C, D, f
<1>5. IsFiniteSet(B) /\ Cardinality(B) = Cardinality(D)
  BY <1>3, <1>4, FS_Bijection DEF ExistsBijection
<1>6. Cardinality(C) = Cardinality(A) + Cardinality(B) - Cardinality({})
  BY <1>2, <1>4, <1>5, FS_Union
<1>7. Cardinality({}) = 0 /\ Cardinality(A) \in Nat /\ Cardinality(B) \in Nat
  BY <1>4, <1>5, FS_EmptySet, FS_CardinalityType
<1>8. Cardinality(D) = Cardinality(C) - Cardinality(A)
  BY <1>5, <1>6, <1>7
<1> QED
  BY <1>8 DEF t, A, C, D, TagsOf

(* A queue without this lease's audio counts nothing.                      *)
LEMMA TagsSilent ==
  ASSUME NEW s, NEW n \in Nat, \A i \in 1 .. n : s[i] = Silent
  PROVE  TagsOf(s, n) = 0
<1>1. {i \in 1 .. n : i <= Len(s) /\ s[i] # Silent} = {}
  OBVIOUS
<1> QED
  BY <1>1, FS_EmptySet DEF TagsOf

Claims == {"claim", "fir", "publish"}
Rebases == {"rebase", "apply"}

LeaseT == [state : {"none", "leased", "active"}, valid : BOOLEAN, paused : BOOLEAN,
           view : 0..Capacity, age : 0..Timeout, live : BOOLEAN]
PollT == [pc : {"idle", "read"} \cup Claims \cup Rebases,
          src : Lost..Capacity, staged : Nat, view : 0..Capacity,
          out : Lost..Capacity, budget : Int, inflight : BOOLEAN, stolen : BOOLEAN,
          snap : Fresh..Capacity, isrc : Lost..Capacity, rebase : Nat]
IsrT == [pc : {"off", "finish", "catchup", "retire", "fill"}, moved : 0..Target, left : 0..Tx]
HostT == [line : {"zero", "ok"}, write : 0..Capacity, paused : BOOLEAN,
          beat : BOOLEAN, dead : BOOLEAN]

(* Every variable is of its type; TypeOK follows.                          *)
PTypes ==
  /\ lease \in LeaseT /\ poll \in PollT /\ isr \in IsrT /\ host \in HostT
  /\ cons \in Nat /\ src \in Nat /\ staged \in Nat /\ played \in Nat
  /\ stg \in [0..Depth - 1 -> Lost..Capacity] /\ conv \in Fresh..Capacity
  /\ tx \in Seq(Silent..Word - 1) /\ Len(tx) <= Target

(* No cursor wraps.  Only a poll on its way to the masked stores of a      *)
(* rebase has a cursor past the limit.                                     *)
Cursors ==
  /\ played <= staged /\ staged - played <= Runway + 1
  /\ src = cons + (staged - played)
  /\ \/ staged <= Limit \/ staged < 2 * Depth - Tx
     \/ poll.pc \in Rebases /\ (staged <= Limit + 1 \/ staged <= 2 * Depth - Tx)
  /\ poll.pc \in Claims /\ ~poll.stolen => staged - played <= Runway

(* What the views of the producer's cursor allow was published.            *)
Views ==
  /\ lease.view <= host.write /\ src <= host.write
  /\ lease.state # "none" => poll.view <= host.write
  /\ poll.pc \in Claims => poll.src + 1 <= poll.view

(* Slot of period p: the playback cursor's, as far from it as p is from    *)
(* the credit.                                                             *)
Ring == \A p \in 0..src - 1 : stg[(played - cons + p) % Depth] = p

(* The DMA queue is the uncredited periods that were filled, in order.     *)
Queue ==
  /\ TagsOf(tx, Len(tx)) = cons
  /\ \A i \in DOMAIN tx : tx[i] # Silent =>
       tx[i] % Depth = (played - cons + TagsOf(tx, i - 1)) % Depth

(* What holds at each label of the poll and of the interrupt.              *)
Where ==
  /\ lease.state = "none" => /\ isr.pc = "off" /\ tx = << >>
                             /\ cons = 0 /\ src = 0 /\ staged = 0 /\ played = 0
                             /\ ~lease.live
  /\ ~lease.live => tx = << >> /\ cons = 0
  /\ isr.pc \in {"catchup", "retire", "fill"} => lease.live
  /\ isr.pc \in {"catchup", "retire"} => isr.moved <= Len(tx)
  /\ poll.pc = "apply" => isr.pc = "off" /\ poll.rebase = played - (played % Depth)
  /\ poll.inflight <=> poll.pc \in {"fir", "publish"}
  /\ poll.stolen => poll.inflight
  /\ poll.pc = "idle" => poll.view = 0

(* The period the converter's history expects is the next one.             *)
Converter ==
  lease.state # "none" =>
    /\ ~poll.inflight => conv = src \/ (conv = Fresh /\ poll.pc # "claim" /\ src = 0 /\ ~lease.live)
    /\ poll.stolen => poll.snap = src
    /\ poll.inflight /\ ~poll.stolen =>
         /\ poll.src = src /\ poll.isrc = src /\ poll.snap = src /\ poll.staged = staged
         /\ conv = IF poll.pc = "fir" THEN src ELSE src + 1
         /\ poll.pc = "publish" => poll.out = src

PInv == PTypes /\ Cursors /\ Views /\ Ring /\ Queue /\ Where /\ Converter

-----------------------------------------------------------------------------
(* Facts about the cursors *)

LEMMA DepthNat ==
  /\ Depth \in Nat \ {0} /\ Tx \in Nat \ {0} /\ Word \in Nat \ {0} /\ Capacity \in Nat
  /\ Timeout \in Nat \ {0} /\ Target \in Nat \ {0} /\ Budget \in Int
  /\ Lost \in Lost..Capacity /\ Fresh \in Fresh..Capacity
BY Sizes DEF Target, Lost, Fresh

(* The two 32-bit cursors never wrap, so their distance is a difference.   *)
LEMMA OutstandingIs ==
  ASSUME PTypes, Cursors
  PROVE  Outstanding = staged - played /\ staged + 1 <= Word - 1
<1>1. staged \in Nat /\ played \in Nat /\ played <= staged
  BY DEF PTypes, Cursors
<1>2. staged + 1 <= Word - 1
  BY <1>1, Sizes DEF Cursors, Limit
<1>3. staged - played \in 0 .. Word - 1 /\ Word \in Nat \ {0}
  BY <1>1, <1>2, Sizes
<1> QED
  BY <1>2, <1>3, ModSmall DEF Outstanding

LEMMA SourceFits ==
  ASSUME PTypes, Cursors, Queue
  PROVE  cons <= Len(tx) /\ Len(tx) \in Nat /\ cons <= Target /\ src <= Depth - 2
<1>1. Len(tx) \in Nat /\ Len(tx) <= Target
  BY DEF PTypes
<1>2. cons <= Len(tx)
  BY <1>1, TagsNat DEF Queue
<1>3. /\ cons \in Nat /\ src \in Nat /\ staged \in Nat /\ played \in Nat
      /\ staged - played <= Depth - Tx /\ src = cons + (staged - played)
      /\ Target = Tx - 2 /\ Tx \in Nat /\ Depth \in Nat
  BY Sizes DEF PTypes, Cursors, Target, Runway
<1> QED
  BY <1>1, <1>2, <1>3

(* A move of the staging cursors that every slot survives.                 *)
KeepsSlots(r) == \A x \in Int : (x - r) % Depth = x % Depth
Shift(s, r) ==
  /\ r \in Nat /\ r <= played
  /\ played' = played - r /\ staged' = s - r
  /\ KeepsSlots(r)

(* What is in the ring and in the queue stays where it is.                 *)
LEMMA ShiftKeeps ==
  ASSUME PTypes, Cursors, Ring, Queue, NEW r, Shift(staged, r),
         UNCHANGED <<cons, src, stg, tx>>
  PROVE  Ring' /\ Queue' /\ src' = cons' + (staged' - played')
<1>1. /\ r \in Nat /\ played \in Nat /\ staged \in Nat /\ cons \in Nat /\ src \in Nat
      /\ played' = played - r /\ staged' = staged - r
      /\ \A x \in Int : (x - r) % Depth = x % Depth
  BY DEF Shift, KeepsSlots, PTypes
<1>2. ASSUME NEW p \in Nat
      PROVE  (played' - cons + p) % Depth = (played - cons + p) % Depth
  <2>1. played - cons + p \in Int /\ played' - cons + p = (played - cons + p) - r
    BY <1>1
  <2> QED
    BY <2>1, <1>1
<1>3. Ring'
  BY <1>1, <1>2 DEF Ring
<1>4. ASSUME NEW i \in DOMAIN tx, tx[i] # Silent
      PROVE  tx[i] % Depth = (played' - cons + TagsOf(tx, i - 1)) % Depth
  <2>1. i - 1 \in Nat
    BY DEF PTypes
  <2>2. TagsOf(tx, i - 1) \in Nat
    BY <2>1, TagsNat
  <2> QED
    BY <1>4, <1>2, <2>2 DEF Queue
<1>5. Queue'
  BY <1>1, <1>4 DEF Queue
<1> QED
  BY <1>1, <1>3, <1>5 DEF Cursors

(* Staging the next source period in the next slot overwrites none of the  *)
(* periods that still may be replayed or played.                           *)
LEMMA StageKeeps ==
  ASSUME PTypes, Cursors, Ring, Queue, NEW r, Shift(staged + 1, r),
         stg' = [stg EXCEPT ![staged % Depth] = src], src' = src + 1,
         UNCHANGED <<cons, tx>>
  PROVE  Ring' /\ Queue' /\ src' = cons' + (staged' - played')
<1>1. /\ r \in Nat /\ played \in Nat /\ staged \in Nat /\ cons \in Nat /\ src \in Nat
      /\ played' = played - r /\ staged' = (staged + 1) - r
      /\ \A x \in Int : (x - r) % Depth = x % Depth
      /\ src = cons + (staged - played) /\ staged = played - cons + src
  BY DEF Shift, KeepsSlots, PTypes, Cursors
<1>2. ASSUME NEW p \in Nat
      PROVE  (played' - cons + p) % Depth = (played - cons + p) % Depth
  <2>1. played - cons + p \in Int /\ played' - cons + p = (played - cons + p) - r
    BY <1>1
  <2> QED
    BY <2>1, <1>1
<1>3. ASSUME NEW p \in 0 .. src
      PROVE  stg'[(played' - cons + p) % Depth] = p
  <2> DEFINE y == (played - cons + p) % Depth
  <2>1. (played' - cons + p) % Depth = y
    BY <1>2
  <2>2. y \in 0 .. Depth - 1 /\ staged % Depth \in 0 .. Depth - 1
    <3>1. played - cons + p \in Int /\ staged \in Int
      BY <1>1
    <3> QED
      BY <3>1, ModDef, DepthNat
  <2>3. stg \in [0 .. Depth - 1 -> Lost .. Capacity]
    BY DEF PTypes
  <2>4. CASE p = src
    <3>1. y = staged % Depth
      BY <2>4, <1>1
    <3> QED
      BY <2>1, <2>2, <2>3, <2>4, <3>1
  <2>5. CASE p < src
    <3>1. /\ played - cons + p \in Int /\ staged \in Int
          /\ played - cons + p < staged /\ staged - (played - cons + p) < Depth
      BY <2>5, <1>1, SourceFits, Sizes
    <3>2. y # staged % Depth
      BY <3>1, ModApart, DepthNat
    <3>3. stg[y] = p
      BY <2>5, <1>1 DEF Ring
    <3> QED
      BY <2>1, <2>2, <2>3, <3>2, <3>3
  <2> QED
    BY <2>4, <2>5, <1>1
<1>4. Ring'
  BY <1>1, <1>3 DEF Ring
<1>5. ASSUME NEW i \in DOMAIN tx, tx[i] # Silent
      PROVE  tx[i] % Depth = (played' - cons + TagsOf(tx, i - 1)) % Depth
  <2>1. i - 1 \in Nat
    BY DEF PTypes
  <2>2. TagsOf(tx, i - 1) \in Nat
    BY <2>1, TagsNat
  <2> QED
    BY <1>5, <1>2, <2>2 DEF Queue
<1>6. Queue'
  BY <1>1, <1>5 DEF Queue
<1> QED
  BY <1>1, <1>4, <1>6

LEMMA NoShift ==
  ASSUME PTypes, NEW s \in Nat, staged' = s, played' = played
  PROVE  Shift(s, 0)
BY DEF Shift, KeepsSlots, PTypes

(* fabric_lease_rebase_cursors brings the cursors down into the first two  *)
(* rings, or leaves them where they are.                                   *)
LEMMA RebaseFromIs ==
  ASSUME PTypes, Cursors, (staged + 1) - played <= Runway + 1, RebaseFrom(staged + 1)
  PROVE  /\ \E r : Shift(staged + 1, r)
         /\ played' \in Nat /\ staged' \in Nat /\ played' <= staged'
         /\ staged' - played' = (staged + 1) - played
         /\ staged' <= Limit \/ staged' < 2 * Depth - Tx
<1>1. staged \in Nat /\ played \in Nat /\ played <= staged
  BY DEF PTypes, Cursors
<1>2. CASE staged + 1 > Limit
  <2> DEFINE r == played - (played % Depth)
  <2>1. staged' = (staged + 1) - r /\ played' = played - r
    <3>1. played < staged + 1
      BY <1>1
    <3> QED
      BY <3>1, <1>2 DEF RebaseFrom
  <2>2. r \in Nat /\ r <= played /\ played - r < Depth /\ KeepsSlots(r)
    BY <1>1, DepthNat, ModRound DEF KeepsSlots
  <2> HIDE DEF r
  <2>3. Shift(staged + 1, r)
    BY <2>1, <2>2 DEF Shift
  <2> QED
    BY <2>1, <2>2, <2>3, <1>1, Sizes DEF Runway
<1>3. CASE ~(staged + 1 > Limit)
  <2>1. staged' = staged + 1 /\ played' = played
    BY <1>1, <1>3 DEF RebaseFrom
  <2>2. Shift(staged + 1, 0)
    BY <2>1, <1>1, NoShift
  <2> QED
    BY <2>1, <2>2, <1>1, <1>3, Sizes DEF Limit
<1> QED
  BY <1>2, <1>3


-----------------------------------------------------------------------------
(* The main loop *)

LEMMA SameCursors ==
  ASSUME Ring, Queue, UNCHANGED cursors
  PROVE  Ring' /\ Queue'
BY DEF Ring, Queue, cursors

LEMMA DroppedInv ==
  ASSUME PInv, Dropped, UNCHANGED <<poll, isr>>, isr.pc = "off", poll.pc # "apply"
  PROVE  PInv'
<1>1. /\ lease' = Free /\ host' = NoHost
      /\ cons' = 0 /\ src' = 0 /\ staged' = 0 /\ played' = 0
      /\ conv' = Fresh /\ tx' = << >> /\ stg' = [i \in 0..Depth - 1 |-> Lost]
      /\ poll' = poll /\ isr' = isr
  BY DEF Dropped
<1>2. PTypes'
  <2>1. lease' \in LeaseT /\ host' \in HostT
    BY <1>1, DepthNat DEF LeaseT, HostT, Free, NoHost
  <2>2. tx' \in Seq(Silent..Word - 1) /\ Len(tx') <= Target
    BY <1>1, DepthNat
  <2> QED
    BY <1>1, <2>1, <2>2, DepthNat DEF PInv, PTypes
<1>3. Cursors'
  BY <1>1, Sizes DEF Cursors, Runway, Limit
<1>4. Views'
  BY <1>1 DEF PInv, Views, Free, NoHost
<1>5. Ring'
  BY <1>1 DEF Ring
<1>6. Queue'
  BY <1>1, TagsZero DEF Queue
<1>7. Where'
  BY <1>1 DEF PInv, Where, Free
<1>8. Converter'
  BY <1>1 DEF Converter, Free
<1> QED
  BY <1>2, <1>3, <1>4, <1>5, <1>6, <1>7, <1>8 DEF PInv

LEMMA AcquireInv ==
  ASSUME PInv, audio_fabric_ring_acquire
  PROVE  PInv'
<1>1. /\ lease.state = "none" /\ poll.pc = "idle" /\ isr.pc = "off"
      /\ lease' = [Free EXCEPT !.state = "leased"] /\ conv' = Fresh
      /\ UNCHANGED <<cursors, poll, isr, host>>
  BY DEF audio_fabric_ring_acquire, Main
<1>2. PTypes'
  <2>1. Free \in LeaseT
    BY DepthNat DEF LeaseT, Free
  <2>2. lease' \in LeaseT
    BY <1>1, <2>1 DEF LeaseT
  <2> QED
    BY <1>1, <2>2, DepthNat DEF PInv, PTypes, cursors
<1>3. Cursors'
  BY <1>1 DEF PInv, Cursors, cursors
<1>4. Views'
  BY <1>1, Sizes DEF PInv, PTypes, LeaseT, HostT, PollT, Views, Where, Free, cursors
<1>5. Ring' /\ Queue'
  BY <1>1, SameCursors DEF PInv
<1>6. Where'
  BY <1>1 DEF PInv, Where, Free, cursors
<1>7. Converter'
  BY <1>1 DEF PInv, Where, Converter, Free, cursors
<1> QED
  BY <1>2, <1>3, <1>4, <1>5, <1>6, <1>7 DEF PInv

LEMMA HostInv ==
  ASSUME PInv, UNCHANGED <<lease, cursors, conv, poll, isr>>,
         host' \in HostT, host.write <= host'.write
  PROVE  PInv'
<1>1. PTypes'
  BY DEF PInv, PTypes, cursors
<1>2. Cursors' /\ Where' /\ Converter'
  BY DEF PInv, Cursors, Where, Converter, cursors
<1>3. Views'
  <2>1. /\ lease.view \in Nat /\ src \in Nat /\ poll.view \in Nat
        /\ host.write \in Nat /\ host'.write \in Nat
    BY DEF PInv, PTypes, LeaseT, HostT, PollT
  <2> QED
    BY <2>1 DEF PInv, Views, cursors
<1>4. Ring' /\ Queue'
  BY SameCursors DEF PInv
<1> QED
  BY <1>1, <1>2, <1>3, <1>4 DEF PInv

LEMMA ProducerInv ==
  ASSUME PInv, Produce \/ Beat \/ Unpause \/ Pause \/ Die
  PROVE  PInv'
<1>1. UNCHANGED <<lease, cursors, conv, poll, isr>>
  BY DEF Produce, Beat, Unpause, Pause, Die
<1>2. host \in HostT /\ host.write \in 0..Capacity
  BY DEF PInv, PTypes, HostT
<1>3. host' \in HostT /\ host.write <= host'.write
  <2>1. CASE Produce
    <3>1. host.write + 1 \in 0..Capacity /\ host.write <= host.write + 1
      BY <2>1, <1>2, DepthNat DEF Produce
    <3>2. host' = [host EXCEPT !.line = "ok", !.beat = TRUE, !.write = @ + 1]
      BY <2>1 DEF Produce
    <3> QED
      BY <1>2, <3>1, <3>2 DEF HostT
  <2>2. host.write <= host.write
    BY <1>2, DepthNat
  <2>3. CASE Beat
    BY <2>2, <2>3, <1>2 DEF Beat, HostT
  <2>4. CASE Unpause
    BY <2>2, <2>4, <1>2 DEF Unpause, HostT
  <2>5. CASE Pause
    BY <2>2, <2>5, <1>2 DEF Pause, HostT
  <2>6. CASE Die
    BY <2>2, <2>6, <1>2 DEF Die, HostT
  <2> QED
    BY <2>1, <2>3, <2>4, <2>5, <2>6
<1> QED
  BY <1>1, <1>3, HostInv

(* The steps of the poll that move no cursor.                              *)
LEMMA PollBeginInv ==
  ASSUME PInv, PollBegin
  PROVE  PInv'
<1>1. /\ isr.pc = "off" /\ poll.pc = "idle" /\ lease.state # "none"
      /\ poll' = [poll EXCEPT !.pc = "read", !.view = host.write, !.budget = Budget]
      /\ UNCHANGED <<lease, cursors, conv, isr, host>>
  BY DEF PollBegin, Main
<1>2. PTypes'
  <2>1. poll \in PollT /\ host.write \in 0..Capacity
    BY DEF PInv, PTypes, HostT
  <2>2. poll' \in PollT
    BY <1>1, <2>1, DepthNat DEF PollT
  <2> QED
    BY <1>1, <2>2 DEF PInv, PTypes, cursors
<1>3. Cursors'
  BY <1>1 DEF PInv, PTypes, PollT, Cursors, Claims, Rebases, cursors
<1>4. Views'
  BY <1>1, Sizes DEF PInv, PTypes, LeaseT, HostT, PollT, Views, Claims, cursors
<1>5. Ring' /\ Queue'
  BY <1>1, SameCursors DEF PInv
<1>6. Where'
  BY <1>1 DEF PInv, PTypes, PollT, Where, cursors
<1>7. Converter'
  BY <1>1 DEF PInv, PTypes, PollT, Converter, Where, cursors
<1> QED
  BY <1>2, <1>3, <1>4, <1>5, <1>6, <1>7 DEF PInv

(* The poll stops: it forgets its claim.                                   *)
LEMMA PollStops ==
  ASSUME PInv, poll' = NoPoll, UNCHANGED <<lease, cursors, isr, host>>,
         poll.pc \notin Rebases, conv' \in Fresh..Capacity,
         lease.state # "none" =>
           conv' = src \/ (conv' = Fresh /\ src = 0 /\ ~lease.live)
  PROVE  PInv'
<1>1. PTypes'
  <2>1. poll' \in PollT
    BY DepthNat DEF PollT, NoPoll, Lost, Fresh
  <2> QED
    BY <2>1 DEF PInv, PTypes, cursors
<1>2. Cursors'
  BY DEF PInv, Cursors, NoPoll, Claims, Rebases, cursors
<1>3. Views'
  BY Sizes DEF PInv, PTypes, LeaseT, HostT, PollT, Views, NoPoll, Claims, cursors
<1>4. Ring' /\ Queue'
  BY SameCursors DEF PInv
<1>5. Where'
  BY DEF PInv, Where, NoPoll, cursors
<1>6. Converter'
  BY DEF PInv, Converter, NoPoll, cursors
<1> QED
  BY <1>1, <1>2, <1>3, <1>4, <1>5, <1>6 DEF PInv

LEMMA PollReadInv ==
  ASSUME PInv, PollRead
  PROVE  PInv'
<1>0. poll.pc = "read" /\ isr.pc = "off" /\ UNCHANGED <<lease, cursors, isr, host>>
  BY DEF PollRead, Main
<1>1. CASE poll' = NoPoll /\ conv' = conv
  <2>1. conv \in Fresh..Capacity /\ ~poll.inflight
    BY <1>0 DEF PInv, PTypes, PollT, Where
  <2>2. lease.state # "none" =>
           conv' = src \/ (conv' = Fresh /\ src = 0 /\ ~lease.live)
    BY <1>1, <2>1 DEF PInv, Converter
  <2> QED
    BY <1>0, <1>1, <2>1, <2>2, PollStops DEF Rebases
<1>2. CASE /\ lease.state # "none" /\ Outstanding <= Runway /\ src + 1 <= poll.view
           /\ poll' = [poll EXCEPT !.pc = "claim", !.src = src, !.staged = staged]
           /\ conv' = IF conv = Fresh THEN src ELSE conv
  <2>0. src \in Nat /\ poll.view \in 0..Capacity /\ src <= Capacity
    <3>1. src \in Nat /\ poll.view \in 0..Capacity
      BY DEF PInv, PTypes, PollT
    <3> QED
      BY <1>2, <3>1, DepthNat
  <2>1. PTypes'
    <3>1. /\ poll \in PollT /\ staged \in Nat /\ conv \in Fresh..Capacity
          /\ src \in Lost..Capacity /\ src \in Fresh..Capacity
      BY <2>0, DepthNat DEF PInv, PTypes, Lost, Fresh
    <3>2. poll' \in PollT
      BY <1>2, <3>1 DEF PollT, Claims
    <3> QED
      BY <1>0, <1>2, <3>1, <3>2 DEF PInv, PTypes, cursors
  <2>2. Cursors'
    BY <1>0, <1>2, OutstandingIs DEF PInv, PTypes, PollT, Cursors, Claims, Rebases, cursors
  <2>3. Views'
    BY <1>0, <1>2 DEF PInv, PTypes, LeaseT, HostT, PollT, Views, cursors
  <2>4. Ring' /\ Queue'
    BY <1>0, SameCursors DEF PInv
  <2>5. Where'
    BY <1>0, <1>2 DEF PInv, PTypes, PollT, Where, cursors
  <2>6. Converter'
    BY <1>0, <1>2, <2>0 DEF PInv, PTypes, PollT, Where, Converter, cursors, Fresh
  <2> QED
    BY <2>1, <2>2, <2>3, <2>4, <2>5, <2>6 DEF PInv
<1>3. Outstanding \in Int /\ Runway \in Int /\ src + 1 \in Int /\ poll.view \in Int
  BY Sizes, OutstandingIs DEF PInv, PTypes, PollT, Runway
<1> QED
  BY <1>1, <1>2, <1>3 DEF PollRead

LEMMA PollClaimInv ==
  ASSUME PInv, PollClaim
  PROVE  PInv'
<1>0. poll.pc = "claim" /\ isr.pc = "off" /\ UNCHANGED <<lease, cursors, conv, isr, host>>
  BY DEF PollClaim, Main
<1>1. CASE poll' = NoPoll
  <2>1. conv \in Fresh..Capacity /\ ~poll.inflight
    BY <1>0 DEF PInv, PTypes, PollT, Where
  <2>2. lease.state # "none" => conv' = src
    BY <1>0, <2>1 DEF PInv, Converter
  <2> QED
    BY <1>0, <1>1, <2>1, <2>2, PollStops DEF Rebases
<1>2. CASE /\ src = poll.src /\ staged = poll.staged
           /\ poll' = [poll EXCEPT !.pc = "fir", !.snap = conv, !.isrc = src,
                                   !.stolen = FALSE, !.inflight = TRUE]
  <2>0. src \in Nat /\ src \in Lost..Capacity
    BY <1>2, DepthNat DEF PInv, PTypes, PollT
  <2>1. PTypes'
    <3>1. poll \in PollT /\ conv \in Fresh..Capacity
      BY DEF PInv, PTypes
    <3>2. poll' \in PollT
      BY <1>2, <2>0, <3>1 DEF PollT, Claims
    <3> QED
      BY <1>0, <3>2 DEF PInv, PTypes, cursors
  <2>2. Cursors'
    BY <1>0, <1>2 DEF PInv, PTypes, PollT, Where, Cursors, Claims, Rebases, cursors
  <2>3. Views'
    BY <1>0, <1>2 DEF PInv, PTypes, LeaseT, HostT, PollT, Views, Claims, cursors
  <2>4. Ring' /\ Queue'
    BY <1>0, SameCursors DEF PInv
  <2>5. Where'
    BY <1>0, <1>2 DEF PInv, PTypes, PollT, Where, cursors
  <2>6. Converter'
    BY <1>0, <1>2, <2>0 DEF PInv, PTypes, PollT, Where, Converter, cursors
  <2> QED
    BY <2>1, <2>2, <2>3, <2>4, <2>5, <2>6 DEF PInv
<1> QED
  BY <1>1, <1>2 DEF PollClaim

LEMMA FedType ==
  ASSUME NEW c \in Fresh..Capacity, NEW k \in Lost..Capacity - 1
  PROVE  Fed(c, k) \in Fresh..Capacity /\ Output(c, k) \in Lost..Capacity
BY Sizes DEF Fed, Output, Fresh, Lost

LEMMA PollFirInv ==
  ASSUME PInv, PollFir
  PROVE  PInv'
<1>0. /\ poll.pc = "fir" /\ isr.pc = "off" /\ UNCHANGED <<lease, cursors, isr, host>>
      /\ poll' = [poll EXCEPT !.pc = "publish", !.out = Output(conv, poll.src)]
      /\ conv' = Fed(conv, poll.src)
  BY DEF PollFir, Main
<1>1. /\ conv \in Fresh..Capacity /\ poll.src \in Lost..Capacity - 1
      /\ poll.inflight /\ src \in Nat
  <2>1. /\ poll.src \in Lost..Capacity /\ poll.view \in 0..Capacity /\ src \in Nat
        /\ conv \in Fresh..Capacity
    BY DEF PInv, PTypes, PollT
  <2>2. poll.src + 1 <= poll.view /\ poll.inflight
    BY <1>0 DEF PInv, Views, Claims, Where
  <2> QED
    BY <2>1, <2>2, DepthNat DEF Lost
<1>2. PTypes'
  <2>1. poll \in PollT
    BY DEF PInv, PTypes
  <2>2. poll' \in PollT
    BY <1>0, <1>1, <2>1, FedType DEF PollT, Claims
  <2> QED
    BY <1>0, <1>1, <2>2, FedType DEF PInv, PTypes, cursors
<1>3. Cursors'
  BY <1>0 DEF PInv, PTypes, PollT, Cursors, Claims, Rebases, cursors
<1>4. Views'
  BY <1>0 DEF PInv, PTypes, LeaseT, HostT, PollT, Views, Claims, cursors
<1>5. Ring' /\ Queue'
  BY <1>0, SameCursors DEF PInv
<1>6. Where'
  BY <1>0 DEF PInv, PTypes, PollT, Where, cursors
<1>7. Converter'
  BY <1>0, <1>1 DEF PInv, PTypes, PollT, Converter, Fed, Output, cursors
<1> QED
  BY <1>2, <1>3, <1>4, <1>5, <1>6, <1>7 DEF PInv


(* The period the poll publishes is the next one, from a converter that    *)
(* saw all before it: nobody staged anything behind its back.              *)
LEMMA PollPublishInv ==
  ASSUME PInv, PollPublish
  PROVE  PInv'
<1>0. /\ poll.pc = "publish" /\ isr.pc = "off" /\ UNCHANGED <<lease, isr, host>>
      /\ poll.inflight /\ poll.pc \notin Rebases
  BY DEF PollPublish, Main, PInv, Where, Rebases
<1>1. CASE poll.stolen /\ poll' = NoPoll /\ conv' = poll.snap /\ UNCHANGED cursors
  <2>1. conv' \in Fresh..Capacity
    BY <1>1 DEF PInv, PTypes, PollT
  <2>2. lease.state # "none" => conv' = src
    BY <1>1 DEF PInv, Converter
  <2> QED
    BY <1>0, <1>1, <2>1, <2>2, PollStops
<1>2. CASE /\ ~poll.stolen /\ (staged # poll.staged \/ lease.state = "none")
           /\ poll' = NoPoll /\ UNCHANGED <<conv, cursors>>
  <2>1. conv' \in Fresh..Capacity
    BY <1>2 DEF PInv, PTypes
  <2>2. lease.state = "none"
    BY <1>0, <1>2 DEF PInv, Converter
  <2> QED
    BY <1>0, <1>2, <2>1, <2>2, PollStops
<1>3. CASE /\ ~poll.stolen /\ staged = poll.staged /\ lease.state # "none"
           /\ stg' = [stg EXCEPT ![staged % Depth] = poll.out]
           /\ staged' = (staged + 1) % Word /\ src' = poll.src + 1
           /\ poll' = [NoPoll EXCEPT !.pc = IF staged' > Limit THEN "rebase" ELSE "read",
                                     !.view = poll.view, !.budget = poll.budget - 1]
           /\ UNCHANGED <<conv, cons, played, tx>>
  <2>1. /\ poll.src = src /\ poll.out = src /\ conv = src + 1
        /\ staged - played <= Runway /\ src + 1 <= poll.view /\ poll.view <= host.write
    BY <1>0, <1>3 DEF PInv, Converter, Cursors, Views, Claims
  <2>2. /\ src \in Nat /\ staged \in Nat /\ played \in Nat /\ poll.view \in 0..Capacity
        /\ poll.budget \in Int /\ host.write \in 0..Capacity /\ lease.view \in 0..Capacity
        /\ stg \in [0..Depth - 1 -> Lost..Capacity] /\ cons \in Nat
        /\ Depth \in Nat /\ Tx \in Nat /\ Limit \in Int /\ Runway \in Int
    BY Sizes, SMTT(30) DEF PInv, PTypes, PollT, HostT, LeaseT, Limit, Runway
  <2>3. staged' = staged + 1 /\ src' = src + 1 /\ src \in Lost..Capacity
    <3>1. staged + 1 \in 0..Word - 1
      BY <2>2, OutstandingIs, DepthNat DEF PInv
    <3>2. (staged + 1) % Word = staged + 1
      BY <3>1, ModSmall, DepthNat
    <3>3. src <= Capacity
      BY <2>1, <2>2, DepthNat
    <3> QED
      BY <1>3, <2>1, <2>2, <3>2, <3>3, DepthNat DEF Lost
  <2>4. poll' \in PollT
    <3>1. NoPoll \in PollT
      BY DepthNat DEF NoPoll, PollT, Lost, Fresh
    <3>2. /\ (IF staged' > Limit THEN "rebase" ELSE "read") \in {"idle", "read"} \cup Claims \cup Rebases
          /\ poll.budget - 1 \in Int
      BY <2>2 DEF Rebases
    <3> HIDE DEF NoPoll
    <3> QED
      BY <1>3, <2>2, <3>1, <3>2 DEF PollT
  <2>5. PTypes'
    <3>1. stg' \in [0..Depth - 1 -> Lost..Capacity]
      BY <1>3, <2>1, <2>2, <2>3
    <3>2. src' \in Nat /\ staged' \in Nat
      BY <2>2, <2>3
    <3> QED
      BY <1>0, <1>3, <2>4, <3>1, <3>2 DEF PInv, PTypes
  <2>6. /\ poll'.pc \in {"rebase", "read"} /\ poll'.view = poll.view
        /\ poll'.pc = IF staged + 1 > Limit THEN "rebase" ELSE "read"
        /\ ~poll'.inflight /\ ~poll'.stolen
    BY <1>3, <2>3 DEF NoPoll
  <2>7. Ring' /\ Queue' /\ src' = cons' + (staged' - played')
    <3>1. Shift(staged + 1, 0)
      BY <1>3, <2>2, <2>3, NoShift DEF PInv
    <3> QED
      BY <1>3, <2>1, <2>3, <3>1, StageKeeps DEF PInv
  <2>8. Cursors'
    <3>1. staged <= Limit \/ staged < 2 * Depth - Tx
      BY <1>0 DEF PInv, Cursors
    <3>2. played' = played /\ played <= staged
      BY <1>3 DEF PInv, Cursors
    <3> QED
      BY <2>1, <2>2, <2>3, <2>6, <2>7, <3>1, <3>2 DEF Cursors, Claims, Rebases
  <2>9. Views'
    BY <1>0, <2>1, <2>2, <2>3, <2>6 DEF PInv, Views, Claims
  <2>10. Where'
    BY <1>0, <1>3, <2>6 DEF PInv, Where
  <2>11. Converter'
    BY <1>3, <2>1, <2>3, <2>6 DEF Converter
  <2> QED
    BY <2>5, <2>7, <2>8, <2>9, <2>10, <2>11 DEF PInv
<1> QED
  BY <1>1, <1>2, <1>3 DEF PollPublish

LEMMA PollRebaseInv ==
  ASSUME PInv, PollRebase
  PROVE  PInv'
<1>0. /\ poll.pc = "rebase" /\ isr.pc = "off"
      /\ poll' = [poll EXCEPT !.pc = "apply", !.rebase = Rebase]
      /\ UNCHANGED <<lease, cursors, conv, isr, host>>
  BY DEF PollRebase, Main
<1>1. Rebase = played - (played % Depth) /\ Rebase \in Nat
  <2>1. played \in Nat /\ staged \in Nat /\ played <= staged
    BY DEF PInv, PTypes, Cursors
  <2>2. Rebase = played - (played % Depth)
    <3>1. played < staged \/ played = staged
      BY <2>1
    <3> QED
      BY <3>1 DEF Rebase
  <2> QED
    BY <2>1, <2>2, ModRound, DepthNat
<1>2. poll \in PollT
  BY DEF PInv, PTypes
<1>3. PTypes'
  <2>1. poll' \in PollT
    BY <1>0, <1>1, <1>2 DEF PollT, Rebases
  <2> QED
    BY <1>0, <2>1 DEF PInv, PTypes, cursors
<1>4. /\ poll'.pc = "apply" /\ poll'.rebase = Rebase /\ poll'.inflight = poll.inflight
      /\ poll'.stolen = poll.stolen /\ poll'.view = poll.view
  BY <1>0, <1>2 DEF PollT
<1>5. Cursors'
  BY <1>0, <1>4 DEF PInv, Cursors, Claims, Rebases, cursors
<1>6. Views'
  BY <1>0, <1>4 DEF PInv, Views, Claims, cursors
<1>7. Ring' /\ Queue'
  BY <1>0, SameCursors DEF PInv
<1>8. Where'
  BY <1>0, <1>1, <1>4 DEF PInv, Where, cursors
<1>9. Converter'
  BY <1>0, <1>4 DEF PInv, Where, Converter, cursors
<1> QED
  BY <1>3, <1>5, <1>6, <1>7, <1>8, <1>9 DEF PInv

(* No interrupt moved the cursors since the poll computed its rebase.      *)
LEMMA PollApplyInv ==
  ASSUME PInv, PollApply
  PROVE  PInv'
<1>0. /\ poll.pc = "apply" /\ isr.pc = "off"
      /\ staged' = (staged - poll.rebase) % Word /\ played' = (played - poll.rebase) % Word
      /\ poll' = [poll EXCEPT !.pc = "read", !.rebase = 0]
      /\ UNCHANGED <<lease, cons, src, stg, tx, conv, isr, host>>
  BY DEF PollApply, Main
<1>1. poll \in PollT
  BY DEF PInv, PTypes
<1> DEFINE r == played - (played % Depth)
<1>2. /\ played \in Nat /\ staged \in Nat /\ played <= staged /\ staged <= Word - 1
      /\ staged - played <= Depth - Tx /\ Depth \in Nat /\ Tx \in Nat /\ Word \in Nat
  BY OutstandingIs, Sizes DEF PInv, PTypes, Cursors, Runway
<1>3. r \in Nat /\ r <= played /\ played - r < Depth /\ KeepsSlots(r) /\ poll.rebase = r
  BY <1>0, <1>2, ModRound, DepthNat DEF PInv, Where, KeepsSlots
<1> HIDE DEF r
<1>4. staged' = staged - r /\ played' = played - r
  <2>1. staged - r \in 0..Word - 1 /\ played - r \in 0..Word - 1
    BY <1>2, <1>3
  <2> QED
    BY <1>0, <1>3, <2>1, ModSmall, DepthNat
<1>5. Ring' /\ Queue' /\ src' = cons' + (staged' - played')
  <2>1. Shift(staged, r)
    BY <1>3, <1>4 DEF Shift
  <2> QED
    BY <1>0, <2>1, ShiftKeeps DEF PInv
<1>6. /\ poll'.pc = "read" /\ poll'.inflight = poll.inflight
      /\ poll'.stolen = poll.stolen /\ poll'.view = poll.view
  BY <1>0, <1>1 DEF PollT
<1>7. PTypes'
  <2>1. poll' \in PollT
    BY <1>0, <1>1 DEF PollT
  <2>2. staged' \in Nat /\ played' \in Nat
    BY <1>2, <1>3, <1>4
  <2> QED
    BY <1>0, <2>1, <2>2 DEF PInv, PTypes
<1>8. Cursors'
  <2>1. played' <= staged' /\ staged' - played' <= Depth - Tx /\ staged' < 2 * Depth - Tx
    BY <1>2, <1>3, <1>4
  <2>2. Runway + 1 = Depth - Tx
    BY <1>2 DEF Runway
  <2> QED
    BY <1>5, <1>6, <2>1, <2>2 DEF Cursors, Claims, Rebases
<1>9. Views'
  BY <1>0, <1>6 DEF PInv, Views, Claims
<1>10. Where'
  <2>1. lease.state = "none" => played' = 0 /\ staged' = 0
    <3>1. lease.state = "none" => played = 0 /\ staged = 0
      BY DEF PInv, Where
    <3> QED
      BY <3>1, <1>2, <1>3, <1>4
  <2> QED
    BY <1>0, <1>6, <2>1 DEF PInv, Where
<1>11. Converter'
  BY <1>0, <1>6 DEF PInv, Where, Converter
<1> QED
  BY <1>5, <1>7, <1>8, <1>9, <1>10, <1>11 DEF PInv

-----------------------------------------------------------------------------
(* The interrupt *)

(* What every IRQ finds: a lease, and no rebase half done.                 *)
LEMMA InterruptFinds ==
  ASSUME ~RebaseRace, PInv, Interrupt
  PROVE  isr.pc = "off" /\ lease.state # "none" /\ poll.pc # "apply"
BY DEF Interrupt

(* A step of the IRQ that only moves on in the IRQ.                        *)
LEMMA IsrOnly ==
  ASSUME PInv, isr' \in IsrT, UNCHANGED <<lease, cursors, conv, poll, host>>,
         lease.state # "none", poll.pc # "apply",
         isr'.pc \in {"catchup", "retire", "fill"} => lease.live,
         isr'.pc \in {"catchup", "retire"} => isr'.moved <= Len(tx)
  PROVE  PInv'
<1>1. PTypes' /\ Cursors' /\ Views' /\ Converter'
  BY DEF PInv, PTypes, Cursors, Views, Converter, cursors
<1>2. Ring' /\ Queue'
  BY SameCursors DEF PInv
<1>3. Where'
  BY DEF PInv, Where, cursors
<1> QED
  BY <1>1, <1>2, <1>3 DEF PInv

LEMMA TickMissInv ==
  ASSUME ~RebaseRace, PInv, TickMiss
  PROVE  PInv'
<1>0. isr.pc = "off" /\ lease.state # "none" /\ poll.pc # "apply"
  BY InterruptFinds DEF TickMiss
<1>1. CASE Revoke
  BY <1>0, <1>1, DroppedInv DEF Revoke
<1>2. CASE /\ lease' = [lease EXCEPT !.age = @ + 1, !.valid = @ /\ host.line # "zero"]
           /\ isr' = [isr EXCEPT !.pc = "finish"] /\ Ages
           /\ UNCHANGED <<cursors, conv, poll, host>>
  <2>1. lease \in LeaseT /\ isr \in IsrT
    BY DEF PInv, PTypes
  <2>2. lease.age + 1 \in 0..Timeout /\ lease.valid \in BOOLEAN
    BY <1>2, <2>1, DepthNat DEF Ages, LeaseT
  <2>3. lease' \in LeaseT /\ isr' \in IsrT
    BY <1>2, <2>1, <2>2 DEF LeaseT, IsrT
  <2>4. /\ lease'.state = lease.state /\ lease'.live = lease.live /\ lease'.view = lease.view
        /\ isr'.pc = "finish"
    BY <1>2, <2>1 DEF LeaseT, IsrT
  <2>5. PTypes'
    BY <1>2, <2>3 DEF PInv, PTypes, cursors
  <2>6. Cursors' /\ Views' /\ Converter' /\ Where'
    BY <1>0, <1>2, <2>4 DEF PInv, Cursors, Views, Converter, Where, cursors
  <2>7. Ring' /\ Queue'
    BY <1>2, SameCursors DEF PInv
  <2> QED
    BY <2>5, <2>6, <2>7 DEF PInv
<1> QED
  BY <1>1, <1>2 DEF TickMiss

LEMMA TickFaultInv ==
  ASSUME ~RebaseRace, PInv, TickFault
  PROVE  PInv'
BY InterruptFinds, DroppedInv DEF TickFault, Revoke

(* Going live needs staged periods, so the converter has started, and no   *)
(* period was credited or queued before.                                   *)
LEMMA TickLineInv ==
  ASSUME ~RebaseRace, PInv, TickLine
  PROVE  PInv'
<1>0. isr.pc = "off" /\ lease.state # "none" /\ poll.pc # "apply"
  BY InterruptFinds DEF TickLine
<1> DEFINE age == IF host.beat THEN 0 ELSE lease.age + 1
           l == [lease EXCEPT !.age = age, !.paused = host.paused,
                              !.view = host.write, !.valid = TRUE]
<1>1. CASE Revoke
  BY <1>0, <1>1, DroppedInv DEF Revoke
<1>2. CASE /\ ~(age >= Timeout) /\ lease' = Activated(l)
           /\ IF lease'.live /\ ~lease.live
                THEN \E n \in 1..Target : tx' = [i \in 1..n |-> Silent]
                ELSE UNCHANGED tx
           /\ host' = [host EXCEPT !.beat = FALSE]
           /\ isr' = [isr EXCEPT !.pc = "finish"]
           /\ UNCHANGED <<cons, src, staged, played, stg, conv, poll>>
  <2>1. lease \in LeaseT /\ isr \in IsrT /\ host \in HostT
    BY DEF PInv, PTypes
  <2>2. age \in 0..Timeout
    BY <1>2, <2>1, DepthNat DEF LeaseT
  <2> HIDE DEF age
  <2>3. /\ l \in LeaseT /\ l.state = lease.state /\ l.live = lease.live
        /\ l.view = host.write
    BY <2>1, <2>2 DEF LeaseT, HostT
  <2> HIDE DEF l
  <2>4. /\ lease' \in LeaseT /\ lease'.state # "none" /\ lease'.view = host.write
        /\ lease.live => lease'.live
        /\ lease'.live /\ ~lease.live => Outstanding >= Target
    BY <1>0, <1>2, <2>3 DEF Activated, LeaseT
  <2>5. /\ isr' \in IsrT /\ isr'.pc = "finish"
        /\ host' \in HostT /\ host'.write = host.write
    BY <1>2, <2>1 DEF IsrT, HostT
  <2>6. CASE lease'.live /\ ~lease.live
    <3>1. PICK n \in 1..Target : tx' = [i \in 1..n |-> Silent]
      BY <1>2, <2>6
    <3>2. /\ tx' \in Seq(Silent..Word - 1) /\ Len(tx') = n
          /\ \A i \in DOMAIN tx' : tx'[i] = Silent
      <4>1. Silent \in Silent..Word - 1
        BY DepthNat DEF Silent
      <4> QED
        BY <3>1, <4>1, DepthNat
    <3>3. cons = 0 /\ src # 0
      <4>1. Outstanding = staged - played /\ Target \in Nat \ {0}
        BY OutstandingIs, DepthNat DEF PInv
      <4>2. cons = 0 /\ src = cons + (staged - played)
        BY <2>6 DEF PInv, Where, Cursors
      <4>3. staged \in Nat /\ played \in Nat
        BY DEF PInv, PTypes
      <4> QED
        BY <4>1, <4>2, <4>3, <2>4, <2>6
    <3>4. PTypes'
      BY <1>2, <2>4, <2>5, <3>2, DepthNat DEF PInv, PTypes
    <3>5. Cursors' /\ Views' /\ Where'
      BY <1>0, <1>2, <2>1, <2>4, <2>5, DepthNat
         DEF PInv, Cursors, Views, Where, HostT
    <3>6. Ring'
      BY <1>2 DEF PInv, Ring
    <3>7. Queue'
      <4>1. TagsOf(tx', Len(tx')) = 0
        BY <3>2, TagsSilent
      <4> QED
        BY <4>1, <3>2, <3>3, <1>2 DEF Queue
    <3>8. Converter'
      BY <1>0, <1>2, <3>3 DEF PInv, Converter
    <3> QED
      BY <3>4, <3>5, <3>6, <3>7, <3>8 DEF PInv
  <2>7. CASE ~(lease'.live /\ ~lease.live)
    <3>1. UNCHANGED cursors
      BY <1>2, <2>7 DEF cursors
    <3>2. lease'.live = lease.live
      BY <2>1, <2>4, <2>7 DEF LeaseT
    <3>3. PTypes'
      BY <1>2, <2>4, <2>5, <3>1 DEF PInv, PTypes, cursors
    <3>4. Cursors' /\ Views' /\ Where' /\ Converter'
      BY <1>0, <1>2, <2>1, <2>4, <2>5, <3>1, <3>2, DepthNat
         DEF PInv, Cursors, Views, Where, Converter, cursors, HostT
    <3>5. Ring' /\ Queue'
      BY <3>1, SameCursors DEF PInv
    <3> QED
      BY <3>3, <3>4, <3>5 DEF PInv
  <2> QED
    BY <2>6, <2>7
<1> QED
  BY <1>1, <1>2 DEF TickLine


(* A period staged by the IRQ is the one the source comes to next.         *)
LEMMA IsrStages ==
  ASSUME PInv, lease.state # "none", poll.pc # "apply",
         isr.pc \in {"finish", "catchup"}, isr' \in IsrT, isr'.pc = "catchup",
         isr'.moved <= Len(tx), lease.live,
         stg' = [stg EXCEPT ![staged % Depth] = src],
         RebaseFrom(staged + 1), src' = src + 1, src + 1 <= host.write,
         (staged + 1) - played <= Depth - Tx,
         UNCHANGED <<lease, cons, tx, host>>,
         poll' \in PollT, conv' \in Fresh..Capacity,
         poll'.pc = poll.pc, poll'.view = poll.view, poll'.src = poll.src,
         poll'.inflight = poll.inflight, poll'.stolen => poll.inflight,
         ~poll'.stolen => (staged + 1) - played <= Runway,
         poll.inflight => poll'.stolen,
         ~poll.inflight => conv' = src + 1,
         poll'.stolen => poll'.snap = src + 1
  PROVE  PInv'
<1>1. /\ src \in Nat /\ cons \in Nat /\ staged \in Nat /\ played \in Nat
      /\ host.write \in 0..Capacity /\ lease.view \in 0..Capacity
      /\ stg \in [0..Depth - 1 -> Lost..Capacity] /\ src \in Lost..Capacity
  <2>1. /\ src \in Nat /\ host.write \in 0..Capacity /\ lease.view \in 0..Capacity
        /\ cons \in Nat /\ staged \in Nat /\ played \in Nat
        /\ stg \in [0..Depth - 1 -> Lost..Capacity]
    BY DEF PInv, PTypes, HostT, LeaseT
  <2> QED
    BY <2>1, DepthNat, SMTT(30) DEF Lost
<1>2. /\ \E r : Shift(staged + 1, r)
      /\ played' \in Nat /\ staged' \in Nat /\ played' <= staged'
      /\ staged' - played' = (staged + 1) - played
      /\ staged' <= Limit \/ staged' < 2 * Depth - Tx
  <2>1. Runway + 1 = Depth - Tx
    BY Sizes DEF Runway
  <2> QED
    BY <2>1, RebaseFromIs DEF PInv
<1>3. Ring' /\ Queue' /\ src' = cons' + (staged' - played')
  BY <1>2, StageKeeps DEF PInv
<1>4. PTypes'
  <2>1. stg' \in [0..Depth - 1 -> Lost..Capacity]
    <3>1. stg' = [stg EXCEPT ![staged % Depth] = src]
      OBVIOUS
    <3> QED
      BY ONLY <1>1, <3>1
  <2>2. src' \in Nat
    BY <1>1
  <2> QED
    BY <1>2, <2>1, <2>2 DEF PInv, PTypes
<1>5. Cursors'
  <2>1. Runway + 1 = Depth - Tx
    BY Sizes DEF Runway
  <2> QED
    BY <1>2, <1>3, <2>1 DEF PInv, Cursors
<1>6. Views'
  BY <1>1 DEF PInv, Views
<1>7. Where'
  BY DEF PInv, Where
<1>8. Converter'
  BY DEF PInv, Converter
<1> QED
  BY <1>3, <1>4, <1>5, <1>6, <1>7, <1>8 DEF PInv

LEMMA OwedRange ==
  ASSUME PTypes, NEW k \in 1..Len(tx), NEW guard \in Guards
  PROVE  Owed(k, guard) \in 0..Tx /\ Owed(k, guard) <= Target
<1>1. Len(tx) \in Nat /\ Len(tx) <= Target /\ Target = Tx - 2 /\ Tx \in Nat /\ 2 < Tx
  BY Sizes DEF PTypes, Target
<1>2. guard \in 0..Tx
  BY Sizes DEF Guards
<1> DEFINE deficit == Target - (IF k < Len(tx) THEN Len(tx) - k ELSE 1)
<1>3. deficit \in 0..Tx /\ deficit <= Target
  BY <1>1
<1>4. Owed(k, guard) = IF deficit < guard THEN deficit ELSE guard
  BY DEF Owed
<1> HIDE DEF deficit
<1> QED
  BY <1>1, <1>2, <1>3, <1>4

(* fabric_lease_finish_inflight converts the claimed period from the       *)
(* converter as it was at the claim.                                       *)
LEMMA FinishInflightInv ==
  ASSUME PInv, FinishInflight
  PROVE  PInv'
<1>0. /\ isr.pc = "finish" /\ lease.live /\ lease.state # "none" /\ poll.pc # "apply"
      /\ UNCHANGED <<lease, cons, tx, conv, host>>
  BY DEF FinishInflight, PInv, Where
<1>1. PICK k \in 1..Len(tx), guard \in Guards :
       /\ isr' = [pc |-> "catchup", moved |-> k, left |-> Owed(k, guard)]
       /\ IF poll.inflight /\ ~poll.stolen /\ Outstanding < Owed(k, guard) /\ src = poll.isrc
          THEN /\ stg' = [stg EXCEPT ![staged % Depth] = Output(poll.snap, src)]
               /\ RebaseFrom(staged + 1) /\ src' = src + 1
               /\ poll' = [poll EXCEPT !.stolen = TRUE, !.snap = Fed(@, src)]
          ELSE UNCHANGED <<stg, staged, played, src, poll>>
  BY DEF FinishInflight
<1>2. isr' \in IsrT /\ isr'.pc = "catchup" /\ isr'.moved <= Len(tx)
  <2>1. Len(tx) \in Nat /\ Len(tx) <= Target /\ Owed(k, guard) \in 0..Tx
    BY OwedRange DEF PInv, PTypes
  <2> QED
    BY <1>1, <2>1, DepthNat DEF IsrT
<1>3. CASE /\ poll.inflight /\ ~poll.stolen /\ Outstanding < Owed(k, guard)
           /\ stg' = [stg EXCEPT ![staged % Depth] = Output(poll.snap, src)]
           /\ RebaseFrom(staged + 1) /\ src' = src + 1
           /\ poll' = [poll EXCEPT !.stolen = TRUE, !.snap = Fed(@, src)]
  <2>1. poll.snap = src /\ poll.src = src /\ poll.pc \in {"fir", "publish"}
    BY <1>0, <1>3 DEF PInv, Converter, Where
  <2>2. src + 1 <= host.write /\ src + 1 <= Capacity /\ src \in Nat
    <3>1. src + 1 <= poll.view /\ poll.view <= host.write
      BY <1>0, <2>1 DEF PInv, Views, Claims
    <3>2. host.write \in 0..Capacity /\ poll.view \in 0..Capacity /\ src \in Nat
      BY DEF PInv, PTypes, HostT, PollT
    <3> QED
      BY <3>1, <3>2, DepthNat
  <2>3. Output(poll.snap, src) = src /\ Fed(poll.snap, src) = src + 1
    BY <2>1 DEF Output, Fed
  <2>4. (staged + 1) - played <= Depth - Tx
    <3>1. Outstanding = staged - played /\ Owed(k, guard) <= Target
          /\ Owed(k, guard) \in 0..Tx
      BY OutstandingIs, OwedRange DEF PInv
    <3>2. staged \in Nat /\ played \in Nat
      BY DEF PInv, PTypes
    <3>3. Outstanding < Owed(k, guard)
      BY <1>3
    <3>4. Target = Tx - 2 /\ Depth >= 2 * Tx - 2 /\ Depth \in Nat /\ Tx \in Nat
      BY Sizes DEF Target
    <3> QED
      BY <3>1, <3>2, <3>3, <3>4
  <2>5. poll \in PollT /\ conv' \in Fresh..Capacity
    BY <1>0 DEF PInv, PTypes
  <2>6. poll' = [poll EXCEPT !.stolen = TRUE, !.snap = src + 1]
    BY <1>3, <2>3
  <2>7. /\ poll' \in PollT
        /\ poll'.pc = poll.pc /\ poll'.view = poll.view /\ poll'.src = poll.src
        /\ poll'.inflight = poll.inflight /\ poll'.stolen /\ poll'.snap = src + 1
    <3>1. src + 1 \in Fresh..Capacity
      BY <2>2, DepthNat DEF Fresh
    <3> QED
      BY <2>5, <2>6, <3>1 DEF PollT
  <2> QED
    BY <1>0, <1>2, <1>3, <2>2, <2>3, <2>4, <2>5, <2>7, IsrStages
<1>4. CASE UNCHANGED <<stg, staged, played, src, poll>>
  BY <1>0, <1>2, <1>4, IsrOnly DEF cursors
<1> QED
  BY <1>1, <1>3, <1>4

(* fabric_lease_catchup_unclaimed goes on from the converter that is at    *)
(* the period: its own when it has taken the poll's, else the lease's.     *)
LEMMA CatchUpInv ==
  ASSUME PInv, CatchUp
  PROVE  PInv'
<1>0. /\ isr.pc = "catchup" /\ lease.live /\ lease.state # "none" /\ poll.pc # "apply"
      /\ isr.moved <= Len(tx) /\ MayCatchUp
      /\ RebaseFrom(staged + 1) /\ src' = src + 1
      /\ UNCHANGED <<lease, cons, tx, isr, host>>
  BY DEF CatchUp, PInv, Where
<1>1. /\ isr' \in IsrT /\ isr'.pc = "catchup" /\ isr'.moved <= Len(tx)
      /\ poll \in PollT /\ conv \in Fresh..Capacity
  BY <1>0 DEF PInv, PTypes
<1>2. /\ src + 1 <= host.write /\ src + 1 <= Capacity /\ src \in Nat
      /\ src + 1 \in Fresh..Capacity
  <2>1. src + 1 <= lease.view /\ lease.view <= host.write
    BY <1>0 DEF MayCatchUp, PInv, Views
  <2>2. host.write \in 0..Capacity /\ lease.view \in 0..Capacity /\ src \in Nat
    BY DEF PInv, PTypes, HostT, LeaseT
  <2> QED
    BY <2>1, <2>2, DepthNat DEF Fresh
<1>3. (staged + 1) - played <= Runway /\ (staged + 1) - played <= Depth - Tx
  <2>1. Outstanding = staged - played /\ Outstanding < Runway
    BY <1>0, OutstandingIs DEF PInv, MayCatchUp
  <2>2. staged \in Nat /\ played \in Nat
    BY DEF PInv, PTypes
  <2> QED
    BY <2>1, <2>2, Sizes DEF Runway
<1>4. poll.inflight <=> poll.stolen
  BY <1>0, <1>1 DEF PInv, Where, MayCatchUp, PollT
<1>5. CASE poll.stolen
  <2>1. poll.snap = src
    BY <1>0, <1>5 DEF PInv, Converter
  <2>2. Output(poll.snap, src) = src /\ Fed(poll.snap, src) = src + 1
    BY <2>1 DEF Output, Fed
  <2>3. stg' = [stg EXCEPT ![staged % Depth] = src]
        /\ poll' = [poll EXCEPT !.snap = src + 1] /\ conv' = conv
    BY <1>5, <2>2 DEF CatchUp
  <2>4. /\ poll' \in PollT
        /\ poll'.pc = poll.pc /\ poll'.view = poll.view /\ poll'.src = poll.src
        /\ poll'.inflight = poll.inflight /\ poll'.stolen = poll.stolen
        /\ poll'.snap = src + 1
    BY <1>1, <1>2, <2>3 DEF PollT
  <2> QED
    BY <1>0, <1>1, <1>2, <1>3, <1>4, <1>5, <2>3, <2>4, IsrStages
<1>6. CASE ~poll.stolen
  <2>1. conv = src
    BY <1>0, <1>4, <1>6 DEF PInv, Converter
  <2>2. Output(conv, src) = src /\ Fed(conv, src) = src + 1
    BY <2>1 DEF Output, Fed
  <2>3. stg' = [stg EXCEPT ![staged % Depth] = src] /\ conv' = src + 1 /\ poll' = poll
    BY <1>6, <2>2 DEF CatchUp
  <2> QED
    BY <1>0, <1>1, <1>2, <1>3, <1>4, <1>6, <2>3, IsrStages
<1> QED
  BY <1>5, <1>6

LEMMA IsrMovesOn ==
  ASSUME PInv, NotLive \/ CaughtUp \/ FillEnd
  PROVE  PInv'
<1>1. isr.pc # "off" /\ UNCHANGED <<lease, cursors, conv, poll, host>>
  BY DEF NotLive, CaughtUp, FillEnd, Idle1
<1>2. lease.state # "none" /\ poll.pc # "apply"
  BY <1>1 DEF PInv, Where
<1>3. isr \in IsrT
  BY DEF PInv, PTypes
<1>4. CASE NotLive \/ FillEnd
  <2>1. isr' \in IsrT /\ isr'.pc = "off"
    BY <1>4, DepthNat DEF NotLive, FillEnd, Idle1, NoIsr, IsrT
  <2> QED
    BY <1>1, <1>2, <2>1, IsrOnly
<1>5. CASE CaughtUp
  <2>1. isr' \in IsrT /\ isr'.pc = "retire" /\ isr'.moved = isr.moved
    <3>1. 0 \in 0..Tx
      BY DepthNat
    <3>2. isr' = [isr EXCEPT !.pc = "retire", !.left = 0]
      BY <1>5 DEF CaughtUp
    <3> QED
      BY <1>3, <3>1, <3>2 DEF IsrT
  <2>2. lease.live /\ isr.moved <= Len(tx)
    BY <1>5 DEF CaughtUp, PInv, Where
  <2> QED
    BY <1>1, <1>2, <2>1, <2>2, IsrOnly
<1> QED
  BY <1>4, <1>5


(* The cursors counted again from the new credit.                          *)
SubOf(x, r) == IF x < 0 THEN x ELSE IF x < r THEN Lost ELSE x - r
Sub0Of(x, r) == IF x < r THEN 0 ELSE x - r

LEMMA SubTypes ==
  ASSUME NEW r \in Nat
  PROVE  /\ \A x \in Lost..Capacity : SubOf(x, r) \in Lost..Capacity
         /\ \A x \in Fresh..Capacity : SubOf(x, r) \in Fresh..Capacity
         /\ \A x \in 0..Capacity : Sub0Of(x, r) \in 0..Capacity
         /\ \A x \in Nat : r <= x => SubOf(x, r) = x - r /\ Sub0Of(x, r) = x - r
BY DepthNat DEF SubOf, Sub0Of, Lost, Fresh

LEMMA RestSeq ==
  ASSUME NEW S, NEW s \in Seq(S), NEW m \in 0..Len(s)
  PROVE  /\ SubSeq(s, m + 1, Len(s)) \in Seq(S)
         /\ Len(SubSeq(s, m + 1, Len(s))) = Len(s) - m
         /\ DOMAIN SubSeq(s, m + 1, Len(s)) = 1..(Len(s) - m)
         /\ \A j \in 1..(Len(s) - m) : SubSeq(s, m + 1, Len(s))[j] = s[j + m]
OBVIOUS

(* The uncredited periods still queued keep their slots: dropping the ones *)
(* the DMA left takes as many tags off the queue as periods off the cursor.*)
LEMMA RetireQueue ==
  ASSUME PTypes, Queue, NEW m \in 0..Len(tx),
         played' = played, cons' = cons - TagsOf(tx, m),
         tx' = LET rest == SubSeq(tx, m + 1, Len(tx))
               IN  IF rest = << >> THEN <<Silent>> ELSE rest
  PROVE  Queue' /\ tx' \in Seq(Silent..Word - 1) /\ Len(tx') <= Target
<1> DEFINE rest == SubSeq(tx, m + 1, Len(tx))
           r == TagsOf(tx, m)
<1>1. /\ tx \in Seq(Silent..Word - 1) /\ Len(tx) \in Nat /\ Len(tx) <= Target
      /\ cons \in Nat /\ played \in Nat /\ TagsOf(tx, Len(tx)) = cons /\ m \in Nat
  BY DEF PTypes, Queue
<1>2. /\ rest \in Seq(Silent..Word - 1) /\ Len(rest) = Len(tx) - m
      /\ DOMAIN rest = 1..(Len(tx) - m)
      /\ \A j \in 1..(Len(tx) - m) : rest[j] = tx[j + m]
  BY <1>1, RestSeq, ZenonT(60)
<1>3. \A k \in Nat : TagsOf(tx, k) \in Nat
  BY TagsNat
<1>4. \A n \in 0..Len(tx) - m : TagsOf(rest, n) = TagsOf(tx, m + n) - r
  BY <1>1, TagsRest
<1>5. CASE rest = << >>
  <2>1. tx' = <<Silent>> /\ m = Len(tx)
    <3>1. Len(rest) = 0
      BY <1>5
    <3>2. tx' = <<Silent>>
      BY <1>5
    <3> HIDE DEF rest
    <3> QED
      BY <3>1, <3>2, <1>1, <1>2
  <2>2. cons' = 0
    BY <2>1, <1>1
  <2>3. Silent \in Silent..Word - 1 /\ 1 <= Target
    BY DepthNat DEF Silent
  <2>4. /\ Len(tx') = 1 /\ DOMAIN tx' = 1..1 /\ \A i \in 1..1 : tx'[i] = Silent
        /\ tx' \in Seq(Silent..Word - 1)
    BY <2>1, <2>3
  <2>5. TagsOf(tx', 1) = 0
    BY <2>4, TagsSilent
  <2> QED
    BY <2>2, <2>3, <2>4, <2>5 DEF Queue
<1>6. CASE rest # << >>
  <2>1. tx' = rest
    BY <1>6
  <2> HIDE DEF rest, r
  <2>2. /\ tx' \in Seq(Silent..Word - 1) /\ Len(tx') = Len(tx) - m /\ Len(tx') <= Target
        /\ DOMAIN tx' = 1..(Len(tx) - m)
    <3>1. Len(tx) - m <= Target
      BY <1>1, DepthNat
    <3> QED
      BY <2>1, <1>2, <3>1
  <2>3. TagsOf(tx', Len(tx')) = cons'
    <3>1. m + (Len(tx) - m) = Len(tx) /\ Len(tx) - m \in 0..Len(tx) - m
      BY <1>1
    <3>2. TagsOf(rest, Len(tx) - m) = TagsOf(tx, Len(tx)) - r
      BY <3>1, <1>4
    <3> QED
      BY <3>2, <2>1, <2>2, <1>1 DEF r
  <2>4. ASSUME NEW j \in DOMAIN tx', tx'[j] # Silent
        PROVE  tx'[j] % Depth = (played' - cons' + TagsOf(tx', j - 1)) % Depth
    <3>1. /\ j \in 1..Len(tx) - m /\ tx'[j] = tx[j + m]
          /\ j + m \in DOMAIN tx /\ (j + m) - 1 = m + (j - 1) /\ j - 1 \in 0..Len(tx) - m
          /\ (j + m) - 1 \in Nat
      BY <2>1, <2>2, <1>1, <1>2, SMTT(30)
    <3>2. tx[j + m] % Depth = (played - cons + TagsOf(tx, (j + m) - 1)) % Depth
      BY <2>4, <3>1 DEF Queue
    <3>3. TagsOf(tx', j - 1) = TagsOf(tx, (j + m) - 1) - r
      BY <2>1, <3>1, <1>4
    <3>4. TagsOf(tx, (j + m) - 1) \in Nat /\ r \in Nat
      BY <3>1, <1>1, <1>3 DEF r
    <3>5. played' - cons' + TagsOf(tx', j - 1) = played - cons + TagsOf(tx, (j + m) - 1)
      BY <3>3, <3>4, <1>1, SMTT(30) DEF r
    <3> QED
      BY <3>1, <3>2, <3>5
  <2>5. Queue'
    BY <2>3, <2>4 DEF Queue
  <2> QED
    BY <2>2, <2>5
<1> QED
  BY <1>5, <1>6

LEMMA RetireInv ==
  ASSUME PInv, Retire
  PROVE  PInv'
<1> DEFINE m == isr.moved
           r == TagsOf(tx, m)
<1>0. /\ isr.pc = "retire" /\ lease.live /\ lease.state # "none" /\ poll.pc # "apply"
      /\ m <= Len(tx) /\ UNCHANGED <<staged, played>>
  BY DEF Retire, PInv, Where
<1>1. /\ m \in 0..Len(tx) /\ m \in Nat /\ Len(tx) \in Nat
      /\ cons \in Nat /\ src \in Nat /\ staged \in Nat /\ played \in Nat
      /\ lease \in LeaseT /\ poll \in PollT /\ host \in HostT /\ isr \in IsrT
      /\ conv \in Fresh..Capacity /\ stg \in [0..Depth - 1 -> Lost..Capacity]
  BY <1>0 DEF PInv, PTypes, IsrT
<1> HIDE DEF m
<1>2. r \in Nat /\ r <= cons /\ cons <= src
  <2>1. r \in Nat /\ r <= TagsOf(tx, Len(tx))
    BY <1>0, <1>1, TagsNat, TagsMono
  <2> QED
    BY <2>1, <1>1 DEF PInv, Queue, Cursors
<1>3. (IF Tagged(m) < cons THEN Tagged(m) ELSE cons) = r
  BY <1>1, <1>2, TaggedIs
<1> HIDE DEF r
<1>4. /\ cons' = cons - r /\ src' = Sub0Of(src, r) /\ conv' = SubOf(conv, r)
      /\ stg' = [i \in 0..Depth - 1 |-> SubOf(stg[i], r)]
      /\ lease' = [lease EXCEPT !.view = Sub0Of(@, r)]
      /\ host' = [host EXCEPT !.write = Sub0Of(@, r)]
      /\ poll' = [poll EXCEPT !.src = SubOf(@, r), !.view = Sub0Of(@, r),
                              !.out = SubOf(@, r), !.snap = SubOf(@, r),
                              !.isrc = SubOf(@, r)]
  BY <1>3, ZenonT(60) DEF Retire, SubOf, Sub0Of, m
<1>5. PICK guard \in Guards : isr' = [pc |-> "fill", moved |-> 0, left |-> guard]
  BY DEF Retire
<1>6. Queue' /\ tx' \in Seq(Silent..Word - 1) /\ Len(tx') <= Target
  <2>1. tx' = LET rest == SubSeq(tx, m + 1, Len(tx))
              IN  IF rest = << >> THEN <<Silent>> ELSE rest
    BY DEF Retire, m
  <2> QED
    BY <1>0, <1>1, <1>4, <2>1, RetireQueue DEF PInv, r
<1>7. src' = src - r /\ cons' \in Nat /\ src' \in Nat
  BY <1>1, <1>2, <1>4, SubTypes
<1>8. isr' \in IsrT /\ isr'.pc = "fill"
  <2>1. guard \in 0..Tx /\ 0 \in 0..Target
    BY Sizes DEF Guards, Target
  <2> QED
    BY <1>5, <2>1 DEF IsrT
<1>9. /\ lease' \in LeaseT /\ lease'.view = Sub0Of(lease.view, r)
      /\ lease'.state = lease.state /\ lease'.live = lease.live
  <2>1. Sub0Of(lease.view, r) \in 0..Capacity
    BY <1>1, <1>2, SubTypes DEF LeaseT
  <2> QED
    BY <1>1, <1>4, <2>1 DEF LeaseT
<1>10. host' \in HostT /\ host'.write = Sub0Of(host.write, r)
  <2>1. Sub0Of(host.write, r) \in 0..Capacity
    BY <1>1, <1>2, SubTypes DEF HostT
  <2> QED
    BY <1>1, <1>4, <2>1 DEF HostT
<1>11. /\ poll' \in PollT /\ poll'.pc = poll.pc /\ poll'.staged = poll.staged
       /\ poll'.inflight = poll.inflight /\ poll'.stolen = poll.stolen
       /\ poll'.src = SubOf(poll.src, r) /\ poll'.view = Sub0Of(poll.view, r)
       /\ poll'.out = SubOf(poll.out, r) /\ poll'.snap = SubOf(poll.snap, r)
       /\ poll'.isrc = SubOf(poll.isrc, r)
  <2>1. /\ SubOf(poll.src, r) \in Lost..Capacity /\ SubOf(poll.out, r) \in Lost..Capacity
        /\ SubOf(poll.isrc, r) \in Lost..Capacity /\ SubOf(poll.snap, r) \in Fresh..Capacity
        /\ Sub0Of(poll.view, r) \in 0..Capacity
    BY <1>1, <1>2, SubTypes DEF PollT
  <2> QED
    BY <1>1, <1>4, <2>1 DEF PollT
<1>12. PTypes'
  <2>1. conv' \in Fresh..Capacity
    BY <1>1, <1>2, <1>4, SubTypes
  <2>2. stg' \in [0..Depth - 1 -> Lost..Capacity]
    BY <1>1, <1>2, <1>4, SubTypes
  <2> QED
    BY <1>0, <1>1, <1>6, <1>7, <1>8, <1>9, <1>10, <1>11, <2>1, <2>2 DEF PTypes
<1>13. Cursors'
  <2>1. src' = cons' + (staged' - played')
    BY <1>0, <1>1, <1>2, <1>4, <1>7 DEF PInv, Cursors
  <2> QED
    BY <1>0, <1>11, <2>1 DEF PInv, Cursors
<1>14. Views'
  <2>1. /\ lease.view \in 0..Capacity /\ host.write \in 0..Capacity
        /\ poll.view \in 0..Capacity /\ poll.src \in Lost..Capacity
    BY <1>1 DEF LeaseT, HostT, PollT
  <2>2. \A x, y \in Nat : x <= y => Sub0Of(x, r) <= Sub0Of(y, r)
    BY <1>2 DEF Sub0Of
  <2>3. lease'.view <= host'.write
    BY <2>1, <2>2, <1>9, <1>10, DepthNat DEF PInv, Views
  <2>4. src' <= host'.write
    <3>1. src <= host.write /\ src \in Nat /\ host.write \in Nat
      BY <2>1, <1>1, DepthNat DEF PInv, Views
    <3>2. src' = Sub0Of(src, r) /\ host'.write = Sub0Of(host.write, r)
      BY <1>4, <1>10
    <3> QED
      BY <3>1, <3>2, <2>2
  <2>5. poll'.view <= host'.write
    BY <2>1, <2>2, <1>0, <1>10, <1>11, DepthNat DEF PInv, Views
  <2>6. poll'.pc \in Claims => poll'.src + 1 <= poll'.view
    BY <2>1, <1>2, <1>11, DepthNat DEF PInv, Views, SubOf, Sub0Of, Lost
  <2> QED
    BY <2>3, <2>4, <2>5, <2>6 DEF Views
<1>15. Ring'
  <2> SUFFICES ASSUME NEW p \in 0..src' - 1
               PROVE  stg'[(played' - cons' + p) % Depth] = p
    BY DEF Ring
  <2> DEFINE y == (played - cons + (p + r)) % Depth
  <2>1. p + r \in 0..src - 1 /\ p \in Nat /\ p + r \in Nat
    BY <1>1, <1>2, <1>7
  <2>2. played' - cons' + p = played - cons + (p + r)
    BY <1>0, <1>1, <1>2, <1>4, <2>1
  <2>3. stg[y] = p + r
    BY <2>1 DEF PInv, Ring
  <2>4. y \in 0..Depth - 1
    <3>1. played - cons + (p + r) \in Int
      BY <1>1, <1>2, <2>1
    <3> QED
      BY <3>1, ModDef, DepthNat
  <2> HIDE DEF y
  <2>5. stg'[y] = SubOf(p + r, r)
    BY <1>4, <2>3, <2>4
  <2>6. SubOf(p + r, r) = p
    BY <1>2, <2>1, SubTypes
  <2> QED
    BY <2>2, <2>5, <2>6 DEF y
<1>16. Where'
  <2>1. Sub0Of(0, r) = 0
    BY <1>2 DEF Sub0Of
  <2> QED
    BY <1>0, <1>8, <1>9, <1>11, <2>1 DEF PInv, Where
<1>17. Converter'
  <2>1. SubOf(src, r) = src - r /\ SubOf(src + 1, r) = (src - r) + 1 /\ src # Fresh
    <3>1. src + 1 \in Nat /\ r <= src /\ r <= src + 1
      BY <1>1, <1>2
    <3>2. SubOf(src, r) = src - r /\ SubOf(src + 1, r) = (src + 1) - r
      BY <3>1, <1>1, <1>2, SubTypes
    <3> QED
      BY <3>1, <3>2, <1>1, <1>2 DEF Fresh
  <2>2. ~poll.inflight => conv = src
    BY <1>0 DEF PInv, Converter
  <2>3. ~poll.inflight => conv' = src'
    BY <1>4, <1>7, <2>1, <2>2
  <2>4. poll.stolen => poll'.snap = src'
    BY <1>0, <1>7, <1>11, <2>1 DEF PInv, Converter
  <2>5. poll.inflight /\ ~poll.stolen =>
          /\ poll'.src = src' /\ poll'.isrc = src' /\ poll'.snap = src'
          /\ poll'.staged = staged'
          /\ conv' = IF poll.pc = "fir" THEN src' ELSE src' + 1
          /\ poll.pc = "publish" => poll'.out = src'
    BY <1>0, <1>4, <1>7, <1>11, <2>1 DEF PInv, Converter
  <2> QED
    BY <1>11, <2>3, <2>4, <2>5 DEF Converter
<1> QED
  BY <1>6, <1>12, <1>13, <1>14, <1>15, <1>16, <1>17 DEF PInv


LEMMA AppendSeq ==
  ASSUME NEW S, NEW s \in Seq(S), NEW x \in S
  PROVE  /\ Append(s, x) \in Seq(S) /\ Len(Append(s, x)) = Len(s) + 1
         /\ Append(s, x)[Len(s) + 1] = x /\ \A i \in 1..Len(s) : Append(s, x)[i] = s[i]
         /\ DOMAIN Append(s, x) = 1..Len(s) + 1
OBVIOUS

LEMMA SeqElement ==
  ASSUME NEW S, NEW s \in Seq(S)
  PROVE  Len(s) \in Nat /\ DOMAIN s = 1..Len(s) /\ \A i \in DOMAIN s : s[i] \in S
OBVIOUS

LEMMA OneLess == \A x \in 0..Tx : x > 0 => x - 1 \in 0..Tx
BY DepthNat

LEMMA FillInv ==
  ASSUME PInv, Fill
  PROVE  PInv'
<1>0. /\ isr.pc = "fill" /\ isr.left > 0 /\ Len(tx) < Target /\ Outstanding > 0
      /\ lease.live /\ lease.state # "none" /\ poll.pc # "apply"
      /\ tx' = Append(tx, played) /\ played' = (played + 1) % Word /\ cons' = cons + 1
      /\ isr' = [isr EXCEPT !.left = @ - 1]
      /\ UNCHANGED <<lease, src, staged, stg, conv, poll, host>>
  BY DEF Fill, MayStage, PInv, Where
<1>1. /\ tx \in Seq(Silent..Word - 1) /\ Len(tx) \in Nat
      /\ cons \in Nat /\ src \in Nat /\ staged \in Nat /\ played \in Nat
      /\ isr \in IsrT /\ isr.left \in 0..Tx /\ TagsOf(tx, Len(tx)) = cons
      /\ src = cons + (staged - played)
  BY DEF PInv, PTypes, IsrT, Queue, Cursors
<1>2. played < staged /\ staged <= Word - 1
  <2>1. Outstanding = staged - played /\ staged + 1 <= Word - 1
    BY OutstandingIs DEF PInv
  <2>2. Outstanding > 0 /\ staged \in Nat /\ played \in Nat /\ Word \in Nat
    BY <1>0, <1>1, DepthNat
  <2> QED
    BY <2>1, <2>2
<1>3. played' = played + 1
  <2>1. played + 1 \in 0..Word - 1
    BY <1>1, <1>2, DepthNat
  <2> QED
    BY <1>0, <2>1, ModSmall, DepthNat
<1>4. played' - cons' = played - cons
  BY <1>0, <1>1, <1>3
<1>5. /\ played \in Silent..Word - 1 /\ played # Silent
  BY <1>1, <1>2, DepthNat DEF Silent
<1>6. /\ tx' \in Seq(Silent..Word - 1) /\ Len(tx') = Len(tx) + 1 /\ Len(tx') <= Target
      /\ tx'[Len(tx) + 1] = played /\ \A i \in 1..Len(tx) : tx'[i] = tx[i]
      /\ DOMAIN tx' = 1..Len(tx) + 1
  <2>1. Len(tx) + 1 <= Target
    BY <1>0, <1>1, DepthNat
  <2> QED
    BY <1>0, <1>1, <1>5, <2>1, AppendSeq
<1>7. \A n \in 0..Len(tx) : TagsOf(tx', n) = TagsOf(tx, n)
  BY <1>0, <1>1, <1>5, TagsAppend
<1>8. isr' \in IsrT /\ isr'.pc = "fill"
  <2>1. isr.left - 1 \in 0..Tx
    BY <1>0, <1>1, OneLess
  <2> QED
    BY <1>0, <1>1, <2>1 DEF IsrT
<1>9. PTypes'
  BY <1>0, <1>1, <1>3, <1>6, <1>8, SMTT(30) DEF PInv, PTypes
<1>10. Cursors'
  <2>1. staged' = staged /\ src' = src /\ cons' = cons + 1 /\ poll' = poll
    BY <1>0
  <2>2. /\ cons \in Nat /\ src \in Nat /\ staged \in Nat /\ played \in Nat
        /\ src = cons + (staged - played) /\ Runway \in Int
    BY <1>1, DepthNat DEF Runway
  <2>3. /\ played' <= staged' /\ src' = cons' + (staged' - played')
        /\ staged' - played' <= staged - played /\ staged' - played' \in Int
        /\ staged - played \in Int
    BY <2>1, <2>2, <1>2, <1>3
  <2> QED
    BY <2>1, <2>2, <2>3 DEF PInv, Cursors
<1>11. Views'
  BY <1>0 DEF PInv, Views
<1>12. Ring'
  BY <1>0, <1>4 DEF PInv, Ring
<1>13. Queue'
  <2>1. TagsOf(tx', Len(tx')) = cons'
    <3>1. TagsOf(tx', Len(tx) + 1) = TagsOf(tx', Len(tx)) + 1
      BY <1>1, <1>5, <1>6, TagsStep
    <3> QED
      BY <3>1, <1>0, <1>1, <1>6, <1>7, SMTT(30)
  <2>2. ASSUME NEW i \in DOMAIN tx', tx'[i] # Silent
        PROVE  tx'[i] % Depth = (played' - cons' + TagsOf(tx', i - 1)) % Depth
    <3>1. CASE i \in 1..Len(tx)
      <4>1. TagsOf(tx', i - 1) = TagsOf(tx, i - 1) /\ tx'[i] = tx[i] /\ i \in DOMAIN tx
        BY <3>1, <1>1, <1>6, <1>7
      <4> QED
        BY <2>2, <4>1, <1>4 DEF PInv, Queue
    <3>2. CASE i = Len(tx) + 1
      <4>1. TagsOf(tx', i - 1) = cons /\ tx'[i] = played
        BY <3>2, <1>1, <1>6, <1>7
      <4>2. played' - cons' + TagsOf(tx', i - 1) = played
        BY <4>1, <1>1, <1>4
      <4> QED
        BY <4>1, <4>2
    <3> QED
      BY <3>1, <3>2, <1>1, <1>6
  <2> QED
    BY <2>1, <2>2 DEF Queue
<1>14. Where'
  BY <1>0, <1>8 DEF PInv, Where
<1>15. Converter'
  BY <1>0 DEF PInv, Converter
<1> QED
  BY <1>9, <1>10, <1>11, <1>12, <1>13, <1>14, <1>15 DEF PInv

LEMMA FillPeerInv ==
  ASSUME PInv, FillPeer
  PROVE  PInv'
<1>0. /\ isr.pc = "fill" /\ isr.left > 0 /\ Len(tx) < Target
      /\ lease.live /\ lease.state # "none" /\ poll.pc # "apply"
      /\ tx' = Append(tx, Silent) /\ isr' = [isr EXCEPT !.left = @ - 1]
      /\ UNCHANGED <<lease, cons, src, staged, played, stg, conv, poll, host>>
  BY DEF FillPeer, PInv, Where
<1>1. /\ tx \in Seq(Silent..Word - 1) /\ Len(tx) \in Nat
      /\ isr \in IsrT /\ isr.left \in 0..Tx /\ TagsOf(tx, Len(tx)) = cons
      /\ Silent \in Silent..Word - 1
  BY DepthNat DEF PInv, PTypes, IsrT, Queue, Silent
<1>2. /\ tx' \in Seq(Silent..Word - 1) /\ Len(tx') = Len(tx) + 1 /\ Len(tx') <= Target
      /\ tx'[Len(tx) + 1] = Silent /\ \A i \in 1..Len(tx) : tx'[i] = tx[i]
      /\ DOMAIN tx' = 1..Len(tx) + 1
  <2>1. Len(tx) + 1 <= Target
    BY <1>0, <1>1, DepthNat
  <2> QED
    BY <1>0, <1>1, <2>1, AppendSeq
<1>3. \A n \in 0..Len(tx) : TagsOf(tx', n) = TagsOf(tx, n)
  BY <1>0, <1>1, TagsAppend
<1>4. isr' \in IsrT /\ isr'.pc = "fill"
  <2>1. isr.left - 1 \in 0..Tx
    BY <1>0, <1>1, OneLess
  <2> QED
    BY <1>0, <1>1, <2>1 DEF IsrT
<1>5. PTypes'
  BY <1>0, <1>2, <1>4 DEF PInv, PTypes
<1>6. Cursors' /\ Views' /\ Ring' /\ Converter'
  BY <1>0 DEF PInv, Cursors, Views, Ring, Converter
<1>7. Queue'
  <2>1. TagsOf(tx', Len(tx')) = cons'
    <3>1. TagsOf(tx', Len(tx) + 1) = TagsOf(tx', Len(tx))
      BY <1>1, <1>2, TagsStep
    <3> QED
      BY <3>1, <1>0, <1>1, <1>2, <1>3
  <2>2. ASSUME NEW i \in DOMAIN tx', tx'[i] # Silent
        PROVE  tx'[i] % Depth = (played' - cons' + TagsOf(tx', i - 1)) % Depth
    <3>1. i \in 1..Len(tx)
      BY <2>2, <1>1, <1>2
    <3>2. TagsOf(tx', i - 1) = TagsOf(tx, i - 1) /\ tx'[i] = tx[i] /\ i \in DOMAIN tx
      BY <3>1, <1>1, <1>2, <1>3
    <3> QED
      BY <2>2, <3>2, <1>0 DEF PInv, Queue
  <2> QED
    BY <2>1, <2>2 DEF Queue
<1>8. Where'
  BY <1>0, <1>4 DEF PInv, Where
<1> QED
  BY <1>5, <1>6, <1>7, <1>8 DEF PInv

-----------------------------------------------------------------------------
(* The theorems *)

LEMMA InitInv == Init => PInv
<1> SUFFICES ASSUME Init PROVE PInv
  OBVIOUS
<1>1. /\ lease = Free /\ host = NoHost /\ poll = NoPoll /\ isr = NoIsr
      /\ cons = 0 /\ src = 0 /\ staged = 0 /\ played = 0
      /\ conv = Fresh /\ tx = << >> /\ stg = [i \in 0..Depth - 1 |-> Lost]
  BY DEF Init
<1>2. PTypes
  <2>1. lease \in LeaseT /\ host \in HostT
    BY <1>1, DepthNat DEF LeaseT, HostT, Free, NoHost
  <2>2. poll \in PollT /\ isr \in IsrT
    BY <1>1, DepthNat DEF PollT, IsrT, NoPoll, NoIsr, Lost, Fresh
  <2>3. tx \in Seq(Silent..Word - 1) /\ Len(tx) <= Target
    BY <1>1, DepthNat
  <2> QED
    BY <1>1, <2>1, <2>2, <2>3, DepthNat DEF PTypes
<1>3. Cursors
  BY <1>1, Sizes DEF Cursors, Runway, Limit
<1>4. Views /\ Ring /\ Where /\ Converter
  BY <1>1 DEF Views, Ring, Where, Converter, Free, NoHost, NoPoll, NoIsr, Claims
<1>5. Queue
  BY <1>1, TagsZero DEF Queue
<1> QED
  BY <1>2, <1>3, <1>4, <1>5 DEF PInv

LEMMA ReleaseInv ==
  ASSUME PInv, audio_fabric_ring_release
  PROVE  PInv'
BY DroppedInv DEF audio_fabric_ring_release, Main

LEMMA NextInv ==
  ASSUME ~RebaseRace, PInv, [Next]_vars
  PROVE  PInv'
<1>1. CASE audio_fabric_ring_acquire
  BY <1>1, AcquireInv
<1>2. CASE audio_fabric_ring_release
  BY <1>2, ReleaseInv
<1>3. CASE Produce \/ Beat \/ Unpause \/ Pause \/ Die
  BY <1>3, ProducerInv
<1>4. CASE Poll
  BY <1>4, PollBeginInv, PollReadInv, PollClaimInv, PollFirInv, PollPublishInv,
     PollRebaseInv, PollApplyInv DEF Poll
<1>5. CASE Tick
  BY <1>5, TickMissInv, TickFaultInv, TickLineInv DEF Tick
<1>6. CASE IsrBody
  BY <1>6, IsrMovesOn, FinishInflightInv, CatchUpInv, RetireInv, FillInv, FillPeerInv
     DEF IsrBody
<1>7. CASE UNCHANGED vars
  <2>1. UNCHANGED <<lease, cursors, conv, poll, isr, host>>
    BY <1>7 DEF vars
  <2>2. PTypes' /\ Cursors' /\ Views' /\ Where' /\ Converter'
    BY <2>1 DEF PInv, PTypes, Cursors, Views, Where, Converter, cursors
  <2> QED
    BY <2>1, <2>2, SameCursors DEF PInv
<1> QED
  BY <1>1, <1>2, <1>3, <1>4, <1>5, <1>6, <1>7 DEF Next

(* Every variable of the lease keeps its type, and no cursor ever passes   *)
(* the granted ring.                                                       *)
LEMMA InvTypes == PInv => TypeOK
<1> SUFFICES ASSUME PInv PROVE TypeOK
  OBVIOUS
<1>1. /\ lease \in LeaseT /\ isr \in IsrT /\ host.write \in 0..Capacity
      /\ src \in Nat /\ cons \in Nat /\ staged \in Nat /\ played \in Nat
      /\ tx \in Seq(Silent..Word - 1) /\ Len(tx) <= Target
      /\ stg \in [0..Depth - 1 -> Lost..Capacity] /\ conv \in Fresh..Capacity
  BY DEF PInv, PTypes, HostT
<1>2. src <= host.write /\ src = cons + (staged - played) /\ played <= staged
      /\ staged <= Word - 1
  BY <1>1, OutstandingIs, DepthNat DEF PInv, Views, Cursors
<1>3. /\ cons \in 0..Capacity /\ src \in 0..Capacity
      /\ staged \in 0..Word - 1 /\ played \in 0..Word - 1
  BY <1>1, <1>2, DepthNat
<1>4. \A i \in DOMAIN tx : tx[i] \in Silent..Word - 1
  BY <1>1, SeqElement
<1>5. /\ lease \in [state : {"none", "leased", "active"}, valid : BOOLEAN, paused : BOOLEAN,
                view : 0..Capacity, age : 0..Timeout, live : BOOLEAN]
      /\ isr.pc \in {"off", "finish", "catchup", "retire", "fill"} /\ isr.moved \in 0..Target
      /\ isr.left \in 0..Tx
  BY <1>1 DEF LeaseT, IsrT
<1> QED
  BY <1>1, <1>3, <1>4, <1>5 DEF TypeOK

LEMMA InvInOrder == PInv => StagedInOrder
<1> SUFFICES ASSUME PInv PROVE StagedInOrder
  OBVIOUS
<1>1. /\ Outstanding = staged - played /\ staged + 1 <= Word - 1
      /\ src = cons + (staged - played)
      /\ src \in Nat /\ cons \in Nat /\ staged \in Nat /\ played \in Nat
  BY OutstandingIs DEF PInv, PTypes, Cursors
<1>2. ASSUME NEW k \in 0..Outstanding - 1
      PROVE  stg[((played + k) % Word) % Depth] = cons + k
  <2>1. /\ k \in Nat /\ played + k \in 0..Word - 1 /\ cons + k \in 0..src - 1
        /\ played - cons + (cons + k) = played + k
    BY <1>1, DepthNat
  <2>2. (played + k) % Word = played + k
    BY <2>1, ModSmall, DepthNat
  <2>3. stg[(played - cons + (cons + k)) % Depth] = cons + k
    BY <2>1 DEF PInv, Ring
  <2> QED
    BY <2>1, <2>2, <2>3
<1> QED
  BY <1>1, <1>2 DEF StagedInOrder

LEMMA InvQueue == PInv => QueueExact
<1> SUFFICES ASSUME PInv PROVE QueueExact
  OBVIOUS
<1>1. /\ src = cons + (staged - played) /\ played <= staged /\ Len(tx) \in Nat
      /\ src \in Nat /\ cons \in Nat /\ staged \in Nat /\ played \in Nat
      /\ TagsOf(tx, Len(tx)) = cons /\ DOMAIN tx = 1..Len(tx)
  BY DEF PInv, PTypes, Cursors, Queue
<1>2. ASSUME NEW i \in DOMAIN tx, tx[i] # Silent
      PROVE  stg[tx[i] % Depth] = TagsOf(tx, i - 1)
  <2>1. TagsOf(tx, i - 1) \in Nat /\ TagsOf(tx, i - 1) < cons
    BY <1>1, <1>2, TagBelow
  <2>2. TagsOf(tx, i - 1) \in 0..src - 1
    BY <1>1, <2>1
  <2>3. tx[i] % Depth = (played - cons + TagsOf(tx, i - 1)) % Depth
    BY <1>2 DEF PInv, Queue
  <2> QED
    BY <2>2, <2>3 DEF PInv, Ring
<1> QED
  BY <1>1, <1>2, TaggedIs DEF QueueExact

(* The inductive invariant holds as long as no interrupt lands between the *)
(* poll's rebase and its application.                                      *)
THEOREM LeaseInvariant == ASSUME ~RebaseRace PROVE Spec => []PInv
<1>1. PInv /\ [Next]_vars => PInv'
  BY NextInv
<1> QED
  BY <1>1, InitInv, PTL DEF Spec

(* The variables of the lease keep their types.                            *)
THEOREM LeaseTypes == ASSUME ~RebaseRace PROVE Spec => []TypeOK
BY LeaseInvariant, InvTypes, PTL

(* Whoever converts a period, the poll, the IRQ in its place or the IRQ    *)
(* behind its back, the staging ring holds the uncredited source periods   *)
(* each once and in order, across every rebase of the cursors.             *)
THEOREM AlwaysStagedInOrder == ASSUME ~RebaseRace PROVE Spec => []StagedInOrder
BY LeaseInvariant, InvInOrder, PTL

(* What is queued for the DMA is the uncredited source, each period once   *)
(* and in order, and no period of it is overwritten before it is credited. *)
THEOREM AlwaysQueueExact == ASSUME ~RebaseRace PROVE Spec => []QueueExact
BY LeaseInvariant, InvQueue, PTL
==============================================================================
