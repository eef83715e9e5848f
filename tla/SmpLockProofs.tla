--------------------------- MODULE SmpLockProofs ---------------------------
(***************************************************************************)
(* Proofs about the lock, for every nesting bound and with or without      *)
(* faults inside the section.                                              *)
(*                                                                         *)
(* Mutual exclusion rests on the spin word, but a nested acquire decides   *)
(* by the owner word alone, so the invariant ties the two together: the    *)
(* owner word names core 1 exactly while core 1 has the section or its     *)
(* fault handler still has to clear it, and names core 0 only while the    *)
(* spin word is taken and core 1 is out.                                   *)
(***************************************************************************)
EXTENDS SmpLock, TLAPS

Named == {"depth", "save", "in", "nest", "dec", "clear"}
Resetting == {"raw", "owner", "rdepth", "saved"}

(* From here to its restart core 1 may have freed what core 0 had taken.   *)
Wiping == {"owner", "rdepth", "saved", "dead"}

(* The spin word and the owner word, whatever faults happen.               *)
WordInv ==
  /\ pc[1] \in Taken => raw = 1
  /\ pc[0] \in Taken /\ pc[1] \notin Wiping => raw = 1
  /\ pc[1] \in Named => owner = 1
  /\ owner = 1 => pc[1] \in Named \cup {"fault", "raw", "owner"}
  /\ owner = 0 => raw = 1 /\ pc[1] \notin Taken /\ pc[0] # "unlock"
  /\ pc[1] = "raw" => owner = 1
  /\ pc[1] \in {"fault", "raw"} /\ owner = 1 => raw = 1 /\ pc[0] \notin Taken
  /\ pc[0] = "own" => raw = 1
  /\ pc[0] \notin FaultLabels

(* The callers' nesting stays in its bound.                                *)
NestInv ==
  \A c \in Cores :
    /\ pc[c] \in {"in", "dec", "clear", "unlock"} => nest[c] >= 1
    /\ pc[c] = "nest" => nest[c] < MaxDepth
    /\ pc[c] = "idle" => nest[c] = 0

(* The depth counts the acquires of a core that no reset disturbs: always  *)
(* core 1, and core 0 unless the fault handler of core 1 is or was at it.  *)
CountInv(c) ==
  /\ pc[c] \in {"idle", "spin", "try", "own", "depth", "save"} => nest[c] = 0
  /\ pc[c] = "save" => depth = 1
  /\ pc[c] \in {"in", "nest"} => depth = nest[c]
  /\ pc[c] = "dec" => depth = nest[c] - 1
  /\ pc[c] \in {"nest", "in"} => nest[c] >= 1
  /\ pc[c] \in {"clear", "unlock"} => nest[c] = 1
UndisturbedInv ==
  /\ CountInv(1)
  /\ pc[1] \notin Wiping =>
       /\ CountInv(0)
       /\ pc[0] \in Named => owner = 0
       /\ owner = 0 => pc[0] \in Named

(* The IRQ state of a core that no reset disturbs.                         *)
IrqInv(c) ==
  /\ pc[c] \in Taken => ~irq[c]
  /\ pc[c] = "idle" => irq[c] = before[c]
  /\ pc[c] \in {"spin", "try"} => ~irq[c]
  /\ pc[c] \in {"spin", "try", "own", "depth", "save", "clear", "unlock"} =>
       flags[c] = before[c]
  /\ pc[c] = "nest" => ~flags[c]
  /\ pc[c] \in {"in", "nest", "dec"} => saved = before[c]

(* Without faults in the section no word-by-word reset ever runs, and both *)
(* cores find the lock as they left it.                                    *)
QuietInv ==
  ~torn =>
    /\ pc[1] \notin Resetting
    /\ pc[1] = "fault" => owner # 1
    /\ pc[0] \in Named => owner = 0
    /\ owner = 0 => pc[0] \in Named
    /\ raw = 1 => \E c \in Cores : pc[c] \in Taken
    /\ CountInv(0)
    /\ \A c \in Cores : IrqInv(c)

IInv == TypeOK /\ MutualExclusion /\ WordInv /\ NestInv /\ UndisturbedInv /\ QuietInv

LEMMA InitInv == Init => IInv
<1> SUFFICES ASSUME Init PROVE IInv
  OBVIOUS
<1> USE MaxDepthAssumption DEF Init, Cores, Free
<1>1. TypeOK
  <2>1. raw \in {0, 1} /\ owner \in Cores \cup {Free} /\ depth \in Nat
    OBVIOUS
  <2>2. pc \in [Cores -> Labels] /\ nest \in [Cores -> 0 .. MaxDepth]
    BY DEF Labels
  <2>3. flags \in [Cores -> BOOLEAN] /\ irq \in [Cores -> BOOLEAN] /\ before \in [Cores -> BOOLEAN]
    OBVIOUS
  <2>4. saved \in BOOLEAN /\ torn \in BOOLEAN
    BY Zenon
  <2> QED
    BY <2>1, <2>2, <2>3, <2>4 DEF TypeOK
<1>2. MutualExclusion /\ WordInv /\ NestInv
  BY DEF MutualExclusion, WordInv, NestInv, Taken, FaultLabels, Named, Wiping
<1>3. CountInv(0) /\ CountInv(1)
  BY DEF CountInv
<1>4. IrqInv(0) /\ IrqInv(1)
  BY DEF IrqInv, Taken
<1>5. UndisturbedInv
  BY <1>3 DEF UndisturbedInv, Named
<1>6. QuietInv
  BY <1>3, <1>4 DEF QuietInv, Named, Resetting
<1> QED
  BY <1>1, <1>2, <1>5, <1>6 DEF IInv

LEMMA NextInv == IInv /\ [Next]_vars => IInv'
<1> SUFFICES ASSUME IInv, [Next]_vars PROVE IInv'
  OBVIOUS
<1> USE MaxDepthAssumption
    DEF IInv, TypeOK, Cores, Free, Labels, Taken, FaultLabels, lock, Goto, Return, Restored
<1>1. ASSUME NEW c \in Cores, SetIrq(c) PROVE IInv'
  <2> USE <1>1 DEF SetIrq
  <2>1. TypeOK'
    BY DEF NestInv
  <2>2. MutualExclusion' /\ WordInv'
    BY DEF MutualExclusion, WordInv, NestInv, UndisturbedInv, CountInv, Named, Wiping
  <2>3. NestInv'
    BY DEF NestInv
  <2>4. UndisturbedInv'
    BY DEF MutualExclusion, WordInv, NestInv, UndisturbedInv, CountInv, Named, Wiping
  <2>5. QuietInv'
    BY DEF MutualExclusion, WordInv, NestInv, UndisturbedInv, QuietInv, CountInv, IrqInv,
           Named, Resetting, Wiping
  <2> QED
    BY <2>1, <2>2, <2>3, <2>4, <2>5
<1>2. ASSUME NEW c \in Cores, NEW how \in {"spin", "try"}, Acquire(c, how) PROVE IInv'
  <2> USE <1>2 DEF Acquire
  <2>1. TypeOK'
    BY DEF NestInv
  <2>2. MutualExclusion' /\ WordInv'
    BY DEF MutualExclusion, WordInv, NestInv, UndisturbedInv, CountInv, Named, Wiping
  <2>3. NestInv'
    BY DEF NestInv
  <2>4. UndisturbedInv'
    BY DEF MutualExclusion, WordInv, NestInv, UndisturbedInv, CountInv, Named, Wiping
  <2>5. QuietInv'
    <3>1. ASSUME ~torn' PROVE IrqInv(0)' /\ IrqInv(1)'
      <4>1. pc[c] = "idle" => irq[c] = before[c]
        BY <3>1 DEF QuietInv, IrqInv
      <4>2. pc[c] = "in" => owner = c /\ irq[c] = FALSE /\ saved = before[c]
        BY <3>1 DEF WordInv, QuietInv, IrqInv, Named
      <4>3. owner = c => pc[c] = "in"
        BY <3>1 DEF WordInv, QuietInv, Named
      <4>4. IrqInv(c)'
        BY <4>1, <4>2, <4>3 DEF IrqInv
      <4>5. ASSUME NEW d \in Cores, d # c PROVE IrqInv(d)'
        BY <3>1, <4>5 DEF QuietInv, IrqInv
      <4> QED
        BY <4>4, <4>5
    <3>2. ASSUME ~torn'
          PROVE  /\ pc'[1] \notin Resetting
                 /\ pc'[1] = "fault" => owner' # 1
                 /\ pc'[0] \in Named => owner' = 0
                 /\ owner' = 0 => pc'[0] \in Named
                 /\ raw' = 1 => \E d \in Cores : pc'[d] \in Taken
                 /\ CountInv(0)'
      BY <3>2 DEF MutualExclusion, WordInv, NestInv, UndisturbedInv, QuietInv, CountInv, Named,
                  Resetting, Wiping
    <3> QED
      BY <3>1, <3>2 DEF QuietInv
  <2> QED
    BY <2>1, <2>2, <2>3, <2>4, <2>5
<1>3. ASSUME NEW c \in Cores, AcquireNested(c) PROVE IInv'
  <2> USE <1>3 DEF AcquireNested
  <2>1. TypeOK'
    BY DEF NestInv
  <2>2. MutualExclusion' /\ WordInv'
    BY DEF MutualExclusion, WordInv, NestInv, UndisturbedInv, CountInv, Named, Wiping
  <2>3. NestInv'
    BY DEF NestInv
  <2>4. UndisturbedInv'
    BY DEF MutualExclusion, WordInv, NestInv, UndisturbedInv, CountInv, Named, Wiping
  <2>5. QuietInv'
    BY DEF MutualExclusion, WordInv, NestInv, UndisturbedInv, QuietInv, CountInv, IrqInv,
           Named, Resetting, Wiping
  <2> QED
    BY <2>1, <2>2, <2>3, <2>4, <2>5
<1>4. ASSUME NEW c \in Cores, SpinLock(c) PROVE IInv'
  <2> USE <1>4 DEF SpinLock
  <2>1. TypeOK'
    BY DEF NestInv
  <2>2. MutualExclusion' /\ WordInv'
    BY DEF MutualExclusion, WordInv, NestInv, UndisturbedInv, CountInv, Named, Wiping
  <2>3. NestInv'
    BY DEF NestInv
  <2>4. UndisturbedInv'
    BY DEF MutualExclusion, WordInv, NestInv, UndisturbedInv, CountInv, Named, Wiping
  <2>5. QuietInv'
    BY DEF MutualExclusion, WordInv, NestInv, UndisturbedInv, QuietInv, CountInv, IrqInv,
           Named, Resetting, Wiping
  <2> QED
    BY <2>1, <2>2, <2>3, <2>4, <2>5
<1>5. ASSUME NEW c \in Cores, TryFails(c) PROVE IInv'
  <2> USE <1>5 DEF TryFails
  <2>1. TypeOK'
    BY DEF NestInv
  <2>2. MutualExclusion' /\ WordInv'
    BY DEF MutualExclusion, WordInv, NestInv, UndisturbedInv, CountInv, Named, Wiping
  <2>3. NestInv'
    BY DEF NestInv
  <2>4. UndisturbedInv'
    BY DEF MutualExclusion, WordInv, NestInv, UndisturbedInv, CountInv, Named, Wiping
  <2>5. QuietInv'
    BY DEF MutualExclusion, WordInv, NestInv, UndisturbedInv, QuietInv, CountInv, IrqInv,
           Named, Resetting, Wiping
  <2> QED
    BY <2>1, <2>2, <2>3, <2>4, <2>5
<1>6. ASSUME NEW c \in Cores, SetOwner(c) PROVE IInv'
  <2> USE <1>6 DEF SetOwner
  <2>1. TypeOK'
    BY DEF NestInv
  <2>2. MutualExclusion' /\ WordInv'
    BY DEF MutualExclusion, WordInv, NestInv, UndisturbedInv, CountInv, Named, Wiping
  <2>3. NestInv'
    BY DEF NestInv
  <2>4. UndisturbedInv'
    BY DEF MutualExclusion, WordInv, NestInv, UndisturbedInv, CountInv, Named, Wiping
  <2>5. QuietInv'
    BY DEF MutualExclusion, WordInv, NestInv, UndisturbedInv, QuietInv, CountInv, IrqInv,
           Named, Resetting, Wiping
  <2> QED
    BY <2>1, <2>2, <2>3, <2>4, <2>5
<1>7. ASSUME NEW c \in Cores, SetDepth(c) PROVE IInv'
  <2> USE <1>7 DEF SetDepth
  <2>1. TypeOK'
    BY DEF NestInv
  <2>2. MutualExclusion' /\ WordInv'
    BY DEF MutualExclusion, WordInv, NestInv, UndisturbedInv, CountInv, Named, Wiping
  <2>3. NestInv'
    BY DEF NestInv
  <2>4. UndisturbedInv'
    BY DEF MutualExclusion, WordInv, NestInv, UndisturbedInv, CountInv, Named, Wiping
  <2>5. QuietInv'
    BY DEF MutualExclusion, WordInv, NestInv, UndisturbedInv, QuietInv, CountInv, IrqInv,
           Named, Resetting, Wiping
  <2> QED
    BY <2>1, <2>2, <2>3, <2>4, <2>5
<1>8. ASSUME NEW c \in Cores, SetSaved(c) PROVE IInv'
  <2> USE <1>8 DEF SetSaved
  <2>1. TypeOK'
    BY DEF NestInv
  <2>2. MutualExclusion' /\ WordInv'
    BY DEF MutualExclusion, WordInv, NestInv, UndisturbedInv, CountInv, Named, Wiping
  <2>3. NestInv'
    BY DEF NestInv
  <2>4. UndisturbedInv'
    BY DEF MutualExclusion, WordInv, NestInv, UndisturbedInv, CountInv, Named, Wiping
  <2>5. QuietInv'
    BY DEF MutualExclusion, WordInv, NestInv, UndisturbedInv, QuietInv, CountInv, IrqInv,
           Named, Resetting, Wiping
  <2> QED
    BY <2>1, <2>2, <2>3, <2>4, <2>5
<1>9. ASSUME NEW c \in Cores, Release(c) PROVE IInv'
  <2> USE <1>9 DEF Release
  <2>1. TypeOK'
    BY DEF NestInv
  <2>2. MutualExclusion' /\ WordInv'
    BY DEF MutualExclusion, WordInv, NestInv, UndisturbedInv, CountInv, Named, Wiping
  <2>3. NestInv'
    BY DEF NestInv
  <2>4. UndisturbedInv'
    BY DEF MutualExclusion, WordInv, NestInv, UndisturbedInv, CountInv, Named, Wiping
  <2>5. QuietInv'
    BY DEF MutualExclusion, WordInv, NestInv, UndisturbedInv, QuietInv, CountInv, IrqInv,
           Named, Resetting, Wiping
  <2> QED
    BY <2>1, <2>2, <2>3, <2>4, <2>5
<1>10. ASSUME NEW c \in Cores, TestDepth(c) PROVE IInv'
  <2> USE <1>10 DEF TestDepth
  <2>1. TypeOK'
    BY DEF NestInv
  <2>2. MutualExclusion' /\ WordInv'
    BY DEF MutualExclusion, WordInv, NestInv, UndisturbedInv, CountInv, Named, Wiping
  <2>3. NestInv'
    BY DEF NestInv
  <2>4. UndisturbedInv'
    BY DEF MutualExclusion, WordInv, NestInv, UndisturbedInv, CountInv, Named, Wiping
  <2>5. QuietInv'
    BY DEF MutualExclusion, WordInv, NestInv, UndisturbedInv, QuietInv, CountInv, IrqInv,
           Named, Resetting, Wiping
  <2> QED
    BY <2>1, <2>2, <2>3, <2>4, <2>5
<1>11. ASSUME NEW c \in Cores, ClearOwner(c) PROVE IInv'
  <2> USE <1>11 DEF ClearOwner
  <2>1. TypeOK'
    BY DEF NestInv
  <2>2. MutualExclusion' /\ WordInv'
    BY DEF MutualExclusion, WordInv, NestInv, UndisturbedInv, CountInv, Named, Wiping
  <2>3. NestInv'
    BY DEF NestInv
  <2>4. UndisturbedInv'
    BY DEF MutualExclusion, WordInv, NestInv, UndisturbedInv, CountInv, Named, Wiping
  <2>5. QuietInv'
    BY DEF MutualExclusion, WordInv, NestInv, UndisturbedInv, QuietInv, CountInv, IrqInv,
           Named, Resetting, Wiping
  <2> QED
    BY <2>1, <2>2, <2>3, <2>4, <2>5
<1>12. ASSUME NEW c \in Cores, SpinUnlock(c) PROVE IInv'
  <2> USE <1>12 DEF SpinUnlock
  <2>1. TypeOK'
    BY DEF NestInv
  <2>2. MutualExclusion' /\ WordInv'
    BY DEF MutualExclusion, WordInv, NestInv, UndisturbedInv, CountInv, Named, Wiping
  <2>3. NestInv'
    BY DEF NestInv
  <2>4. UndisturbedInv'
    BY DEF MutualExclusion, WordInv, NestInv, UndisturbedInv, CountInv, Named, Wiping
  <2>5. QuietInv'
    BY DEF MutualExclusion, WordInv, NestInv, UndisturbedInv, QuietInv, CountInv, IrqInv,
           Named, Resetting, Wiping
  <2> QED
    BY <2>1, <2>2, <2>3, <2>4, <2>5
<1>13. CASE Fault
  <2> USE <1>13 DEF Fault
  <2>1. TypeOK'
    BY DEF NestInv
  <2>2. MutualExclusion' /\ WordInv'
    BY DEF MutualExclusion, WordInv, NestInv, UndisturbedInv, CountInv, Named, Wiping
  <2>3. NestInv'
    BY DEF NestInv
  <2>4. UndisturbedInv'
    BY DEF MutualExclusion, WordInv, NestInv, UndisturbedInv, CountInv, Named, Wiping
  <2>5. QuietInv'
    BY ZenonT(40) DEF MutualExclusion, WordInv, NestInv, UndisturbedInv, QuietInv, CountInv, IrqInv,
           Named, Resetting, Wiping
  <2> QED
    BY <2>1, <2>2, <2>3, <2>4, <2>5
<1>14. CASE ResetIfOwned
  <2> USE <1>14 DEF ResetIfOwned
  <2>1. TypeOK'
    BY DEF NestInv
  <2>2. MutualExclusion' /\ WordInv'
    BY DEF MutualExclusion, WordInv, NestInv, UndisturbedInv, CountInv, Named, Wiping
  <2>3. NestInv'
    BY DEF NestInv
  <2>4. UndisturbedInv'
    BY DEF MutualExclusion, WordInv, NestInv, UndisturbedInv, CountInv, Named, Wiping
  <2>5. QuietInv'
    BY DEF MutualExclusion, WordInv, NestInv, UndisturbedInv, QuietInv, CountInv, IrqInv,
           Named, Resetting, Wiping
  <2> QED
    BY <2>1, <2>2, <2>3, <2>4, <2>5
<1>15. CASE ResetRaw
  <2> USE <1>15 DEF ResetRaw
  <2>1. TypeOK'
    BY DEF NestInv
  <2>2. MutualExclusion' /\ WordInv'
    BY DEF MutualExclusion, WordInv, NestInv, UndisturbedInv, CountInv, Named, Wiping
  <2>3. NestInv'
    BY DEF NestInv
  <2>4. UndisturbedInv'
    BY DEF MutualExclusion, WordInv, NestInv, UndisturbedInv, CountInv, Named, Wiping
  <2>5. QuietInv'
    BY DEF MutualExclusion, WordInv, NestInv, UndisturbedInv, QuietInv, CountInv, IrqInv,
           Named, Resetting, Wiping
  <2> QED
    BY <2>1, <2>2, <2>3, <2>4, <2>5
<1>16. CASE ResetOwner
  <2> USE <1>16 DEF ResetOwner
  <2>1. TypeOK'
    BY DEF NestInv
  <2>2. MutualExclusion' /\ WordInv'
    BY DEF MutualExclusion, WordInv, NestInv, UndisturbedInv, CountInv, Named, Wiping
  <2>3. NestInv'
    BY DEF NestInv
  <2>4. UndisturbedInv'
    BY DEF MutualExclusion, WordInv, NestInv, UndisturbedInv, CountInv, Named, Wiping
  <2>5. QuietInv'
    BY DEF MutualExclusion, WordInv, NestInv, UndisturbedInv, QuietInv, CountInv, IrqInv,
           Named, Resetting, Wiping
  <2> QED
    BY <2>1, <2>2, <2>3, <2>4, <2>5
<1>17. CASE ResetDepth
  <2> USE <1>17 DEF ResetDepth
  <2>1. TypeOK'
    BY DEF NestInv
  <2>2. MutualExclusion' /\ WordInv'
    BY DEF MutualExclusion, WordInv, NestInv, UndisturbedInv, CountInv, Named, Wiping
  <2>3. NestInv'
    BY DEF NestInv
  <2>4. UndisturbedInv'
    BY DEF MutualExclusion, WordInv, NestInv, UndisturbedInv, CountInv, Named, Wiping
  <2>5. QuietInv'
    BY DEF MutualExclusion, WordInv, NestInv, UndisturbedInv, QuietInv, CountInv, IrqInv,
           Named, Resetting, Wiping
  <2> QED
    BY <2>1, <2>2, <2>3, <2>4, <2>5
<1>18. CASE ResetSaved
  <2> USE <1>18 DEF ResetSaved
  <2>1. TypeOK'
    BY DEF NestInv
  <2>2. MutualExclusion' /\ WordInv'
    BY DEF MutualExclusion, WordInv, NestInv, UndisturbedInv, CountInv, Named, Wiping
  <2>3. NestInv'
    BY DEF NestInv
  <2>4. UndisturbedInv'
    BY DEF MutualExclusion, WordInv, NestInv, UndisturbedInv, CountInv, Named, Wiping
  <2>5. QuietInv'
    BY DEF MutualExclusion, WordInv, NestInv, UndisturbedInv, QuietInv, CountInv, IrqInv,
           Named, Resetting, Wiping
  <2> QED
    BY <2>1, <2>2, <2>3, <2>4, <2>5
<1>19. CASE ResetParked
  <2> USE <1>19 DEF ResetParked, sdk_smp_lock_reset
  <2>1. TypeOK'
    BY DEF NestInv
  <2>2. MutualExclusion' /\ WordInv'
    BY DEF MutualExclusion, WordInv, NestInv, UndisturbedInv, CountInv, Named, Wiping
  <2>3. NestInv'
    BY DEF NestInv
  <2>4. UndisturbedInv'
    BY DEF MutualExclusion, WordInv, NestInv, UndisturbedInv, CountInv, Named, Wiping
  <2>5. QuietInv'
    BY DEF MutualExclusion, WordInv, NestInv, UndisturbedInv, QuietInv, CountInv, IrqInv,
           Named, Resetting, Wiping
  <2> QED
    BY <2>1, <2>2, <2>3, <2>4, <2>5
<1>20. CASE core1_cold_restart
  <2> USE <1>20 DEF core1_cold_restart, sdk_smp_lock_reset
  <2>1. TypeOK'
    BY DEF NestInv
  <2>2. MutualExclusion' /\ WordInv'
    BY DEF MutualExclusion, WordInv, NestInv, UndisturbedInv, CountInv, Named, Wiping
  <2>3. NestInv'
    BY DEF NestInv
  <2>4. UndisturbedInv'
    BY DEF MutualExclusion, WordInv, NestInv, UndisturbedInv, CountInv, Named, Wiping
  <2>5. QuietInv'
    <3>1. ASSUME ~torn' PROVE IrqInv(0)' /\ IrqInv(1)'
      BY <3>1 DEF MutualExclusion, UndisturbedInv, QuietInv, CountInv, IrqInv, NestInv
    <3>2. ASSUME ~torn'
          PROVE  /\ pc'[1] \notin Resetting
                 /\ pc'[1] = "fault" => owner' # 1
                 /\ pc'[0] \in Named => owner' = 0
                 /\ owner' = 0 => pc'[0] \in Named
                 /\ raw' = 1 => \E d \in Cores : pc'[d] \in Taken
                 /\ CountInv(0)'
      BY <3>2 DEF MutualExclusion, WordInv, NestInv, UndisturbedInv, QuietInv, CountInv, Named,
                  Resetting, Wiping
    <3> QED
      BY <3>1, <3>2 DEF QuietInv
  <2> QED
    BY <2>1, <2>2, <2>3, <2>4, <2>5
<1>21. CASE UNCHANGED vars
  BY <1>21 DEF vars, MutualExclusion, WordInv, NestInv, UndisturbedInv, QuietInv, CountInv,
              IrqInv, Named, Resetting, Wiping
<1> QED
  BY <1>1, <1>2, <1>3, <1>4, <1>5, <1>6, <1>7, <1>8, <1>9, <1>10, <1>11, <1>12, <1>13, <1>14, <1>15, <1>16, <1>17, <1>18, <1>19, <1>20, <1>21 DEF Next

(* The inductive invariant holds in every reachable state.                 *)
THEOREM Invariant == Spec => []IInv
BY InitInv, NextInv, PTL DEF Spec

(* The words of the lock and the callers' state keep their types.          *)
THEOREM TypeCorrect == Spec => []TypeOK
<1>1. IInv => TypeOK
  BY DEF IInv
<1> QED
  BY <1>1, Invariant, PTL

(* Never both cores inside, even when core 1 faults inside the section and *)
(* its handler frees the lock while core 0 is taking it: core 1 comes back *)
(* only through a cold restart that core 0 makes outside the lock.         *)
THEOREM Exclusive == Spec => []MutualExclusion
<1>1. IInv => MutualExclusion
  BY DEF IInv
<1> QED
  BY <1>1, Invariant, PTL

(* Until core 1 faults inside the section, and with restarts of core 1 at  *)
(* any point of it: the holder finds its own id and count in the lock.     *)
THEOREM HolderKept == Spec => []HolderUndisturbed
<1>1. IInv => HolderUndisturbed
  BY DEF IInv, TypeOK, WordInv, UndisturbedInv, QuietInv, CountInv, HolderUndisturbed,
         HolderOwnsLock, Cores, Named
<1> QED
  BY <1>1, Invariant, PTL

(* The lock is never left taken by nobody, in particular not by a cold     *)
(* restart of core 1 in the middle of the section.                         *)
THEOREM NotOrphaned == Spec => []NeverOrphaned
<1>1. IInv => NeverOrphaned
  BY DEF IInv, QuietInv, NeverOrphaned
<1> QED
  BY <1>1, Invariant, PTL

(* IRQs are masked in the section and restored after it.                   *)
THEOREM IrqsBalanced == Spec => []IrqDiscipline
<1>1. IInv => IrqDiscipline
  BY DEF IInv, QuietInv, IrqInv, IrqDiscipline
<1> QED
  BY <1>1, Invariant, PTL
=============================================================================
