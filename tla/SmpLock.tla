------------------------------ MODULE SmpLock ------------------------------
(***************************************************************************)
(* The recursive, IRQ-safe lock of sdk_smp_lock.c between the two cores,   *)
(* with the ways a lock is forced free after a fault or a cold restart of  *)
(* core 1 (sdk_smp_lock_arm.c, core2.c, scheduler_arm.c).                  *)
(*                                                                         *)
(* Every load and store of the lock's words that the other core can see is *)
(* a step of its own.  The exclusive pair of the spin (ldrex, strex) is    *)
(* one step, and stores are seen in program order: the barriers of the     *)
(* spin give that for acquire and release; sdk_smp_lock_reset has no       *)
(* barrier between its stores, which this model does not exploit.          *)
(***************************************************************************)
EXTENDS Integers

CONSTANT MaxDepth   \* bound: nested acquires of one holder

ASSUME MaxDepthAssumption == MaxDepth \in Nat \ {0}

Cores == {0, 1}
Free == -1

VARIABLES
    raw,      \* the spin word
    owner,    \* CPU id of the holder, or Free
    depth,    \* recursion count
    saved,    \* saved_irq: were IRQs enabled before the outermost acquire?
    pc,       \* where each core is
    flags,    \* the local variable of acquire and release
    irq,      \* are IRQs enabled on the core?
    nest,     \* acquires of the core's caller not yet released
    before,   \* irq of the core's caller outside the lock
    torn      \* history: has core 1 ever faulted inside the section?

lock == <<raw, owner, depth, saved>>
vars == <<raw, owner, depth, saved, pc, flags, irq, nest, before, torn>>

(* Labels at which a core has taken the spin word and not given it back.   *)
Taken == {"own", "depth", "save", "in", "nest", "dec", "clear", "unlock"}
FaultLabels == {"fault", "raw", "owner", "rdepth", "saved", "dead"}
Labels == {"idle", "spin", "try"} \cup Taken \cup FaultLabels

TypeOK ==
    /\ raw \in {0, 1}
    /\ owner \in Cores \cup {Free}
    /\ depth \in Nat
    /\ saved \in BOOLEAN
    /\ pc \in [Cores -> Labels]
    /\ flags \in [Cores -> BOOLEAN]
    /\ irq \in [Cores -> BOOLEAN]
    /\ nest \in [Cores -> 0 .. MaxDepth]
    /\ before \in [Cores -> BOOLEAN]
    /\ torn \in BOOLEAN

Init ==
    /\ raw = 0 /\ owner = Free /\ depth = 0 /\ saved = TRUE
    /\ pc = [c \in Cores |-> "idle"]
    /\ flags = [c \in Cores |-> TRUE]
    /\ irq = [c \in Cores |-> TRUE]
    /\ nest = [c \in Cores |-> 0]
    /\ before = [c \in Cores |-> TRUE]
    /\ torn = FALSE

Goto(c, label) == pc' = [pc EXCEPT ![c] = label]
Return(c, n) ==
    /\ nest' = [nest EXCEPT ![c] = n]
    /\ Goto(c, IF n = 0 THEN "idle" ELSE "in")

(* smp_local_irq_restore: it only ever enables.                            *)
Restored(c, was) == [irq EXCEPT ![c] = @ \/ was]

-----------------------------------------------------------------------------
(* Acquire *)

(* The caller outside the lock runs with IRQs enabled or masked.           *)
SetIrq(c) ==
    /\ pc[c] = "idle"
    /\ irq' = [irq EXCEPT ![c] = ~@]
    /\ before' = [before EXCEPT ![c] = ~@]
    /\ UNCHANGED <<lock, pc, flags, nest, torn>>

(***************************************************************************)
(* sdk_smp_lock_acquire (how = "spin") and sdk_smp_lock_try_acquire ("try")*)
(* mask IRQs and read the owner.                                           *)
(***************************************************************************)
Acquire(c, how) ==
    /\ pc[c] \in {"idle", "in"}
    /\ nest[c] < MaxDepth
    /\ flags' = [flags EXCEPT ![c] = irq[c]]
    /\ irq' = [irq EXCEPT ![c] = FALSE]
    /\ Goto(c, IF owner = c THEN "nest" ELSE how)
    /\ UNCHANGED <<lock, nest, before, torn>>

(* Mutant: a nested acquire saves the masked state over the original one.  *)
AcquireNestedSaves(c) ==
    /\ pc[c] = "nest"
    /\ depth' = depth + 1
    /\ saved' = flags[c]
    /\ irq' = Restored(c, flags[c])
    /\ Return(c, nest[c] + 1)
    /\ UNCHANGED <<raw, owner, flags, before, torn>>

AcquireNested(c) ==
    /\ pc[c] = "nest"
    /\ depth' = depth + 1
    /\ irq' = Restored(c, flags[c])
    /\ Return(c, nest[c] + 1)
    /\ UNCHANGED <<raw, owner, saved, flags, before, torn>>

(* smp_raw_spin_lock and smp_raw_spin_try_lock see the word free.          *)
SpinLock(c) ==
    /\ pc[c] \in {"spin", "try"}
    /\ raw = 0
    /\ raw' = 1
    /\ Goto(c, "own")
    /\ UNCHANGED <<owner, depth, saved, flags, irq, nest, before, torn>>

(***************************************************************************)
(* The try fails when the word is taken, and also when another access      *)
(* between ldrex and strex clears the monitor.                             *)
(***************************************************************************)
TryFails(c) ==
    /\ pc[c] = "try"
    /\ irq' = Restored(c, flags[c])
    /\ Return(c, nest[c])
    /\ UNCHANGED <<lock, flags, before, torn>>

SetOwner(c) ==
    /\ pc[c] = "own"
    /\ owner' = c
    /\ Goto(c, "depth")
    /\ UNCHANGED <<raw, depth, saved, flags, irq, nest, before, torn>>

SetDepth(c) ==
    /\ pc[c] = "depth"
    /\ depth' = 1
    /\ Goto(c, "save")
    /\ UNCHANGED <<raw, owner, saved, flags, irq, nest, before, torn>>

SetSaved(c) ==
    /\ pc[c] = "save"
    /\ saved' = flags[c]
    /\ Return(c, 1)
    /\ UNCHANGED <<raw, owner, depth, flags, irq, before, torn>>

-----------------------------------------------------------------------------
(* Release *)

Release(c) ==
    /\ pc[c] = "in"
    /\ IF depth = 0
         THEN Return(c, nest[c] - 1) /\ UNCHANGED depth
         ELSE depth' = depth - 1 /\ Goto(c, "dec") /\ UNCHANGED nest
    /\ UNCHANGED <<raw, owner, saved, flags, irq, before, torn>>

(* Mutant: every release frees the lock, nested or not.                    *)
ReleaseAtAnyDepth(c) ==
    /\ pc[c] = "dec"
    /\ flags' = [flags EXCEPT ![c] = saved]
    /\ Goto(c, "clear")
    /\ UNCHANGED <<lock, irq, nest, before, torn>>

(* The second test of the depth; the saved IRQ state is read here.         *)
TestDepth(c) ==
    /\ pc[c] = "dec"
    /\ IF depth = 0
         THEN /\ flags' = [flags EXCEPT ![c] = saved]
              /\ Goto(c, "clear") /\ UNCHANGED nest
         ELSE Return(c, nest[c] - 1) /\ UNCHANGED flags
    /\ UNCHANGED <<lock, irq, before, torn>>

ClearOwner(c) ==
    /\ pc[c] = "clear"
    /\ owner' = Free
    /\ Goto(c, "unlock")
    /\ UNCHANGED <<raw, depth, saved, flags, irq, nest, before, torn>>

SpinUnlock(c) ==
    /\ pc[c] = "unlock"
    /\ raw' = 0
    /\ irq' = Restored(c, flags[c])
    /\ Return(c, nest[c] - 1)
    /\ UNCHANGED <<owner, depth, saved, flags, before, torn>>

-----------------------------------------------------------------------------
(* Faults and restarts of core 1 *)

(***************************************************************************)
(* An abort takes core 1 to record_fault: from its own code, while it      *)
(* waits for the lock, or from the code the lock protects (a walk over a   *)
(* damaged heap).  The lock's own loads and stores do not abort.           *)
(***************************************************************************)
Fault ==
    /\ pc[1] \in {"idle", "spin", "try", "in"}
    /\ torn' = (torn \/ pc[1] = "in")
    /\ Goto(1, "fault")
    /\ irq' = [irq EXCEPT ![1] = FALSE]
    /\ UNCHANGED <<lock, flags, nest, before>>

(* Mutant: the fault handler frees the lock whoever holds it.              *)
ResetAlways ==
    /\ pc[1] = "fault"
    /\ Goto(1, "raw")
    /\ UNCHANGED <<lock, flags, irq, nest, before, torn>>

(* sdk_smp_lock_reset_if_owned on core 1, while core 0 runs: the owner,    *)
(* then the four stores of sdk_smp_lock_reset.                             *)
ResetIfOwned ==
    /\ pc[1] = "fault"
    /\ Goto(1, IF owner = 1 THEN "raw" ELSE "dead")
    /\ UNCHANGED <<lock, flags, irq, nest, before, torn>>
ResetRaw ==
    /\ pc[1] = "raw" /\ raw' = 0 /\ Goto(1, "owner")
    /\ UNCHANGED <<owner, depth, saved, flags, irq, nest, before, torn>>
ResetOwner ==
    /\ pc[1] = "owner" /\ owner' = Free /\ Goto(1, "rdepth")
    /\ UNCHANGED <<raw, depth, saved, flags, irq, nest, before, torn>>
ResetDepth ==
    /\ pc[1] = "rdepth" /\ depth' = 0 /\ Goto(1, "saved")
    /\ UNCHANGED <<raw, owner, saved, flags, irq, nest, before, torn>>
ResetSaved ==
    /\ pc[1] = "saved" /\ saved' = TRUE /\ Goto(1, "dead")
    /\ UNCHANGED <<raw, owner, depth, flags, irq, nest, before, torn>>

(* sdk_smp_lock_reset by core 0 while core 1 cannot run: one step.         *)
sdk_smp_lock_reset == raw' = 0 /\ owner' = Free /\ depth' = 0 /\ saved' = TRUE

(* scheduler_core0_poll, before the sessions of the parked core 1 go.      *)
ResetParked ==
    /\ pc[0] = "idle" /\ pc[1] = "dead"
    /\ sdk_smp_lock_reset
    /\ UNCHANGED <<pc, flags, irq, nest, before, torn>>

(* Mutant: the cold restart leaves the lock alone.                         *)
RestartOnly ==
    /\ pc[0] = "idle"
    /\ Goto(1, "idle")
    /\ irq' = [irq EXCEPT ![1] = FALSE]
    /\ nest' = [nest EXCEPT ![1] = 0]
    /\ before' = [before EXCEPT ![1] = FALSE]
    /\ UNCHANGED <<lock, flags, torn>>

(***************************************************************************)
(* core1_cold_restart, from the main loop of core 0: core 1 is held in     *)
(* reset wherever it was (a quiesce that timed out, or a fault), the lock  *)
(* is freed, and core 1 starts again.                                      *)
(***************************************************************************)
core1_cold_restart ==
    /\ pc[0] = "idle"
    /\ sdk_smp_lock_reset
    /\ Goto(1, "idle")
    /\ irq' = [irq EXCEPT ![1] = FALSE]
    /\ nest' = [nest EXCEPT ![1] = 0]
    /\ before' = [before EXCEPT ![1] = FALSE]
    /\ UNCHANGED <<flags, torn>>

Next ==
    \/ \E c \in Cores :
         \/ SetIrq(c)
         \/ \E how \in {"spin", "try"} : Acquire(c, how)
         \/ AcquireNested(c) \/ SpinLock(c) \/ TryFails(c)
         \/ SetOwner(c) \/ SetDepth(c) \/ SetSaved(c)
         \/ Release(c) \/ TestDepth(c) \/ ClearOwner(c) \/ SpinUnlock(c)
    \/ Fault \/ ResetIfOwned \/ ResetRaw \/ ResetOwner \/ ResetDepth \/ ResetSaved
    \/ ResetParked \/ core1_cold_restart

Spec == Init /\ [][Next]_vars

-----------------------------------------------------------------------------
(* Properties *)

(***************************************************************************)
(* The two cores are never both inside the section the lock protects,      *)
(* through nesting, failed tries, faults and restarts.                     *)
(***************************************************************************)
MutualExclusion == ~(pc[0] \in Taken /\ pc[1] \in Taken)

(***************************************************************************)
(* What acquire and release decide by: inside the section the owner word   *)
(* names the core and the depth counts its acquires, so a nested acquire   *)
(* does not spin on itself and the last release is the one that unlocks    *)
(* ("CPU id of holder, -1 when free", sdk_smp_lock.h).                     *)
(***************************************************************************)
HolderOwnsLock ==
    \A c \in Cores : pc[c] = "in" => owner = c /\ depth = nest[c]

(***************************************************************************)
(* The same as long as core 1 has not faulted inside the section: neither  *)
(* its faults elsewhere, while it waits for the lock included, nor a cold  *)
(* restart at any point of the section disturbs the holder.                *)
(***************************************************************************)
HolderUndisturbed == ~torn => HolderOwnsLock

(***************************************************************************)
(* The spin word is not left taken with no core to give it back: a restart *)
(* of core 1 in the middle of the section frees the lock.                  *)
(***************************************************************************)
NeverOrphaned == ~torn /\ raw = 1 => \E c \in Cores : pc[c] \in Taken

(***************************************************************************)
(* IRQs are masked from taking the lock to giving it back, or a handler of *)
(* the same core would spin on it for ever, and outside the lock the       *)
(* caller has the IRQ state it came with, however deep it nested.          *)
(***************************************************************************)
IrqDiscipline ==
    ~torn => \A c \in Cores :
        /\ pc[c] \in Taken => ~irq[c]
        /\ pc[c] = "idle" => irq[c] = before[c]
=============================================================================
