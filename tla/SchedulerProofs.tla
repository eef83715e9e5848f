-------------------------- MODULE SchedulerProofs --------------------------
(***************************************************************************)
(* Proofs about the scheduler, for every capacity, request set, threshold  *)
(* and bound.                                                              *)
(*                                                                         *)
(* None of the safety invariants is inductive: that a restart orphans no   *)
(* claim depends on why core 0 restarts core 1, which it decided several   *)
(* steps before.  IInv says what core 0 may rely on at each label.         *)
(***************************************************************************)
EXTENDS Scheduler, TLAPS

-----------------------------------------------------------------------------
(* Type correctness.  TypeOK is inductive: one step per action, and under  *)
(* it one per record the action writes.                                    *)

(* A step that leaves the task queue alone keeps its type.                 *)
LEMMA QueueUnchanged == QueueTypeOK /\ UNCHANGED queueVars => QueueTypeOK'
BY DEF QueueTypeOK, queueVars

(* A state-word update (claim, complete, fail, release) keeps it.          *)
LEMMA SetStateType ==
  ASSUME QueueTypeOK, NEW i, NEW s \in TaskStates, SetState(i, s)
  PROVE  QueueTypeOK'
BY DEF QueueTypeOK, SetState

(* So does an enqueue: the circular scan stays inside the table.           *)
LEMMA EnqueueType ==
  ASSUME QueueTypeOK, NEW r \in Tags, NEW c \in Classes, NEW g \in Nat,
         taskq_enqueue(r, c, g)
  PROVE  QueueTypeOK'
<1>1. PICK i \in Free : Publish(i, r, c, g) /\ cursor' = (i + 1) % CAPACITY
  BY DEF taskq_enqueue
<1>2. i \in Slots
  BY DEF Free
<1>3. cursor' \in Slots
  BY <1>1, <1>2, CapacityAssumption DEF Slots
<1> QED BY <1>1, <1>2, <1>3 DEF QueueTypeOK, Publish, TaskStates

(* So does taskq_init.                                                     *)
LEMMA InitType == QueueTypeOK /\ taskq_init => QueueTypeOK'
BY CapacityAssumption DEF QueueTypeOK, taskq_init, Slots, TaskStates

(* Steps of core 1's worker and fault handler keep every type.             *)
LEMMA TypeCore1 == ASSUME TypeOK, Core1 PROVE TypeOK'
<1> USE DEF TypeOK, clientVars, core0Own, core1Own
<1>1. CASE Core1Boot
  <2>1. sh' \in Shared
    BY <1>1 DEF Core1Boot, Shared, Flag, SlotOrNone
  <2> QED BY <1>1, <2>1, QueueUnchanged DEF Core1Boot, Labels1
<1>2. CASE Core1Decide
  BY <1>2, QueueUnchanged DEF Core1Decide, Labels1
<1>3. CASE Core1MiniglReset
  <2>1. sh' \in Shared
    BY <1>3 DEF Core1MiniglReset, Shared, Flag, SlotOrNone
  <2>2. gl' \in ModuleHost
    BY <1>3 DEF Core1MiniglReset, ModuleHost, Flag
  <2> QED BY <1>3, <2>1, <2>2, QueueUnchanged DEF Core1MiniglReset, Labels1
<1>4. CASE Core1Tick
  <2>1. sh' \in Shared
    BY <1>4 DEF Core1Tick, Shared, Flag, SlotOrNone
  <2> QED BY <1>4, <2>1, QueueUnchanged DEF Core1Tick, Labels1
<1>5. CASE Core1Idle
  BY <1>5, QueueUnchanged DEF Core1Idle, Labels1
<1>6. CASE scheduler_core1_reclaim_if_requested
  <2>1. sh' \in Shared
    BY <1>6 DEF scheduler_core1_reclaim_if_requested, Shared, Flag, SlotOrNone
  <2> QED BY <1>6, <2>1, QueueUnchanged DEF
        scheduler_core1_reclaim_if_requested
<1>7. CASE scheduler_core1_clean_if_requested
  <2>1. sh' \in Shared
    BY <1>7 DEF scheduler_core1_clean_if_requested, Shared, Flag, SlotOrNone
  <2>2. dirty1' \in BOOLEAN
    BY <1>7, Zenon DEF scheduler_core1_clean_if_requested
  <2> QED BY <1>7, <2>1, <2>2, QueueUnchanged DEF
        scheduler_core1_clean_if_requested
<1>8. CASE scheduler_core1_park_if_requested
  <2>1. sh' \in Shared
    BY <1>8 DEF scheduler_core1_park_if_requested, Shared, Flag, SlotOrNone
  <2>2. dirty1' \in BOOLEAN
    BY <1>8, Zenon DEF scheduler_core1_park_if_requested
  <2> QED BY <1>8, <2>1, <2>2, QueueUnchanged DEF
        scheduler_core1_park_if_requested, Labels1
<1>9. ASSUME NEW i \in Slots, Core1Claim(i)
     PROVE  TypeOK'
  BY <1>9, SetStateType DEF Core1Claim, taskq_claim_any, Labels1, TaskStates,
      SlotOrNone
<1>10. CASE Core1Begin
  <2>1. sh' \in Shared
    BY <1>10 DEF Core1Begin, Shared, Flag, SlotOrNone
  <2>2. dirty1' \in BOOLEAN
    BY <1>10, Zenon DEF Core1Begin
  <2> QED BY <1>10, <2>1, <2>2, QueueUnchanged DEF Core1Begin, Labels1
<1>11. CASE zzm_minigl_register
  <2>1. gl' \in ModuleHost
    BY <1>11 DEF zzm_minigl_register, ModuleHost, Flag
  <2> QED BY <1>11, <2>1, QueueUnchanged DEF zzm_minigl_register
<1>12. CASE Core1Complete
  BY <1>12, SetStateType DEF Core1Complete, taskq_complete, Labels1,
      TaskStates
<1>13. CASE Core1Done
  <2>1. sh' \in Shared
    BY <1>13 DEF Core1Done, Shared, Flag, SlotOrNone
  <2> QED BY <1>13, <2>1, QueueUnchanged DEF Core1Done, Labels1, SlotOrNone
<1>14. CASE Core1TickEnd
  <2>1. sh' \in Shared
    BY <1>14 DEF Core1TickEnd, Shared, Flag, SlotOrNone
  <2>2. gl' \in ModuleHost
    BY <1>14 DEF Core1TickEnd, ModuleHost, Flag
  <2> QED BY <1>14, <2>1, <2>2, QueueUnchanged DEF Core1TickEnd, Labels1
<1>15. CASE Core1Fault
  BY <1>15, QueueUnchanged DEF Core1Fault, Labels1, SlotOrNone, Shared
<1>16. CASE Core1FailTask
  <2>1. sh' \in Shared
    BY <1>16 DEF Core1FailTask, zzm_minigl_on_core1_fault, Shared, Flag,
      SlotOrNone
  <2>2. gl' \in ModuleHost
    BY <1>16 DEF Core1FailTask, taskq_fail, zzm_minigl_on_core1_fault,
      ModuleHost, Flag
  <2> QED BY <1>16, <2>1, <2>2, SetStateType DEF Core1FailTask, taskq_fail,
        zzm_minigl_on_core1_fault, Labels1, TaskStates
<1>17. CASE Core1Hang
  <2>1. sh' \in Shared
    BY <1>17 DEF Core1Hang, zzm_minigl_on_core1_fault, Shared, Flag,
      SlotOrNone
  <2>2. gl' \in ModuleHost
    BY <1>17 DEF Core1Hang, zzm_minigl_on_core1_fault, ModuleHost, Flag
  <2> QED BY <1>17, <2>1, <2>2, QueueUnchanged DEF Core1Hang,
        zzm_minigl_on_core1_fault, Labels1
<1>18. CASE Core1RequestRestart
  <2>1. sh' \in Shared
    BY <1>18 DEF Core1RequestRestart, Shared, Flag, SlotOrNone
  <2> QED BY <1>18, <2>1, QueueUnchanged DEF Core1RequestRestart, Labels1,
        SlotOrNone
<1> QED BY <1>1, <1>2, <1>3, <1>4, <1>5, <1>6, <1>7, <1>8, <1>9, <1>10, <1>11,
      <1>12, <1>13, <1>14, <1>15, <1>16, <1>17, <1>18 DEF Core1

(* Steps of scheduler_core0_poll.                                          *)
LEMMA TypePoll == ASSUME TypeOK, Poll PROVE TypeOK'
<1> USE DEF TypeOK, clientVars, core0Own, core1Own
<1>1. CASE StartPoll
  BY <1>1, QueueUnchanged DEF StartPoll, Labels0
<1>2. ASSUME NEW i \in Slots, HarvestStale(i)
     PROVE  TypeOK'
  BY <1>2, SetStateType DEF HarvestStale, taskq_release, TaskStates
<1>3. ASSUME NEW i \in Slots, HarvestInternal(i)
     PROVE  TypeOK'
  <2>1. wd' \in Watchdog
    BY <1>3 DEF HarvestInternal, taskq_release, taskq_watchdog_on_success,
      Watchdog, Flag
  <2> QED BY <1>3, <2>1, SetStateType DEF HarvestInternal, taskq_release,
        taskq_watchdog_on_success, TaskStates
<1>4. ASSUME NEW i \in Slots, HarvestPost(i)
     PROVE  TypeOK'
  <2>1. wd' \in Watchdog
    BY <1>4 DEF HarvestPost, taskq_release, taskq_watchdog_on_success,
      Watchdog, Flag
  <2> QED BY <1>4, <2>1, SetStateType DEF HarvestPost, taskq_release,
        taskq_watchdog_on_success, TaskStates
<1>5. CASE HarvestEnd
  BY <1>5, QueueUnchanged DEF HarvestEnd, Labels0
<1>6. CASE NoRestartRequest
  BY <1>6, QueueUnchanged DEF NoRestartRequest, Labels0
<1>7. CASE taskq_watchdog_on_fault
  <2>1. sh' \in Shared
    BY <1>7 DEF taskq_watchdog_on_fault, Shared, Flag, SlotOrNone
  <2>2. wd' \in Watchdog
    <3>1. wd.faults + 1 \in Nat
      BY DEF Watchdog
    <3>2. \E on \in {0, 1}, s \in {wd.started, 0} :
            wd' = [wd EXCEPT !.faults = wd.faults + 1, !.enabled = on,
                             !.started = s]
      BY <1>7 DEF taskq_watchdog_on_fault
    <3> QED BY <3>1, <3>2 DEF Watchdog, Flag
  <2>3. ret' \in Returns
    BY <1>7 DEF taskq_watchdog_on_fault, CauseNow, Returns
  <2> QED BY <1>7, <2>1, <2>2, <2>3, QueueUnchanged DEF
        taskq_watchdog_on_fault, CauseNow, Labels0
<1>8. ASSUME NEW i \in Slots, DrainFail(i)
     PROVE  TypeOK'
  BY <1>8, SetStateType DEF DrainFail, taskq_fail, TaskStates
<1>9. ASSUME NEW i \in Slots, DrainClaim(i)
     PROVE  TypeOK'
  BY <1>9, SetStateType DEF DrainClaim, taskq_claim_any, taskq_claim_short,
      Labels0, TaskStates, SlotOrNone
<1>10. CASE DrainRun
  <2>1. ret' \in Returns
    BY <1>10 DEF DrainRun, taskq_complete, ReturnFromPoll, Returns
  <2> QED BY <1>10, <2>1, SetStateType DEF DrainRun, taskq_complete,
        ReturnFromPoll, Labels0, Returns, TaskStates, SlotOrNone
<1>11. CASE DrainEnd
  <2>1. ret' \in Returns
    BY <1>11 DEF DrainEnd, ReturnFromPoll, Returns
  <2> QED BY <1>11, <2>1, QueueUnchanged DEF DrainEnd, ReturnFromPoll,
        Labels0, Returns
<1> QED BY <1>1, <1>2, <1>3, <1>4, <1>5, <1>6, <1>7, <1>8, <1>9, <1>10,
      <1>11 DEF Poll

(* Steps of core1_cold_restart.                                            *)
LEMMA TypeColdRestart == ASSUME TypeOK, ColdRestart PROVE TypeOK'
<1> USE DEF TypeOK, clientVars, core0Own, core1Own
<1>1. CASE core1_park_for_reset
  <2>1. sh' \in Shared
    BY <1>1 DEF core1_park_for_reset, Shared, Flag, SlotOrNone
  <2> QED BY <1>1, <2>1, QueueUnchanged DEF core1_park_for_reset, Labels0
<1>2. CASE ParkWaitEnd
  BY <1>2, QueueUnchanged DEF ParkWaitEnd, Labels0
<1>3. CASE core1_cold_restart
  <2>1. sh' \in Shared
    BY <1>3 DEF core1_cold_restart, Shared, Flag, SlotOrNone
  <2>2. gl' \in ModuleHost
    BY <1>3 DEF core1_cold_restart, ModuleHost, Flag
  <2>3. ret' \in Returns
    BY <1>3 DEF core1_cold_restart, Returns
  <2>4. dirty1' \in BOOLEAN
    BY <1>3, Zenon DEF core1_cold_restart
  <2> QED BY <1>3, <2>1, <2>2, <2>3, <2>4, QueueUnchanged DEF
        core1_cold_restart, Labels1, Labels0, Returns, SlotOrNone
<1> QED BY <1>1, <1>2, <1>3 DEF ColdRestart

(* Steps of scheduler_quiesce_for_reset.                                   *)
LEMMA TypeQuiesce == ASSUME TypeOK, Quiesce PROVE TypeOK'
<1> USE DEF TypeOK, clientVars, core0Own, core1Own
<1>1. CASE QuiesceSkip
  <2>1. ret' \in Returns
    BY <1>1 DEF QuiesceSkip, ReturnFromQuiesce, Returns
  <2> QED BY <1>1, <2>1, QueueUnchanged DEF QuiesceSkip, ReturnFromQuiesce,
        Labels0, Returns
<1>2. CASE QuiesceWaitEnd
  BY <1>2, QueueUnchanged DEF QuiesceWaitEnd, Labels0
<1>3. CASE QuiesceEvaluate
  <2>1. timed_out' \in BOOLEAN
    BY <1>3, Zenon DEF QuiesceEvaluate
  <2> QED BY <1>3, <2>1, QueueUnchanged DEF QuiesceEvaluate, Inactive, Labels0
<1>4. CASE QuiesceInit
  <2>1. sh' \in Shared
    BY <1>4 DEF QuiesceInit, Shared, Flag, SlotOrNone
  <2>2. ret' \in Returns
    BY <1>4 DEF QuiesceInit, ReturnFromQuiesce, Restart, Returns
  <2>3. timed_out' \in BOOLEAN
    BY <1>4, Zenon DEF QuiesceInit
  <2> QED BY <1>4, <2>1, <2>2, <2>3, InitType DEF QuiesceInit,
        ReturnFromQuiesce, Restart, Labels0, Returns
<1>5. CASE QuiesceDone
  <2>1. sh' \in Shared
    BY <1>5 DEF QuiesceDone, Shared, Flag, SlotOrNone
  <2>2. ret' \in Returns
    BY <1>5 DEF QuiesceDone, ReturnFromQuiesce, Returns
  <2> QED BY <1>5, <2>1, <2>2, QueueUnchanged DEF QuiesceDone,
        ReturnFromQuiesce, Labels0, Returns
<1> QED BY <1>1, <1>2, <1>3, <1>4, <1>5 DEF Quiesce

(* Steps of the Amiga reset.                                               *)
LEMMA TypeReset == ASSUME TypeOK, Reset PROVE TypeOK'
<1> USE DEF TypeOK, clientVars, core0Own, core1Own
<1>1. CASE FwupIdle
  BY <1>1, QueueUnchanged DEF FwupIdle, Labels0
<1>2. CASE FwupPoll
  <2>1. ret' \in Returns
    BY <1>2 DEF FwupPoll, Returns
  <2> QED BY <1>2, <2>1, QueueUnchanged DEF FwupPoll, Labels0
<1>3. CASE FwupTimeout
  <2>1. ret' \in Returns
    BY <1>3 DEF FwupTimeout, Returns
  <2> QED BY <1>3, <2>1, QueueUnchanged DEF FwupTimeout, Labels0
<1>4. CASE fw_update_forget_queued
  BY <1>4, QueueUnchanged DEF fw_update_forget_queued, Labels0
<1>5. CASE TakeBackLent
  <2>1. ret' \in Returns
    BY <1>5 DEF TakeBackLent, Returns
  <2> QED BY <1>5, <2>1, QueueUnchanged DEF TakeBackLent, Labels0
<1>6. CASE scheduler_core1_clean_dcache
  <2>1. sh' \in Shared
    BY <1>6 DEF scheduler_core1_clean_dcache, Shared, Flag, SlotOrNone
  <2>2. ret' \in Returns
    BY <1>6 DEF scheduler_core1_clean_dcache, Restart, CauseNow, Returns
  <2> QED BY <1>6, <2>1, <2>2, QueueUnchanged DEF
        scheduler_core1_clean_dcache, Restart, CauseNow, Labels0
<1>7. CASE CleanWaitEnd
  <2>1. sh' \in Shared
    BY <1>7 DEF CleanWaitEnd, Shared, Flag, SlotOrNone
  <2>2. ret' \in Returns
    BY <1>7 DEF CleanWaitEnd, Restart, Returns
  <2> QED BY <1>7, <2>1, <2>2, QueueUnchanged DEF CleanWaitEnd, Restart,
        Labels0
<1>8. CASE card_pool_take_back_lent
  BY <1>8, QueueUnchanged DEF card_pool_take_back_lent, Labels0
<1>9. CASE sdk_mailbox_init
  BY <1>9, QueueUnchanged DEF sdk_mailbox_init, Labels0
<1>10. CASE scheduler_core1_reclaim
  <2>1. sh' \in Shared
    BY <1>10 DEF scheduler_core1_reclaim, Shared, Flag, SlotOrNone
  <2>2. ret' \in Returns
    BY <1>10 DEF scheduler_core1_reclaim, Restart, CauseNow, Returns
  <2> QED BY <1>10, <2>1, <2>2, QueueUnchanged DEF scheduler_core1_reclaim,
        Restart, CauseNow, Labels0
<1>11. CASE ReclaimWaitEnd
  <2>1. sh' \in Shared
    BY <1>11 DEF ReclaimWaitEnd, Shared, Flag, SlotOrNone
  <2>2. ret' \in Returns
    BY <1>11 DEF ReclaimWaitEnd, Restart, Returns
  <2> QED BY <1>11, <2>1, <2>2, QueueUnchanged DEF ReclaimWaitEnd, Restart,
        Labels0
<1>12. CASE MiniglPhase
  <2>1. sh' \in Shared
    BY <1>12 DEF MiniglPhase, scheduler_cancel_minigl_reset, Shared, Flag,
      SlotOrNone
  <2>2. gl' \in ModuleHost
    BY <1>12 DEF MiniglPhase, scheduler_cancel_minigl_reset, Restart,
      ModuleHost, Flag
  <2>3. ret' \in Returns
    BY <1>12 DEF MiniglPhase, scheduler_cancel_minigl_reset, Restart, Returns
  <2> QED BY <1>12, <2>1, <2>2, <2>3, QueueUnchanged DEF MiniglPhase,
        scheduler_cancel_minigl_reset, Restart, Labels0
<1>13. CASE minigl_reset_poll
  <2>1. sh' \in Shared
    BY <1>13 DEF minigl_reset_poll, scheduler_cancel_minigl_reset, Shared,
      Flag, SlotOrNone
  <2>2. gl' \in ModuleHost
    BY <1>13 DEF minigl_reset_poll, scheduler_cancel_minigl_reset, Restart,
      ModuleHost, Flag
  <2>3. ret' \in Returns
    BY <1>13 DEF minigl_reset_poll, scheduler_cancel_minigl_reset, Restart,
      Returns
  <2> QED BY <1>13, <2>1, <2>2, <2>3, QueueUnchanged DEF minigl_reset_poll,
        scheduler_cancel_minigl_reset, Restart, Labels0
<1>14. CASE minigl_reset_abort_and_free
  <2>1. gl' \in ModuleHost
    BY <1>14 DEF minigl_reset_abort_and_free, ModuleHost, Flag
  <2> QED BY <1>14, <2>1, QueueUnchanged DEF minigl_reset_abort_and_free,
        Labels0
<1>15. CASE SampleAck
  <2>1. gl' \in ModuleHost
    BY <1>15 DEF SampleAck, Shared, ModuleHost, Flag
  <2> QED BY <1>15, <2>1, QueueUnchanged DEF SampleAck, Labels0
<1> QED BY <1>1, <1>2, <1>3, <1>4, <1>5, <1>6, <1>7, <1>8, <1>9, <1>10, <1>11,
      <1>12, <1>13, <1>14,
      <1>15 DEF Reset

(* Dispatch, the internal jobs and the Amiga.                              *)
LEMMA TypeClient == ASSUME TypeOK, Client PROVE TypeOK'
<1> USE DEF TypeOK, clientVars, core0Own, core1Own
<1>1. ASSUME NEW r \in Reqs, DispatchInline(r)
     PROVE  TypeOK'
  BY <1>1, QueueUnchanged DEF DispatchInline, CanAccept
<1>2. ASSUME NEW r \in Reqs, NEW c \in Classes, DispatchDeferred(r, c)
     PROVE  TypeOK'
  BY <1>2, EnqueueType DEF DispatchDeferred, CanAccept, Tags
<1>3. ASSUME NEW op \in Internal, sdk_mailbox_enqueue_internal(op)
     PROVE  TypeOK'
  BY <1>3, EnqueueType DEF sdk_mailbox_enqueue_internal, Tags, Classes
<1>4. CASE AmigaBoots
  <2>1. up' \in BOOLEAN
    BY <1>4, Zenon DEF AmigaBoots
  <2> QED BY <1>4, <2>1, QueueUnchanged DEF AmigaBoots
<1>5. CASE AmigaPackets
  <2>1. gl' \in ModuleHost
    BY <1>5 DEF AmigaPackets, ModuleHost, Flag
  <2> QED BY <1>5, <2>1, QueueUnchanged DEF AmigaPackets
<1>6. CASE minigl_begin_amiga_reset
  <2>1. sh' \in Shared
    BY <1>6 DEF minigl_begin_amiga_reset, Shared, Flag, SlotOrNone
  <2>2. gl' \in ModuleHost
    BY <1>6 DEF minigl_begin_amiga_reset, ModuleHost, Flag
  <2>3. up' \in BOOLEAN
    BY <1>6, Zenon DEF minigl_begin_amiga_reset
  <2> QED BY <1>6, <2>1, <2>2, <2>3, QueueUnchanged DEF
        minigl_begin_amiga_reset, Labels0
<1> QED BY <1>1, <1>2, <1>3, <1>4, <1>5, <1>6 DEF Client

(* The remaining steps: core 0's boot check and the Amiga's consumer.      *)
LEMMA TypeStep == TypeOK /\ [Next]_vars => TypeOK'
<1> SUFFICES ASSUME TypeOK, [Next]_vars PROVE TypeOK'
  OBVIOUS
<1>1. CASE scheduler_confirm_core1_boot
  <2>1. wd' \in Watchdog
    BY <1>1 DEF scheduler_confirm_core1_boot, Watchdog, Shared, TypeOK
  <2> QED BY <1>1, <2>1, QueueUnchanged
          DEF scheduler_confirm_core1_boot, TypeOK, clientVars, core1Own,
              Labels0
<1>2. CASE AmigaConsume
  BY <1>2, QueueUnchanged DEF AmigaConsume, TypeOK, core1Own
<1>3. CASE UNCHANGED vars
  BY <1>3, QueueUnchanged DEF vars, TypeOK, clientVars
<1> QED BY <1>1, <1>2, <1>3, TypeCore1, TypePoll, TypeColdRestart, TypeQuiesce,
           TypeReset, TypeClient DEF Next, Core0

(* scheduler_boot_init leaves every word typed.                            *)
LEMMA TypeInit == Init => TypeOK
<1> SUFFICES ASSUME Init PROVE TypeOK
  OBVIOUS
<1>1. QueueTypeOK
  BY CapacityAssumption
     DEF Init, QueueInit, QueueTypeOK, Slots, TaskStates, Classes, Tags, NoJob
<1>2. sh \in Shared
  BY DEF Init, Shared, Flag, SlotOrNone
<1>3. wd \in Watchdog /\ gl \in ModuleHost /\ ret \in Returns
  BY DEF Init, Watchdog, ModuleHost, Returns, Flag
<1>4. dirty1 \in BOOLEAN /\ timed_out \in BOOLEAN /\ up \in BOOLEAN
  BY Zenon DEF Init
<1>5. /\ ring \in Seq(Reqs) /\ generation \in Nat
      /\ pend \subseteq Internal /\ jobs \in Nat
      /\ born \in [Reqs -> Nat \cup {-1}] /\ answered \subseteq Reqs
  BY DEF Init
<1> QED BY <1>1, <1>2, <1>3, <1>4, <1>5
        DEF Init, TypeOK, Labels0, Labels1, SlotOrNone

(* Every variable of the scheduler keeps its type in every behaviour, for  *)
(* every queue capacity, request set, fault threshold and bound.           *)
THEOREM TypeCorrect == Spec => []TypeOK
BY TypeInit, TypeStep, PTL DEF Spec

-----------------------------------------------------------------------------
(* What core 0 may rely on at each label.                                  *)

RestartLabels == {"park", "parkwait", "held"}
PollLabels == {"harvest", "restart", "drain", "drainrun"} \cup RestartLabels
ResetLabels == {"glposted", "fwup", "quiesce", "qeval", "qinit", "qdone",
                "fwupforget", "lent", "clean", "cleanwait", "takeback",
                "teardown", "reclaim", "reclaimwait", "glphase", "glabort"}
EmptyLabels == {"qdone", "fwupforget", "clean", "cleanwait", "takeback",
                "teardown", "reclaim", "reclaimwait", "glphase", "glabort"}

(* Core 0 restarts a core 1 whose task the quiesce cleared from the queue. *)
CutOff == pc0 \in RestartLabels /\ ret.restart = "qdone"

(* The quiesce of this Amiga reset is over and the Amiga is not back yet.  *)
Emptied ==
  \/ pc0 \in EmptyLabels
  \/ pc0 \in RestartLabels /\ ret.restart # "drain"
  \/ ~up /\ ret.poll = "main" /\ pc0 \in PollLabels \cup {"main"}

(* Core 1 has a task, or is about to ask for a restart because of one.     *)
Busy1 == \/ pc1 \in {"claimed", "run", "failed"}
         \/ pc1 = "fault" /\ slot1 # NoSlot

Stopped1 == pc1 \in {"faulted", "parked"}
AtRest1 == ~Busy1 /\ ~taskq_has_active

(* Core 0's return labels and the Amiga agree with where core 0 is.        *)
ControlInv ==
  /\ pc0 = "confirm" => wd.started = 0
  /\ pc0 \in ResetLabels => ~up
  /\ gl.posted = 1 => ~up
  /\ ret.poll = "fwup" => ~up /\ pc0 \in PollLabels
  /\ ret.restart # "drain" => ~up /\ pc0 \in RestartLabels /\ ret.poll = "main"

(* Nothing is queued or claimed from the quiesce to the Amiga's boot, when *)
(* the wait found nothing active, or while core 1 is out of service.       *)
EmptyInv ==
  /\ Emptied => ~taskq_has_active
  /\ pc0 = "qinit" /\ ~timed_out => ~taskq_has_active
  /\ ~scheduler_core1_available /\ pc0 \notin {"drain", "drainrun"}
       => ~taskq_has_active

(* A restart request comes from a core that stopped, or is left over from  *)
(* a reset that found nothing to do.                                       *)
RequestInv ==
  /\ sh.restart_request = 1 =>
       \/ Stopped1
       \/ /\ AtRest1 /\ ~up
          /\ pc0 \notin {"confirm", "main", "drain", "drainrun"}
  /\ pc0 \in RestartLabels /\ ret.restart = "drain" =>
       sh.restart_request = 0 /\ (Stopped1 \/ AtRest1)
  /\ ~scheduler_core1_available => Stopped1 \/ AtRest1

(* core1_current_slot is what record_fault needs it to be.                 *)
CurrentInv ==
  /\ pc1 \in {"claimed", "run"} => slot1 \in Slots
  /\ pc1 = "run" => \/ sh.current_slot = slot1
                    \/ CutOff /\ sh.current_slot = NoSlot
  /\ worker_registered /\ pc1 \in {"boot", "loop", "pick", "claimed"}
       => sh.current_slot = NoSlot
  /\ pc1 = "tick" => sh.current_slot = NoSlot

(* A core that works on a slot has it CLAIMED, for this lifetime.          *)
OwnerInv ==
  /\ ClaimHasOneOwner
  /\ \A i \in Slots :
       /\ Core1Holds(i) => state[i] = "CLAIMED" \/ CutOff
       /\ Core1Holds(i) => gen[i] = generation
       /\ Core0Holds(i) => state[i] = "CLAIMED"
       /\ state[i] \in {"QUEUED", "CLAIMED"} => gen[i] = generation

IInv == /\ TypeOK /\ ControlInv /\ EmptyInv /\ RequestInv
        /\ CurrentInv /\ OwnerInv

(* Asking core 1 for something leaves alone what its handler goes by.      *)
LEMMA RequestFrame ==
  ASSUME TypeOK,
         \/ core1_park_for_reset
         \/ scheduler_core1_clean_dcache \/ scheduler_core1_reclaim
         \/ minigl_begin_amiga_reset
  PROVE  /\ sh'.restart_request = sh.restart_request
         /\ sh'.current_slot = sh.current_slot
<1>1. CASE core1_park_for_reset
  BY <1>1 DEF TypeOK, Shared, core1_park_for_reset
<1>2. CASE scheduler_core1_clean_dcache
  BY <1>2 DEF TypeOK, Shared, scheduler_core1_clean_dcache
<1>3. CASE scheduler_core1_reclaim
  BY <1>3 DEF TypeOK, Shared, scheduler_core1_reclaim
<1>4. CASE minigl_begin_amiga_reset
  BY <1>4 DEF TypeOK, Shared, minigl_begin_amiga_reset
<1> QED BY <1>1, <1>2, <1>3, <1>4

(* Settling the MiniGL reset posts none and registers no worker.           *)
LEMMA PhaseFrame ==
  ASSUME TypeOK, MiniglPhase
  PROVE  /\ gl'.posted = 1 => gl.posted = 1
         /\ worker_registered' => worker_registered
<1>1. CASE gl.acked = 1
  <2>1. gl' = [gl EXCEPT !.posted = 0, !.acked = 0]
    BY <1>1 DEF MiniglPhase
  <2> QED BY <2>1 DEF TypeOK, ModuleHost, worker_registered
<1>2. CASE gl.acked # 1
  BY <1>2 DEF TypeOK, ModuleHost, MiniglPhase, worker_registered,
              scheduler_cancel_minigl_reset
<1> QED BY <1>1, <1>2

(* Steps of core 1 keep the invariant.  It claims only what is QUEUED, and *)
(* a fault names the slot it holds.                                        *)
LEMMA InvCore1 == ASSUME IInv, TypeOK', Core1 PROVE IInv'
<1> USE DEF clientVars, core0Own, core1Own, queueVars
<1> USE DEF IInv, ControlInv, EmptyInv, RequestInv, CurrentInv, OwnerInv,
            ClaimHasOneOwner, Core1Holds, Core0Holds, CutOff, Emptied, AtRest1,
            Busy1, Stopped1, taskq_has_active, scheduler_core1_available,
            worker_registered, RestartLabels, PollLabels, ResetLabels,
            EmptyLabels
<1> USE DEF TypeOK, QueueTypeOK, Shared, Watchdog, ModuleHost, Returns, Flag,
            SlotOrNone, NoSlot, Slots
<1>1. CASE Core1Boot
  BY <1>1 DEF Core1Boot
<1>2. CASE Core1Decide
  BY <1>2 DEF Core1Decide
<1>3. CASE Core1MiniglReset
  BY <1>3 DEF Core1MiniglReset
<1>4. CASE Core1Tick
  BY <1>4 DEF Core1Tick
<1>5. CASE Core1Idle
  BY <1>5 DEF Core1Idle
<1>6. CASE scheduler_core1_reclaim_if_requested
  BY <1>6 DEF scheduler_core1_reclaim_if_requested
<1>7. CASE scheduler_core1_clean_if_requested
  BY <1>7 DEF scheduler_core1_clean_if_requested
<1>8. CASE scheduler_core1_park_if_requested
  BY <1>8 DEF scheduler_core1_park_if_requested
<1>9. ASSUME NEW i \in Slots, Core1Claim(i)
     PROVE  IInv'
  <2>1. state[i] = "QUEUED" /\ ~Emptied /\ scheduler_core1_available
    BY <1>9 DEF Core1Claim, taskq_claim_any, IsFirst, Queued
  <2>2. OwnerInv'
    BY <1>9, <2>1 DEF Core1Claim, taskq_claim_any, IsFirst, Queued, SetState
  <2>3. EmptyInv' /\ RequestInv'
    BY <1>9, <2>1 DEF Core1Claim, taskq_claim_any, IsFirst, Queued, SetState
  <2>4. ControlInv' /\ CurrentInv'
    BY <1>9 DEF Core1Claim
  <2> QED BY <2>2, <2>3, <2>4
<1>10. CASE Core1Begin
  BY <1>10 DEF Core1Begin
<1>11. CASE zzm_minigl_register
  BY <1>11 DEF zzm_minigl_register
<1>12. CASE Core1Complete
  BY <1>12 DEF Core1Complete, taskq_complete, SetState
<1>13. CASE Core1Done
  BY <1>13 DEF Core1Done
<1>14. CASE Core1TickEnd
  BY <1>14 DEF Core1TickEnd
<1>15. CASE Core1Fault
  <2>1. slot1' = slot1 \/ slot1' = NoSlot \/ pc1 = "tick"
    BY <1>15 DEF Core1Fault
  <2>2. \A i \in Slots : state[i] = "CLAIMED" /\ Core1Holds(i) => slot1' = i
    BY <1>15 DEF Core1Fault
  <2>3. OwnerInv'
    BY <1>15, <2>1, <2>2 DEF Core1Fault
  <2>4. ControlInv' /\ EmptyInv' /\ RequestInv' /\ CurrentInv'
    BY <1>15, <2>1 DEF Core1Fault
  <2> QED BY <1>15, <2>3, <2>4
<1>16. CASE Core1FailTask
  BY <1>16 DEF Core1FailTask, taskq_fail, SetState, zzm_minigl_on_core1_fault
<1>17. CASE Core1Hang
  BY <1>17 DEF Core1Hang, zzm_minigl_on_core1_fault
<1>18. CASE Core1RequestRestart
  BY <1>18 DEF Core1RequestRestart
<1> QED BY <1>1, <1>2, <1>3, <1>4, <1>5, <1>6, <1>7, <1>8, <1>9, <1>10, <1>11,
      <1>12, <1>13, <1>14, <1>15, <1>16, <1>17, <1>18 DEF Core1

(* Steps of scheduler_core0_poll keep it.  A disabled core 1 has stopped,  *)
(* so the drain leaves nothing active.                                     *)
LEMMA InvPoll == ASSUME IInv, TypeOK', Poll PROVE IInv'
<1> USE DEF clientVars, core0Own, core1Own, queueVars
<1> USE DEF IInv, ControlInv, EmptyInv, RequestInv, CurrentInv, OwnerInv,
            ClaimHasOneOwner, Core1Holds, Core0Holds, CutOff, Emptied, AtRest1,
            Busy1, Stopped1, taskq_has_active, scheduler_core1_available,
            worker_registered, RestartLabels, PollLabels, ResetLabels,
            EmptyLabels
<1> USE DEF TypeOK, QueueTypeOK, Shared, Watchdog, ModuleHost, Returns, Flag,
            SlotOrNone, NoSlot, Slots
<1>1. CASE StartPoll
  BY <1>1 DEF StartPoll
<1>2. ASSUME NEW i \in Slots, HarvestStale(i)
     PROVE  IInv'
  BY <1>2 DEF HarvestStale, taskq_release, taskq_harvest, IsFirst, Finished,
      SetState
<1>3. ASSUME NEW i \in Slots, HarvestInternal(i)
     PROVE  IInv'
  BY <1>3 DEF HarvestInternal, taskq_release, taskq_harvest, IsFirst,
      Finished, SetState, taskq_watchdog_on_success
<1>4. ASSUME NEW i \in Slots, HarvestPost(i)
     PROVE  IInv'
  BY <1>4, SMTT(30) DEF HarvestPost, taskq_release, taskq_harvest, IsFirst, Finished,
      SetState, taskq_watchdog_on_success
<1>5. CASE HarvestEnd
  BY <1>5 DEF HarvestEnd
<1>6. CASE NoRestartRequest
  BY <1>6 DEF NoRestartRequest
<1>7. CASE taskq_watchdog_on_fault
  <2>1. Stopped1 \/ AtRest1
    BY <1>7 DEF taskq_watchdog_on_fault
  <2>2. sh'.restart_request = 0 /\ sh'.current_slot = sh.current_slot
    BY <1>7 DEF taskq_watchdog_on_fault
  <2>3. RequestInv'
    BY <1>7, <2>1, <2>2 DEF taskq_watchdog_on_fault, CauseNow
  <2>4. ControlInv' /\ EmptyInv' /\ CurrentInv' /\ OwnerInv'
    BY <1>7, <2>2 DEF taskq_watchdog_on_fault, CauseNow
  <2> QED BY <2>3, <2>4
<1>8. ASSUME NEW i \in Slots, DrainFail(i)
     PROVE  IInv'
  BY <1>8 DEF DrainFail, taskq_fail, SetState
<1>9. ASSUME NEW i \in Slots, DrainClaim(i)
     PROVE  IInv'
  BY <1>9 DEF DrainClaim, taskq_claim_any, IsFirst, Queued, SetState,
      taskq_claim_short
<1>10. CASE DrainRun
  BY <1>10, SMTT(30) DEF DrainRun, taskq_complete, SetState, ReturnFromPoll
<1>11. CASE DrainEnd
  <2>1. ~scheduler_core1_available => ~taskq_has_active
    <3> SUFFICES ASSUME ~scheduler_core1_available, NEW i \in Slots,
                        state[i] \in {"QUEUED", "CLAIMED"}
                 PROVE  FALSE
      OBVIOUS
    <3>1. state[i] # "QUEUED"
      BY <1>11 DEF DrainEnd, Queued
    <3>2. ~Core1Holds(i) /\ ~Core0Holds(i)
      BY <1>11, <3>1 DEF DrainEnd
    <3> QED BY <3>1, <3>2
  <2>2. ControlInv' /\ EmptyInv'
    BY <1>11, <2>1 DEF DrainEnd, ReturnFromPoll
  <2>3. RequestInv' /\ CurrentInv' /\ OwnerInv'
    BY <1>11 DEF DrainEnd, ReturnFromPoll
  <2> QED BY <1>11, <2>2, <2>3
<1> QED BY <1>1, <1>2, <1>3, <1>4, <1>5, <1>6, <1>7, <1>8, <1>9, <1>10,
      <1>11 DEF Poll

(* Steps of core1_cold_restart keep it: no path reaches "held" with a      *)
(* claim of core 1 still in the queue.                                     *)
LEMMA InvColdRestart == ASSUME IInv, TypeOK', ColdRestart PROVE IInv'
<1> USE DEF clientVars, core0Own, core1Own, queueVars
<1> USE DEF IInv, ControlInv, EmptyInv, RequestInv, CurrentInv, OwnerInv,
            ClaimHasOneOwner, Core1Holds, Core0Holds, CutOff, Emptied, AtRest1,
            Busy1, Stopped1, taskq_has_active, scheduler_core1_available,
            worker_registered, RestartLabels, PollLabels, ResetLabels,
            EmptyLabels
<1> USE DEF TypeOK, QueueTypeOK, Shared, Watchdog, ModuleHost, Returns, Flag,
            SlotOrNone, NoSlot, Slots
<1>1. CASE core1_park_for_reset
  <2>1. /\ sh'.restart_request = sh.restart_request
        /\ sh'.current_slot = sh.current_slot
    BY <1>1, RequestFrame
  <2> HIDE DEF Shared
  <2> QED BY <1>1, <2>1 DEF core1_park_for_reset
<1>2. CASE ParkWaitEnd
  BY <1>2 DEF ParkWaitEnd
<1>3. CASE core1_cold_restart
  <2>1. \A i \in Slots : state[i] # "CLAIMED"
    <3>1. CASE ret.restart = "drain"
      BY <1>3, <3>1 DEF core1_cold_restart
    <3>2. CASE ret.restart # "drain"
      BY <1>3, <3>2 DEF core1_cold_restart
    <3> QED BY <3>1, <3>2
  <2>2. OwnerInv'
    BY <1>3, <2>1 DEF core1_cold_restart
  <2>3. EmptyInv' /\ RequestInv'
    BY <1>3 DEF core1_cold_restart
  <2>4. ControlInv' /\ CurrentInv'
    BY <1>3 DEF core1_cold_restart
  <2> QED BY <1>3, <2>2, <2>3, <2>4
<1> QED BY <1>1, <1>2, <1>3 DEF ColdRestart

(* Steps of scheduler_quiesce_for_reset keep it: the queue is cleared      *)
(* either with nothing active or before a restart.                         *)
LEMMA InvQuiesce == ASSUME IInv, TypeOK', Quiesce PROVE IInv'
<1> USE DEF clientVars, core0Own, core1Own, queueVars
<1> USE DEF IInv, ControlInv, EmptyInv, RequestInv, CurrentInv, OwnerInv,
            ClaimHasOneOwner, Core1Holds, Core0Holds, CutOff, Emptied, AtRest1,
            Busy1, Stopped1, taskq_has_active, scheduler_core1_available,
            worker_registered, RestartLabels, PollLabels, ResetLabels,
            EmptyLabels
<1> USE DEF TypeOK, QueueTypeOK, Shared, Watchdog, ModuleHost, Returns, Flag,
            SlotOrNone, NoSlot, Slots
<1>1. CASE QuiesceSkip
  BY <1>1 DEF QuiesceSkip, ReturnFromQuiesce
<1>2. CASE QuiesceWaitEnd
  BY <1>2 DEF QuiesceWaitEnd
<1>3. CASE QuiesceEvaluate
  <2>1. ~timed_out' => ~taskq_has_active'
    BY <1>3, Zenon DEF QuiesceEvaluate, Inactive
  <2>2. ControlInv' /\ EmptyInv'
    BY <1>3, <2>1 DEF QuiesceEvaluate
  <2>3. RequestInv' /\ CurrentInv' /\ OwnerInv'
    BY <1>3 DEF QuiesceEvaluate
  <2> QED BY <1>3, <2>2, <2>3
<1>4. CASE QuiesceInit
  <2>1. ~timed_out => ~Busy1 \/ pc1 = "failed"
    BY <1>4 DEF QuiesceInit
  <2>2. ~taskq_has_active'
    BY <1>4 DEF QuiesceInit, taskq_init
  <2>3. OwnerInv'
    BY <1>4, <2>1, <2>2 DEF QuiesceInit, taskq_init, ReturnFromQuiesce, Restart
  <2>4. EmptyInv' /\ RequestInv'
    BY <1>4, <2>2 DEF QuiesceInit, taskq_init, ReturnFromQuiesce, Restart
  <2>5. ControlInv' /\ CurrentInv'
    BY <1>4, <2>1 DEF QuiesceInit, taskq_init, ReturnFromQuiesce, Restart
  <2> QED BY <1>4, <2>3, <2>4, <2>5
<1>5. CASE QuiesceDone
  BY <1>5 DEF QuiesceDone, ReturnFromQuiesce
<1> QED BY <1>1, <1>2, <1>3, <1>4, <1>5 DEF Quiesce

(* Steps of the Amiga reset keep it: the lifetime ends with nothing        *)
(* active.                                                                 *)
LEMMA InvReset == ASSUME IInv, TypeOK', Reset PROVE IInv'
<1> USE DEF clientVars, core0Own, core1Own, queueVars
<1> USE DEF IInv, ControlInv, EmptyInv, RequestInv, CurrentInv, OwnerInv,
            ClaimHasOneOwner, Core1Holds, Core0Holds, CutOff, Emptied, AtRest1,
            Busy1, Stopped1, taskq_has_active, scheduler_core1_available,
            worker_registered, RestartLabels, PollLabels, ResetLabels,
            EmptyLabels
<1> USE DEF TypeOK, QueueTypeOK, Shared, Watchdog, ModuleHost, Returns, Flag,
            SlotOrNone, NoSlot, Slots
<1>1. CASE FwupIdle
  BY <1>1 DEF FwupIdle
<1>2. CASE FwupPoll
  BY <1>2 DEF FwupPoll
<1>3. CASE FwupTimeout
  BY <1>3 DEF FwupTimeout
<1>4. CASE fw_update_forget_queued
  BY <1>4 DEF fw_update_forget_queued
<1>5. CASE TakeBackLent
  BY <1>5 DEF TakeBackLent
<1>6. CASE scheduler_core1_clean_dcache
  <2>1. /\ sh'.restart_request = sh.restart_request
        /\ sh'.current_slot = sh.current_slot
    BY <1>6, RequestFrame
  <2> HIDE DEF Shared
  <2> QED BY <1>6, <2>1 DEF scheduler_core1_clean_dcache, Restart, CauseNow
<1>7. CASE CleanWaitEnd
  BY <1>7 DEF CleanWaitEnd, Restart
<1>8. CASE card_pool_take_back_lent
  BY <1>8 DEF card_pool_take_back_lent
<1>9. CASE sdk_mailbox_init
  <2>1. \A i \in Slots : state[i] \notin {"QUEUED", "CLAIMED"}
    BY <1>9 DEF sdk_mailbox_init
  <2>2. \A i \in Slots : ~Core1Holds(i)
    BY <1>9, <2>1 DEF sdk_mailbox_init
  <2>3. OwnerInv'
    BY <1>9, <2>1, <2>2 DEF sdk_mailbox_init
  <2>4. ControlInv' /\ EmptyInv' /\ RequestInv' /\ CurrentInv'
    BY <1>9 DEF sdk_mailbox_init
  <2> QED BY <1>9, <2>3, <2>4
<1>10. CASE scheduler_core1_reclaim
  <2>1. /\ sh'.restart_request = sh.restart_request
        /\ sh'.current_slot = sh.current_slot
    BY <1>10, RequestFrame
  <2> HIDE DEF Shared
  <2> QED BY <1>10, <2>1 DEF scheduler_core1_reclaim, Restart, CauseNow
<1>11. CASE ReclaimWaitEnd
  BY <1>11 DEF ReclaimWaitEnd, Restart
<1>12. CASE MiniglPhase
  <2>1. /\ gl'.posted = 1 => gl.posted = 1
        /\ worker_registered' => worker_registered
    BY <1>12, PhaseFrame
  <2>2. /\ sh'.restart_request = sh.restart_request
        /\ sh'.current_slot = sh.current_slot
    BY <1>12 DEF MiniglPhase, scheduler_cancel_minigl_reset
  <2> HIDE DEF Shared, ModuleHost, worker_registered
  <2> QED BY <1>12, <2>1, <2>2
          DEF MiniglPhase, scheduler_cancel_minigl_reset, Restart
<1>13. CASE minigl_reset_poll
  BY <1>13, SMTT(30) DEF minigl_reset_poll, scheduler_cancel_minigl_reset, Restart
<1>14. CASE minigl_reset_abort_and_free
  BY <1>14 DEF minigl_reset_abort_and_free
<1>15. CASE SampleAck
  BY <1>15 DEF SampleAck
<1> QED BY <1>1, <1>2, <1>3, <1>4, <1>5, <1>6, <1>7, <1>8, <1>9, <1>10, <1>11,
      <1>12, <1>13, <1>14,
      <1>15 DEF Reset

(* Dispatch and the Amiga keep it: work is accepted only while the Amiga   *)
(* is up.                                                                  *)
LEMMA InvClient == ASSUME IInv, TypeOK', Client PROVE IInv'
<1> USE DEF clientVars, core0Own, core1Own, queueVars
<1> USE DEF IInv, ControlInv, EmptyInv, RequestInv, CurrentInv, OwnerInv,
            ClaimHasOneOwner, Core1Holds, Core0Holds, CutOff, Emptied, AtRest1,
            Busy1, Stopped1, taskq_has_active, scheduler_core1_available,
            worker_registered, RestartLabels, PollLabels, ResetLabels,
            EmptyLabels
<1> USE DEF TypeOK, QueueTypeOK, Shared, Watchdog, ModuleHost, Returns, Flag,
            SlotOrNone, NoSlot, Slots
<1>1. ASSUME NEW r \in Reqs, DispatchInline(r)
     PROVE  IInv'
  BY <1>1 DEF DispatchInline, CanAccept
<1>2. ASSUME NEW r \in Reqs, NEW c \in Classes, DispatchDeferred(r, c)
     PROVE  IInv'
  BY <1>2 DEF DispatchDeferred, taskq_enqueue, Publish, Free, CanAccept
<1>3. ASSUME NEW op \in Internal, sdk_mailbox_enqueue_internal(op)
     PROVE  IInv'
  BY <1>3 DEF sdk_mailbox_enqueue_internal, taskq_enqueue, Publish, Free
<1>4. CASE AmigaBoots
  BY <1>4 DEF AmigaBoots
<1>5. CASE AmigaPackets
  BY <1>5 DEF AmigaPackets
<1>6. CASE minigl_begin_amiga_reset
  <2>1. /\ sh'.restart_request = sh.restart_request
        /\ sh'.current_slot = sh.current_slot
    BY <1>6, RequestFrame
  <2> HIDE DEF Shared
  <2> QED BY <1>6, <2>1, SMTT(30) DEF minigl_begin_amiga_reset
<1> QED BY <1>1, <1>2, <1>3, <1>4, <1>5, <1>6 DEF Client

(* scheduler_boot_init establishes the invariant: nothing is queued.       *)
LEMMA InvInit == Init => IInv
<1> SUFFICES ASSUME Init PROVE IInv
  OBVIOUS
<1>1. TypeOK
  BY TypeInit
<1>2. ~taskq_has_active /\ Queued = {}
  BY DEF Init, QueueInit, taskq_has_active, Queued
<1>3. ControlInv /\ EmptyInv
  BY <1>2 DEF Init, ControlInv, EmptyInv, ResetLabels
<1>4. RequestInv
  BY <1>2 DEF Init, RequestInv, AtRest1, Busy1, RestartLabels
<1>5. CurrentInv
  BY DEF Init, CurrentInv, worker_registered
<1>6. OwnerInv
  BY DEF Init, QueueInit, OwnerInv, ClaimHasOneOwner, Core1Holds, Core0Holds
<1> QED BY <1>1, <1>3, <1>4, <1>5, <1>6 DEF IInv

(* Every step keeps the invariant.                                         *)
LEMMA InvStep == IInv /\ [Next]_vars => IInv'
<1> SUFFICES ASSUME IInv, [Next]_vars PROVE IInv'
  OBVIOUS
<1>1. TypeOK'
  BY TypeStep DEF IInv
<1>2. CASE scheduler_confirm_core1_boot
  BY <1>1, <1>2 DEF scheduler_confirm_core1_boot, IInv, ControlInv, EmptyInv,
      RequestInv, CurrentInv, OwnerInv, ClaimHasOneOwner, Core1Holds,
      Core0Holds, CutOff, Emptied, AtRest1, Busy1, Stopped1,
      taskq_has_active, scheduler_core1_available, worker_registered,
      RestartLabels, PollLabels, ResetLabels, EmptyLabels, TypeOK, Watchdog,
      queueVars, clientVars, core1Own
<1>3. CASE AmigaConsume \/ UNCHANGED vars
  BY <1>1, <1>3 DEF AmigaConsume, vars, IInv, ControlInv, EmptyInv,
      RequestInv, CurrentInv, OwnerInv, ClaimHasOneOwner, Core1Holds,
      Core0Holds, CutOff, Emptied, AtRest1, Busy1, Stopped1,
      taskq_has_active, scheduler_core1_available, worker_registered,
      RestartLabels, PollLabels, ResetLabels, EmptyLabels, TypeOK, Watchdog,
      queueVars, clientVars, core1Own
<1> QED BY <1>1, <1>2, <1>3, InvCore1, InvPoll, InvColdRestart, InvQuiesce,
           InvReset, InvClient DEF Next, Core0

(* The inductive invariant holds in every behaviour of the scheduler.      *)
THEOREM Invariant == Spec => []IInv
BY InvInit, InvStep, PTL DEF Spec

(* A CLAIMED task belongs to exactly one core, whatever faults, restarts   *)
(* and resets core1_cold_restart, record_fault and the quiesce go through. *)
THEOREM OneOwner == Spec => []ClaimHasOneOwner
<1>1. IInv => ClaimHasOneOwner
  BY DEF IInv, OwnerInv
<1> QED BY <1>1, Invariant, PTL

(* Core 1 never runs a task of an earlier mailbox lifetime: the quiesce of *)
(* sdk_mailbox_init has stopped every write before the buffers are handed  *)
(* out again.                                                              *)
THEOREM LateWriteExcluded == Spec => []NoLateWrite
<1>1. IInv => NoLateWrite
  BY DEF IInv, CurrentInv, OwnerInv, NoLateWrite, Core1Holds
<1> QED BY <1>1, Invariant, PTL

(* Once scheduler_core0_poll has given core 1 up, its drain leaves no task *)
(* behind, and none is accepted for core 1 any more.                       *)
THEOREM FallbackComplete == Spec => []NothingStranded
<1>1. IInv => NothingStranded
  BY DEF IInv, EmptyInv, NothingStranded
<1> QED BY <1>1, Invariant, PTL
=============================================================================
