------------------------ MODULE SchedulerJobProofs ------------------------
(***************************************************************************)
(* Proofs about the jobs of the scheduler, for every capacity, request     *)
(* set, threshold and bound: no request is dropped, no marker is left      *)
(* without its job, no firmware update runs beside the reset's use of the  *)
(* SD card, and core 1's cache is clean when the window is taken back.     *)
(* And the scheduler implements the promise of the mailbox: a step of the  *)
(* code either leaves every fate and the ring as they are or is one step   *)
(* of the promise, and a harvest answers only what is pending because a    *)
(* live slot's request is still owed its answer (JobsInv).                 *)
(*                                                                         *)
(* They rest on a correspondence between the slots that are live and the   *)
(* jobs that are owed an answer, which a reset breaks from its first       *)
(* quiesce to sdk_mailbox_init.                                            *)
(***************************************************************************)
EXTENDS SchedulerRefinement, SchedulerProofs

(* Where core 0 has not emptied the table for the next lifetime: from      *)
(* sdk_mailbox_init to the next reset's first quiesce.                     *)
KeepLabels == {"confirm", "main", "harvest", "restart", "drain", "drainrun", "glposted",
               "fwup", "reclaim", "reclaimwait", "glphase", "glabort"}
Kept == \/ pc0 \in KeepLabels
        \/ pc0 \in RestartLabels /\ ret.restart \in {"drain", "glphase", "glabort"}

(* A slot harvest would report in this lifetime, and a job that is owed an *)
(* answer in it.                                                           *)
Live(i) == state[i] # "FREE" /\ gen[i] = generation
Owed(x) == IF x \in Reqs THEN x \notin answered /\ born[x] = generation ELSE x \in pend
Held(x) == \E i \in Slots : Live(i) /\ req[i] = x

(* Nothing is of a lifetime to come, and what is answered was accepted.    *)
PastInv == /\ \A i \in Slots : gen[i] <= generation
           /\ \A r \in Reqs : born[r] <= generation
           /\ \A r \in answered : born[r] # -1

(* Live slots and jobs owed an answer are in one-to-one correspondence.    *)
JobsInv ==
  Kept => /\ \A x \in Reqs \cup pend : Owed(x) => Held(x)
          /\ \A i \in Slots : Live(i) => req[i] \in Reqs \cup pend /\ Owed(req[i])
          /\ \A i, j \in Slots : Live(i) /\ Live(j) /\ req[i] = req[j] => i = j

(* The wait for the firmware update leaves no FWUP task to run.            *)
StorageInv ==
  pc0 = "lent" => \A i \in Slots : state[i] \in {"QUEUED", "CLAIMED"} => req[i] # "FWUP"

(* Core 1 in service answers a clean after it has cleaned.                 *)
CleanInv ==
  /\ wd.started = 1 => sh.alive = 1
  /\ pc0 = "cleanwait" /\ sh.clean_done = 1 => ~dirty1
  /\ pc0 = "takeback" /\ scheduler_core1_available => ~dirty1

Owner == <<req, gen, generation, pend, born, answered>>

(* The correspondence depends on no more of a slot than being FREE or not. *)
LEMMA JobsFrame ==
  ASSUME JobsInv, Kept' => Kept, UNCHANGED Owner,
         Kept => \A i \in Slots : state'[i] = "FREE" <=> state[i] = "FREE"
  PROVE  JobsInv'
<1> USE DEF Owner
<1> SUFFICES ASSUME Kept' PROVE JobsInv'
  BY DEF JobsInv
<1>1. \A i \in Slots : Live(i)' <=> Live(i)
  BY DEF Live
<1>2. \A x : Held(x)' <=> Held(x)
  BY <1>1 DEF Held
<1>3. \A x : Owed(x)' <=> Owed(x)
  BY DEF Owed
<1> QED BY <1>1, <1>2, <1>3 DEF JobsInv

(* A task is queued for a job that was owed nothing.                       *)
LEMMA EnqueueStep ==
  ASSUME TypeOK, JobsInv, Kept, NEW i \in Slots, NEW x \in Reqs \cup Internal,
         state[i] = "FREE", ~Owed(x),
         state' = [state EXCEPT ![i] = "QUEUED"], req' = [req EXCEPT ![i] = x],
         gen' = [gen EXCEPT ![i] = generation], UNCHANGED <<generation, answered>>,
         \/ /\ x \in Reqs \ answered /\ UNCHANGED pend
            /\ born' = [born EXCEPT ![x] = generation]
         \/ x \in Internal /\ UNCHANGED born /\ pend' = pend \cup {x}
  PROVE  JobsInv'
<1> USE DEF TypeOK, QueueTypeOK
<1>1. ~Live(i) /\ Live(i)' /\ req'[i] = x
  BY DEF Live
<1>2. \A j \in Slots \ {i} : (Live(j)' <=> Live(j)) /\ req'[j] = req[j]
  BY DEF Live
<1>3. x \in (Reqs \cup pend)' /\ Owed(x)'
  BY JobAssumption DEF Owed
<1>4. \A y \in (Reqs \cup pend)' : y # x => y \in Reqs \cup pend /\ (Owed(y)' <=> Owed(y))
  BY JobAssumption DEF Owed
<1>5. \A j \in Slots : Live(j) => req[j] # x
  BY DEF JobsInv
<1>6. Reqs \cup pend \subseteq (Reqs \cup pend)'
  OBVIOUS
<1>7. ASSUME NEW y \in (Reqs \cup pend)', Owed(y)' PROVE Held(y)'
  <2>1. CASE y = x
    BY <1>1, <2>1 DEF Held
  <2>2. CASE y # x
    <3>1. PICK j \in Slots : Live(j) /\ req[j] = y
      BY <1>4, <1>7, <2>2 DEF JobsInv, Held
    <3>2. j # i
      BY <1>1, <3>1
    <3> QED BY <1>2, <3>1, <3>2 DEF Held
  <2> QED BY <2>1, <2>2
<1>8. ASSUME NEW j \in Slots, Live(j)' PROVE req'[j] \in (Reqs \cup pend)' /\ Owed(req[j])'
  <2>1. CASE j = i
    BY <1>1, <1>3, <2>1
  <2>2. CASE j # i
    <3>1. Live(j) /\ req'[j] = req[j] /\ req[j] # x
      BY <1>2, <1>5, <1>8, <2>2
    <3>2. req[j] \in Reqs \cup pend /\ Owed(req[j])
      BY <3>1 DEF JobsInv
    <3> QED BY <1>4, <1>6, <3>1, <3>2
  <2> QED BY <2>1, <2>2
<1>9. \A j, k \in Slots : Live(j)' /\ Live(k)' /\ req'[j] = req'[k] => j = k
  BY <1>1, <1>2, <1>5 DEF JobsInv
<1> QED BY <1>7, <1>8, <1>9 DEF JobsInv

(* The harvest releases a slot: one of an earlier lifetime, or one whose   *)
(* job it answers.                                                         *)
LEMMA HarvestStep ==
  ASSUME TypeOK, JobsInv, Kept, NEW i \in Slots, state[i] # "FREE",
         state' = [state EXCEPT ![i] = "FREE"],
         UNCHANGED <<req, gen, generation, born>>,
         \/ ~Live(i) /\ UNCHANGED <<pend, answered>>
         \/ /\ Live(i) /\ req[i] \in Internal
            /\ pend' = pend \ {req[i]} /\ UNCHANGED answered
         \/ /\ Live(i) /\ req[i] \in Reqs
            /\ answered' = answered \cup {req[i]} /\ UNCHANGED pend
  PROVE  JobsInv'
<1> USE DEF TypeOK, QueueTypeOK
<1>1. ~Live(i)' /\ \A j \in Slots \ {i} : Live(j)' <=> Live(j)
  BY DEF Live
<1>2. CASE ~Live(i) /\ UNCHANGED <<pend, answered>>
  <2>1. \A j \in Slots : Live(j)' <=> Live(j)
    BY <1>1, <1>2
  <2>2. \A x : (Held(x)' <=> Held(x)) /\ (Owed(x)' <=> Owed(x))
    BY <1>2, <2>1 DEF Held, Owed
  <2> QED BY <1>2, <2>1, <2>2 DEF JobsInv
<1>3. CASE Live(i) /\ ~(UNCHANGED <<pend, answered>> /\ ~Live(i))
  <2>1. req[i] \in Reqs \cup Internal /\ ~(req[i] \in Reqs \cup pend /\ Owed(req[i]))'
    BY <1>3, JobAssumption DEF Owed
  <2>2. \A y \in Reqs \cup pend : y # req[i] =>
          y \in (Reqs \cup pend)' /\ (Owed(y)' <=> Owed(y))
    BY <1>3, JobAssumption DEF Owed
  <2>3. (Reqs \cup pend)' \subseteq Reqs \cup pend
    BY <1>3
  <2>4. ASSUME NEW y \in (Reqs \cup pend)', Owed(y)' PROVE Held(y)'
    <3>1. y # req[i]
      BY <2>1, <2>4
    <3>2. PICK j \in Slots : Live(j) /\ req[j] = y
      BY <2>2, <2>3, <2>4, <3>1 DEF JobsInv, Held
    <3>3. j # i
      BY <3>1, <3>2
    <3> QED BY <1>1, <3>2, <3>3 DEF Held
  <2>5. ASSUME NEW j \in Slots, Live(j)'
        PROVE  req[j] \in (Reqs \cup pend)' /\ Owed(req[j])'
    <3>1. j # i /\ Live(j)
      BY <1>1, <2>5
    <3>2. req[j] # req[i] /\ req[j] \in Reqs \cup pend /\ Owed(req[j])
      BY <1>3, <3>1 DEF JobsInv
    <3> QED BY <2>2, <3>2
  <2>6. \A j, k \in Slots : Live(j)' /\ Live(k)' /\ req[j] = req[k] => j = k
    BY <1>1 DEF JobsInv
  <2> QED BY <2>4, <2>5, <2>6 DEF JobsInv
<1> QED BY <1>2, <1>3

-----------------------------------------------------------------------------
(* Steps of core 1: it works on claimed slots only, so none becomes FREE   *)
(* or stops being so while the table is kept.                              *)
LEMMA JobsCore1 == ASSUME IInv, JobsInv, Core1 PROVE JobsInv'
<1>1. UNCHANGED <<Owner, pc0, ret>>
  BY DEF Core1, Core1Boot, Core1Decide, Core1MiniglReset, Core1Tick, Core1Idle,
      scheduler_core1_reclaim_if_requested, scheduler_core1_clean_if_requested,
      scheduler_core1_park_if_requested, Core1Claim, Core1Begin,
      zzm_minigl_register, Core1Complete, Core1Done, Core1TickEnd, Core1Fault,
      Core1FailTask, Core1Hang, Core1RequestRestart, taskq_claim_any,
      taskq_complete, taskq_fail, SetState, core0Own, clientVars, queueVars, Owner
<1>2. \/ UNCHANGED state
      \/ \E i \in Slots : state[i] = "QUEUED" /\ state' = [state EXCEPT ![i] = "CLAIMED"]
      \/ Core1Holds(slot1) /\ slot1 \in Slots
         /\ \E s \in {"DONE", "FAILED"} : state' = [state EXCEPT ![slot1] = s]
  BY DEF Core1, Core1Boot, Core1Decide, Core1MiniglReset, Core1Tick, Core1Idle,
      scheduler_core1_reclaim_if_requested, scheduler_core1_clean_if_requested,
      scheduler_core1_park_if_requested, Core1Claim, Core1Begin,
      zzm_minigl_register, Core1Complete, Core1Done, Core1TickEnd, Core1Fault,
      Core1FailTask, Core1Hang, Core1RequestRestart, taskq_claim_any, IsFirst,
      Queued, taskq_complete, taskq_fail, SetState, queueVars, Core1Holds,
      IInv, CurrentInv, TypeOK, SlotOrNone
<1>3. Kept => \A i \in Slots : state'[i] = "FREE" <=> state[i] = "FREE"
  BY <1>2 DEF IInv, OwnerInv, Kept, KeepLabels, CutOff, RestartLabels, TypeOK, QueueTypeOK
<1>4. Kept' <=> Kept
  BY <1>1 DEF Kept
<1> QED BY <1>1, <1>3, <1>4, JobsFrame DEF Owner

(* Steps of the poll: the harvest, and tasks run or failed in the drain.   *)
LEMMA JobsPoll == ASSUME IInv, JobsInv, Poll PROVE JobsInv'
<1> USE DEF IInv, TypeOK, QueueTypeOK
<1>1. Kept
  BY DEF Poll, StartPoll, HarvestStale, HarvestInternal, HarvestPost, HarvestEnd,
      NoRestartRequest, taskq_watchdog_on_fault, DrainFail, DrainClaim, DrainRun,
      DrainEnd, Kept, KeepLabels
<1>2. ASSUME NEW i \in Slots, HarvestStale(i) \/ HarvestInternal(i) \/ HarvestPost(i)
      PROVE  JobsInv'
  <2>1. state[i] # "FREE" /\ state' = [state EXCEPT ![i] = "FREE"]
        /\ UNCHANGED <<req, gen, generation, born>>
    BY <1>2 DEF HarvestStale, HarvestInternal, HarvestPost, taskq_harvest, IsFirst,
        Finished, taskq_release, SetState, clientVars
  <2>2. CASE HarvestStale(i)
    BY <1>1, <2>1, <2>2, HarvestStep DEF HarvestStale, sdk_mailbox_task_gen_ok, Live,
        clientVars
  <2>3. CASE HarvestInternal(i)
    BY <1>1, <2>1, <2>3, HarvestStep DEF HarvestInternal, sdk_mailbox_task_gen_ok, Live
  <2>4. CASE HarvestPost(i)
    BY <1>1, <2>1, <2>4, HarvestStep DEF HarvestPost, sdk_mailbox_task_gen_ok, Live
  <2> QED BY <1>2, <2>2, <2>3, <2>4
<1>3. CASE UNCHANGED <<state, Owner>>
  BY <1>1, <1>3, JobsFrame
<1>4. ASSUME NEW i \in Slots, DrainFail(i) \/ DrainClaim(i)
      PROVE  JobsInv'
  <2>1. state[i] = "QUEUED" /\ UNCHANGED Owner
        /\ \E s \in {"FAILED", "CLAIMED"} : state' = [state EXCEPT ![i] = s]
    BY <1>4 DEF DrainFail, DrainClaim, taskq_fail, taskq_claim_any, taskq_claim_short,
        IsFirst, Queued, SetState, clientVars, Owner
  <2> QED BY <1>1, <2>1, JobsFrame
<1>5. CASE DrainRun
  <2>1. state' = [state EXCEPT ![slot0] = "DONE"] /\ UNCHANGED Owner
        /\ (slot0 \in Slots => state[slot0] = "CLAIMED")
    BY <1>5 DEF DrainRun, taskq_complete, SetState, clientVars, Owner, OwnerInv, Core0Holds
  <2> QED BY <1>1, <2>1, JobsFrame
<1>6. CASE StartPoll \/ HarvestEnd \/ NoRestartRequest \/ taskq_watchdog_on_fault \/ DrainEnd
  BY <1>3, <1>6 DEF StartPoll, HarvestEnd, NoRestartRequest, taskq_watchdog_on_fault,
      DrainEnd, queueVars, clientVars, Owner
<1> QED BY <1>2, <1>4, <1>5, <1>6 DEF Poll

(* Restarts and the quiesce change nothing before the table is emptied.    *)
LEMMA JobsRestart == ASSUME IInv, JobsInv, ColdRestart \/ Quiesce PROVE JobsInv'
<1>1. CASE ColdRestart
  <2>1. UNCHANGED <<state, Owner>>
    BY <1>1 DEF ColdRestart, core1_park_for_reset, ParkWaitEnd, core1_cold_restart,
        queueVars, clientVars, Owner
  <2>2. Kept' => Kept
    BY <1>1 DEF ColdRestart, core1_park_for_reset, ParkWaitEnd, core1_cold_restart, Kept,
        KeepLabels, RestartLabels, IInv, TypeOK, Returns
  <2> QED BY <2>1, <2>2, JobsFrame
<1>2. CASE Quiesce
  <2>1. ~Kept'
    BY <1>2 DEF Quiesce, QuiesceSkip, QuiesceWaitEnd, QuiesceEvaluate, QuiesceInit,
        QuiesceDone, ReturnFromQuiesce, Restart, Kept, KeepLabels, RestartLabels, IInv,
        TypeOK, Returns
  <2> QED BY <2>1 DEF JobsInv
<1> QED BY <1>1, <1>2

(* The reset ends the lifetime: nothing of the next is live or owed.       *)
LEMMA JobsReset == ASSUME IInv, PastInv, JobsInv, Reset PROVE JobsInv'
<1> USE DEF IInv, TypeOK
<1>1. CASE sdk_mailbox_init
  <2>1. generation' = generation + 1 /\ pend' = {} /\ UNCHANGED <<gen, born>>
    BY <1>1 DEF sdk_mailbox_init, queueVars
  <2>2. \A i \in Slots : ~Live(i)'
    BY <2>1 DEF PastInv, Live, QueueTypeOK
  <2>3. \A r \in Reqs : ~Owed(r)'
    BY <2>1 DEF PastInv, Owed
  <2> QED BY <2>1, <2>2, <2>3 DEF JobsInv
<1>2. CASE fw_update_forget_queued
  <2>1. ~Kept'
    BY <1>2 DEF fw_update_forget_queued, Kept, KeepLabels, RestartLabels
  <2> QED BY <2>1 DEF JobsInv
<1>3. CASE ~sdk_mailbox_init /\ ~fw_update_forget_queued
  <2>1. UNCHANGED <<state, Owner>>
    BY <1>3 DEF Reset, SampleAck, FwupIdle, FwupPoll, FwupTimeout, TakeBackLent,
        scheduler_core1_clean_dcache, CleanWaitEnd, card_pool_take_back_lent,
        scheduler_core1_reclaim, ReclaimWaitEnd, MiniglPhase, minigl_reset_poll,
        minigl_reset_abort_and_free, queueVars, clientVars, Owner
  <2>2. Kept' => Kept
    BY <1>3 DEF Reset, SampleAck, FwupIdle, FwupPoll, FwupTimeout, TakeBackLent,
        scheduler_core1_clean_dcache, CleanWaitEnd, card_pool_take_back_lent,
        scheduler_core1_reclaim, ReclaimWaitEnd, MiniglPhase, minigl_reset_poll,
        minigl_reset_abort_and_free, scheduler_cancel_minigl_reset, Restart, Kept,
        KeepLabels, RestartLabels, Returns
  <2> QED BY <2>1, <2>2, JobsFrame
<1> QED BY <1>1, <1>2, <1>3

(* Requests are accepted and jobs queued for what is owed nothing yet.     *)
LEMMA JobsClient == ASSUME IInv, PastInv, JobsInv, Client \/ AmigaConsume PROVE JobsInv'
<1> USE DEF IInv, TypeOK, QueueTypeOK
<1>1. ASSUME NEW r \in Reqs, DispatchInline(r)
      PROVE  JobsInv'
  <2>1. UNCHANGED <<state, req, gen, generation, pend, pc0, ret>>
        /\ born' = [born EXCEPT ![r] = generation] /\ answered' = answered \cup {r}
        /\ born[r] = -1
    BY <1>1 DEF DispatchInline, CanAccept, queueVars
  <2>2. ~Owed(r) /\ ~Owed(r)'
    BY <2>1 DEF Owed
  <2>3. \A y \in Reqs \cup pend : Owed(y)' <=> Owed(y)
    BY <2>1, <2>2, JobAssumption DEF Owed
  <2>4. \A x : Held(x)' <=> Held(x)
    BY <2>1 DEF Held, Live
  <2> QED BY <2>1, <2>3, <2>4 DEF JobsInv, Kept, Live
<1>2. ASSUME NEW r \in Reqs, NEW c \in Classes, DispatchDeferred(r, c)
      PROVE  JobsInv'
  <2>1. Kept /\ born[r] = -1 /\ born' = [born EXCEPT ![r] = generation]
        /\ UNCHANGED <<generation, pend, answered>>
    BY <1>2 DEF DispatchDeferred, CanAccept, Kept, KeepLabels
  <2>2. PICK i \in Free : Publish(i, r, c, generation)
    BY <1>2 DEF DispatchDeferred, taskq_enqueue
  <2>3. r \notin answered /\ ~Owed(r)
    BY <2>1 DEF PastInv, Owed
  <2> QED BY <2>1, <2>2, <2>3, EnqueueStep DEF Publish, Free
<1>3. ASSUME NEW op \in Internal, sdk_mailbox_enqueue_internal(op)
      PROVE  JobsInv'
  <2>1. Kept /\ op \notin pend /\ pend' = pend \cup {op}
        /\ UNCHANGED <<generation, born, answered>>
    BY <1>3 DEF sdk_mailbox_enqueue_internal, Kept, KeepLabels
  <2>2. PICK i \in Free : Publish(i, op, "LONG", generation)
    BY <1>3 DEF sdk_mailbox_enqueue_internal, taskq_enqueue
  <2>3. ~Owed(op)
    BY <2>1, JobAssumption DEF Owed
  <2> QED BY <2>1, <2>2, <2>3, EnqueueStep DEF Publish, Free
<1>4. CASE AmigaBoots \/ AmigaPackets \/ minigl_begin_amiga_reset \/ AmigaConsume
  <2>1. UNCHANGED <<state, Owner>> /\ (Kept' => Kept)
    BY <1>4 DEF AmigaBoots, AmigaPackets, minigl_begin_amiga_reset, AmigaConsume,
        queueVars, clientVars, Owner, Kept, KeepLabels
  <2> QED BY <2>1, JobsFrame
<1> QED BY <1>1, <1>2, <1>3, <1>4 DEF Client

(* Lifetimes only grow, and every stamp is of the present one.             *)
LEMMA PastStep == ASSUME IInv, PastInv, JobsInv, [Next]_vars PROVE PastInv'
<1> USE DEF IInv, TypeOK, QueueTypeOK
<1>1. CASE UNCHANGED <<gen, generation, born, answered>>
  BY <1>1 DEF PastInv
<1>2. ASSUME NEW r \in Reqs, DispatchInline(r)
      PROVE  PastInv'
  BY <1>2 DEF DispatchInline, PastInv, queueVars
<1>3. ASSUME NEW r \in Reqs, NEW c \in Classes, DispatchDeferred(r, c)
      PROVE  PastInv'
  BY <1>3 DEF DispatchDeferred, taskq_enqueue, Publish, Free, PastInv
<1>4. ASSUME NEW op \in Internal, sdk_mailbox_enqueue_internal(op)
      PROVE  PastInv'
  BY <1>4 DEF sdk_mailbox_enqueue_internal, taskq_enqueue, Publish, Free, PastInv
<1>5. CASE sdk_mailbox_init
  <2>1. generation' = generation + 1 /\ UNCHANGED <<gen, born, answered>>
    BY <1>5 DEF sdk_mailbox_init, queueVars
  <2>2. ASSUME NEW n \in Int, n <= generation PROVE n <= generation + 1
    BY <2>2
  <2>3. \A i \in Slots : gen[i] \in Int
    OBVIOUS
  <2>4. \A r \in Reqs : born[r] \in Int
    OBVIOUS
  <2> QED BY <2>1, <2>2, <2>3, <2>4, Zenon DEF PastInv
<1>6. ASSUME NEW i \in Slots, HarvestPost(i)
      PROVE  PastInv'
  <2>1. Kept /\ Live(i) /\ req[i] \in Reqs
    BY <1>6 DEF HarvestPost, taskq_harvest, IsFirst, Finished, sdk_mailbox_task_gen_ok,
        Kept, KeepLabels, Live
  <2>2. born[req[i]] = generation
    BY <2>1 DEF JobsInv, Owed
  <2>3. answered' = answered \cup {req[i]} /\ UNCHANGED <<gen, generation, born>>
    BY <1>6 DEF HarvestPost, taskq_release, SetState
  <2> QED BY <2>2, <2>3 DEF PastInv
<1>7. CASE Core1
  BY <1>1, <1>7 DEF Core1, Core1Boot, Core1Decide, Core1MiniglReset, Core1Tick, Core1Idle,
      scheduler_core1_reclaim_if_requested, scheduler_core1_clean_if_requested,
      scheduler_core1_park_if_requested, Core1Claim, Core1Begin,
      zzm_minigl_register, Core1Complete, Core1Done, Core1TickEnd, Core1Fault,
      Core1FailTask, Core1Hang, Core1RequestRestart, taskq_claim_any,
      taskq_complete, taskq_fail, SetState, core0Own, clientVars, queueVars
<1>8. CASE ColdRestart \/ Quiesce
  BY <1>1, <1>8 DEF ColdRestart, core1_park_for_reset, ParkWaitEnd, core1_cold_restart,
      Quiesce, QuiesceSkip, QuiesceWaitEnd, QuiesceEvaluate, QuiesceInit, QuiesceDone,
      taskq_init, queueVars, clientVars
<1>9. CASE Poll /\ ~\E i \in Slots : HarvestPost(i)
  BY <1>1, <1>9 DEF Poll, StartPoll, HarvestStale, HarvestInternal, HarvestEnd,
      NoRestartRequest, taskq_watchdog_on_fault, DrainFail, DrainClaim, DrainRun,
      DrainEnd, taskq_release, taskq_fail, taskq_complete, taskq_claim_any,
      taskq_claim_short, SetState, queueVars, clientVars
<1>10. CASE Reset /\ ~sdk_mailbox_init
  BY <1>1, <1>10 DEF Reset, SampleAck, FwupIdle, FwupPoll, FwupTimeout, TakeBackLent,
      fw_update_forget_queued, scheduler_core1_clean_dcache, CleanWaitEnd,
      card_pool_take_back_lent, scheduler_core1_reclaim, ReclaimWaitEnd, MiniglPhase,
      minigl_reset_poll, minigl_reset_abort_and_free, queueVars, clientVars
<1>11. CASE \/ AmigaBoots \/ AmigaPackets \/ minigl_begin_amiga_reset \/ AmigaConsume
            \/ scheduler_confirm_core1_boot \/ UNCHANGED vars
  BY <1>1, <1>11 DEF AmigaBoots, AmigaPackets, minigl_begin_amiga_reset, AmigaConsume,
      scheduler_confirm_core1_boot, vars, queueVars, clientVars
<1> QED BY <1>2, <1>3, <1>4, <1>5, <1>6, <1>7, <1>8, <1>9, <1>10, <1>11
        DEF Next, Core0, Client

(* Every step keeps the correspondence.                                    *)
LEMMA JobsStep == ASSUME IInv, PastInv, JobsInv, [Next]_vars PROVE JobsInv'
<1>1. CASE scheduler_confirm_core1_boot \/ UNCHANGED vars
  <2>1. UNCHANGED <<state, Owner>> /\ (Kept' => Kept)
    BY <1>1 DEF scheduler_confirm_core1_boot, vars, queueVars, clientVars, Owner, Kept,
        KeepLabels
  <2> QED BY <2>1, JobsFrame
<1> QED BY <1>1, JobsCore1, JobsPoll, JobsRestart, JobsReset, JobsClient DEF Next, Core0

(* The storage: the reset goes on with no FWUP task marked, or with none   *)
(* at all, and nobody queues one.                                          *)
LEMMA StorageStep ==
  ASSUME "FWUP" \notin Reqs, IInv, JobsInv, StorageInv, [Next]_vars
  PROVE  StorageInv'
<1> USE DEF IInv, TypeOK, QueueTypeOK
<1> SUFFICES ASSUME pc0' = "lent" PROVE StorageInv'
  BY DEF StorageInv
<1>1. CASE FwupIdle
  <2>1. \A i \in Slots : state[i] \in {"QUEUED", "CLAIMED"} => Live(i)
    BY DEF OwnerInv, Live
  <2>2. \A i \in Slots : Live(i) => req[i] # "FWUP"
    BY <1>1 DEF FwupIdle, fw_update_busy, JobsInv, Kept, KeepLabels, Owed
  <2> QED BY <1>1, <2>1, <2>2 DEF FwupIdle, StorageInv, queueVars
<1>2. CASE fw_update_forget_queued
  <2>1. ~taskq_has_active
    BY <1>2 DEF fw_update_forget_queued, EmptyInv, Emptied, EmptyLabels
  <2> QED BY <1>2, <2>1 DEF fw_update_forget_queued, taskq_has_active, StorageInv, queueVars
<1>3. CASE Core1 /\ pc0 = "lent"
  <2>1. UNCHANGED req
    BY <1>3 DEF Core1, Core1Boot, Core1Decide, Core1MiniglReset, Core1Tick, Core1Idle,
      scheduler_core1_reclaim_if_requested, scheduler_core1_clean_if_requested,
      scheduler_core1_park_if_requested, Core1Claim, Core1Begin,
      zzm_minigl_register, Core1Complete, Core1Done, Core1TickEnd, Core1Fault,
      Core1FailTask, Core1Hang, Core1RequestRestart, taskq_claim_any,
      taskq_complete, taskq_fail, SetState, queueVars
  <2>2. \A i \in Slots : state'[i] \in {"QUEUED", "CLAIMED"} =>
          state[i] \in {"QUEUED", "CLAIMED"}
    BY <1>3 DEF Core1, Core1Boot, Core1Decide, Core1MiniglReset, Core1Tick, Core1Idle,
      scheduler_core1_reclaim_if_requested, scheduler_core1_clean_if_requested,
      scheduler_core1_park_if_requested, Core1Claim, Core1Begin,
      zzm_minigl_register, Core1Complete, Core1Done, Core1TickEnd, Core1Fault,
      Core1FailTask, Core1Hang, Core1RequestRestart, taskq_claim_any, IsFirst, Queued,
      taskq_complete, taskq_fail, SetState, queueVars
  <2> QED BY <1>3, <2>1, <2>2 DEF StorageInv
<1>4. CASE UNCHANGED <<state, req, pc0>>
  BY <1>4 DEF StorageInv
<1>5. CASE AmigaBoots \/ AmigaPackets \/ AmigaConsume \/ UNCHANGED vars
  BY <1>4, <1>5 DEF AmigaBoots, AmigaPackets, AmigaConsume, vars, queueVars, clientVars
<1>6. Core1 => pc0' = pc0
  BY DEF Core1, Core1Boot, Core1Decide, Core1MiniglReset, Core1Tick, Core1Idle,
      scheduler_core1_reclaim_if_requested, scheduler_core1_clean_if_requested,
      scheduler_core1_park_if_requested, Core1Claim, Core1Begin,
      zzm_minigl_register, Core1Complete, Core1Done, Core1TickEnd, Core1Fault,
      Core1FailTask, Core1Hang, Core1RequestRestart, core0Own
<1>7. ~Poll /\ ~ColdRestart /\ ~Quiesce /\ ~scheduler_confirm_core1_boot
  BY DEF Poll, StartPoll, HarvestStale, HarvestInternal, HarvestPost, HarvestEnd,
      NoRestartRequest, taskq_watchdog_on_fault, DrainFail, DrainClaim, DrainRun,
      DrainEnd, ReturnFromPoll, ColdRestart, core1_park_for_reset, ParkWaitEnd,
      core1_cold_restart, Quiesce, QuiesceSkip, QuiesceWaitEnd, QuiesceEvaluate,
      QuiesceInit, QuiesceDone, ReturnFromQuiesce, Restart, Returns,
      scheduler_confirm_core1_boot
<1>8. Reset => FwupIdle \/ fw_update_forget_queued
  BY DEF Reset, SampleAck, FwupPoll, FwupTimeout, TakeBackLent,
      scheduler_core1_clean_dcache, CleanWaitEnd, card_pool_take_back_lent,
      sdk_mailbox_init, scheduler_core1_reclaim, ReclaimWaitEnd, MiniglPhase,
      minigl_reset_poll, minigl_reset_abort_and_free, scheduler_cancel_minigl_reset, Restart
<1>9. Client => AmigaBoots \/ AmigaPackets
  BY DEF Client, DispatchInline, DispatchDeferred, sdk_mailbox_enqueue_internal, CanAccept,
      minigl_begin_amiga_reset
<1> QED BY <1>1, <1>2, <1>3, <1>5, <1>6, <1>7, <1>8, <1>9 DEF Next, Core0

(* The clean: done is set by core 1 as it writes its cache back, and with  *)
(* the table empty it starts no task that would dirty it again.            *)
LEMMA CleanStep == ASSUME IInv, CleanInv, [Next]_vars PROVE CleanInv'
<1> USE DEF IInv, TypeOK, CleanInv, scheduler_core1_available, Shared, Watchdog, Flag
<1>1. CASE Core1
  <2>1. CASE Core1Begin
    <3>1. pc0 \notin {"cleanwait", "takeback"}
      <4>1. slot1 \in Slots /\ Core1Holds(slot1)
        BY <2>1 DEF Core1Begin, CurrentInv, Core1Holds
      <4>2. taskq_has_active \/ CutOff
        BY <4>1 DEF OwnerInv, taskq_has_active
      <4> QED BY <4>2 DEF EmptyInv, Emptied, EmptyLabels, CutOff, RestartLabels
    <3> QED BY <2>1, <3>1 DEF Core1Begin, core0Own
  <2>2. CASE ~Core1Begin
    <3>1. UNCHANGED <<wd, pc0>>
      BY <1>1, <2>2 DEF Core1, Core1Boot, Core1Decide, Core1MiniglReset, Core1Tick, Core1Idle,
        scheduler_core1_reclaim_if_requested, scheduler_core1_clean_if_requested,
        scheduler_core1_park_if_requested, Core1Claim, zzm_minigl_register, Core1Complete,
        Core1Done, Core1TickEnd, Core1Fault, Core1FailTask, Core1Hang, Core1RequestRestart,
        zzm_minigl_on_core1_fault, core0Own
    <3>2. dirty1' = dirty1 \/ dirty1' = FALSE
      BY <1>1, <2>2, Zenon DEF Core1, Core1Boot, Core1Decide, Core1MiniglReset, Core1Tick, Core1Idle,
        scheduler_core1_reclaim_if_requested, scheduler_core1_clean_if_requested,
        scheduler_core1_park_if_requested, Core1Claim, zzm_minigl_register, Core1Complete,
        Core1Done, Core1TickEnd, Core1Fault, Core1FailTask, Core1Hang, Core1RequestRestart,
        zzm_minigl_on_core1_fault, core1Own
    <3>3. sh'.alive = sh.alive \/ sh'.alive = 1
      BY <1>1, <2>2 DEF Core1, Core1Boot, Core1Decide, Core1MiniglReset, Core1Tick, Core1Idle,
        scheduler_core1_reclaim_if_requested, scheduler_core1_clean_if_requested,
        scheduler_core1_park_if_requested, Core1Claim, zzm_minigl_register, Core1Complete,
        Core1Done, Core1TickEnd, Core1Fault, Core1FailTask, Core1Hang, Core1RequestRestart,
        zzm_minigl_on_core1_fault
    <3>4. sh'.clean_done = sh.clean_done \/ dirty1' = FALSE
      BY <1>1, <2>2 DEF Core1, Core1Boot, Core1Decide, Core1MiniglReset, Core1Tick, Core1Idle,
        scheduler_core1_reclaim_if_requested, scheduler_core1_clean_if_requested,
        scheduler_core1_park_if_requested, Core1Claim, zzm_minigl_register, Core1Complete,
        Core1Done, Core1TickEnd, Core1Fault, Core1FailTask, Core1Hang, Core1RequestRestart,
        zzm_minigl_on_core1_fault
    <3> QED BY <3>1, <3>2, <3>3, <3>4
  <2> QED BY <2>1, <2>2
<1>2. CASE Poll
  BY <1>2 DEF Poll, StartPoll, HarvestStale, HarvestInternal, HarvestPost, HarvestEnd,
      NoRestartRequest, taskq_watchdog_on_fault, taskq_watchdog_on_success, DrainFail,
      DrainClaim, DrainRun, DrainEnd, ReturnFromPoll, Returns, core1Own
<1>3. CASE ColdRestart
  BY <1>3 DEF ColdRestart, core1_park_for_reset, ParkWaitEnd, core1_cold_restart, Returns,
      core1Own
<1>4. CASE Quiesce
  BY <1>4 DEF Quiesce, QuiesceSkip, QuiesceWaitEnd, QuiesceEvaluate, QuiesceInit,
      QuiesceDone, ReturnFromQuiesce, Restart, Returns, core1Own
<1>5. CASE Reset
  <2>1. wd' = wd /\ dirty1' = dirty1 /\ sh'.alive = sh.alive
    BY <1>5 DEF Reset, SampleAck, FwupIdle, FwupPoll, FwupTimeout, TakeBackLent,
      fw_update_forget_queued, scheduler_core1_clean_dcache, CleanWaitEnd,
      card_pool_take_back_lent, sdk_mailbox_init, scheduler_core1_reclaim, ReclaimWaitEnd,
      MiniglPhase, minigl_reset_poll, minigl_reset_abort_and_free,
      scheduler_cancel_minigl_reset, core1Own
  <2>2. CASE scheduler_core1_clean_dcache
    <3>1. pc0' = "cleanwait" => sh'.clean_done = 0
      BY <2>2 DEF scheduler_core1_clean_dcache, Restart
    <3>2. pc0' = "takeback" => ~scheduler_core1_available
      BY <2>2 DEF scheduler_core1_clean_dcache, Restart
    <3> QED BY <2>1, <3>1, <3>2
  <2>3. CASE CleanWaitEnd
    BY <2>1, <2>3 DEF CleanWaitEnd, Restart
  <2>4. CASE ~scheduler_core1_clean_dcache /\ ~CleanWaitEnd
    <3>1. pc0' \notin {"cleanwait", "takeback"}
      BY <1>5, <2>4 DEF Reset, SampleAck, FwupIdle, FwupPoll, FwupTimeout, TakeBackLent,
        fw_update_forget_queued, card_pool_take_back_lent, sdk_mailbox_init,
        scheduler_core1_reclaim, ReclaimWaitEnd, MiniglPhase, minigl_reset_poll,
        minigl_reset_abort_and_free, scheduler_cancel_minigl_reset, Restart
    <3> QED BY <2>1, <3>1
  <2> QED BY <2>2, <2>3, <2>4
<1>6. CASE Client
  <2>1. wd' = wd /\ dirty1' = dirty1 /\ sh'.alive = sh.alive
    BY <1>6 DEF Client, DispatchInline, DispatchDeferred, sdk_mailbox_enqueue_internal,
      AmigaBoots, AmigaPackets, minigl_begin_amiga_reset, core1Own
  <2>2. pc0' \notin {"cleanwait", "takeback"} \/ UNCHANGED <<pc0, sh>>
    BY <1>6 DEF Client, DispatchInline, DispatchDeferred, sdk_mailbox_enqueue_internal,
      AmigaBoots, AmigaPackets, minigl_begin_amiga_reset, CanAccept
  <2> QED BY <2>1, <2>2
<1>7. CASE scheduler_confirm_core1_boot \/ AmigaConsume \/ UNCHANGED vars
  BY <1>7 DEF scheduler_confirm_core1_boot, AmigaConsume, vars, core1Own
<1> QED BY <1>1, <1>2, <1>3, <1>4, <1>5, <1>6, <1>7 DEF Next, Core0

-----------------------------------------------------------------------------
(* At boot the table is empty and nothing is owed.                         *)
LEMMA JobsInit == Init => PastInv /\ JobsInv /\ StorageInv /\ CleanInv
<1> SUFFICES ASSUME Init PROVE PastInv /\ JobsInv /\ StorageInv /\ CleanInv
  OBVIOUS
<1>1. PastInv /\ StorageInv /\ CleanInv
  BY DEF Init, QueueInit, PastInv, StorageInv, CleanInv
<1>2. JobsInv
  BY DEF Init, QueueInit, JobsInv, Live, Owed
<1> QED BY <1>1, <1>2

(* The correspondence holds in every behaviour.                            *)
LEMMA JobsInvariant == Spec => [](IInv /\ PastInv /\ JobsInv)
<1>1. IInv /\ PastInv /\ JobsInv /\ [Next]_vars => (IInv /\ PastInv /\ JobsInv)'
  BY InvStep, PastStep, JobsStep
<1> QED BY <1>1, InvInit, JobsInit, PTL DEF Spec

(* sdk_mailbox_post_deferred answers every request the lifetime accepted:  *)
(* until then it sits in a slot, whatever core1_cold_restart, record_fault *)
(* and the drain do to the task.                                           *)
THEOREM NoRequestDropped == Spec => []PendingIsQueued
<1>1. IInv /\ JobsInv => PendingIsQueued
  BY DEF IInv, TypeOK, JobsInv, Kept, KeepLabels, Owed, Held, Live, PendingIsQueued
<1> QED BY <1>1, JobsInvariant, PTL

(* fwup_job_queued and zzm_load_pending_id are up only with a job in a     *)
(* slot, so fwup_wait_idle and the loader wait for something that comes.   *)
THEOREM MarkersRetire == Spec => []MarkerHasJob
<1>1. IInv /\ JobsInv => MarkerHasJob
  BY JobAssumption DEF IInv, TypeOK, JobsInv, Kept, KeepLabels, Owed, Held, Live, MarkerHasJob
<1> QED BY <1>1, JobsInvariant, PTL

(* After fwup_wait_idle, in time or not, no FWUP job runs on core 1 until  *)
(* the reset is over: core 0 alone uses FatFs.                             *)
THEOREM StorageExclusive ==
  ASSUME "FWUP" \notin Reqs PROVE Spec => []StorageHasOneOwner
<1>1. IInv /\ JobsInv /\ StorageInv /\ [Next]_vars => StorageInv'
  BY StorageStep
<1>2. IInv /\ StorageInv => StorageHasOneOwner
  <2> SUFFICES ASSUME IInv, StorageInv, pc1 = "run", req[slot1] = "FWUP",
                      pc0 \in {"lent", "clean", "cleanwait", "takeback", "teardown",
                               "reclaim", "reclaimwait", "glphase"}
               PROVE  FALSE
    BY DEF StorageHasOneOwner
  <2>1. slot1 \in Slots /\ state[slot1] = "CLAIMED"
    BY DEF IInv, CurrentInv, OwnerInv, Core1Holds, CutOff, RestartLabels
  <2>2. pc0 = "lent"
    BY <2>1 DEF IInv, EmptyInv, Emptied, EmptyLabels, taskq_has_active
  <2> QED BY <2>1, <2>2 DEF StorageInv
<1> QED BY <1>1, <1>2, JobsInvariant, JobsInit, PTL DEF Spec

(* scheduler_core1_clean_dcache returns with core 1's L1 clean or core 1   *)
(* restarted, and card_pool_take_back_lent finds it so.                    *)
THEOREM TakenBackClean == Spec => []TakeBackClean
<1>1. IInv /\ CleanInv /\ [Next]_vars => CleanInv'
  BY CleanStep
<1>2. CleanInv => TakeBackClean
  BY DEF CleanInv, TakeBackClean
<1> QED BY <1>1, <1>2, Invariant, JobsInit, PTL DEF Spec

-----------------------------------------------------------------------------
(* The promise of the mailbox *)

(* The ring never holds more than it has entries for.                      *)
RingInv == Len(ring) <= RingCap

fates == [r \in Reqs |-> FateOf(r)]

(* A step that leaves these alone leaves the promise alone.                *)
Visible == <<ring, generation, born, answered>>

LEMMA FateFrame == ASSUME UNCHANGED Visible PROVE fates' = fates /\ ring' = ring
BY DEF Visible, fates, FateOf

(* Only dispatch, the harvest, the client and sdk_mailbox_init are visible *)
(* to a client.                                                            *)
LEMMA Invisible ==
  ASSUME [Next]_vars,
         \A r \in Reqs : ~DispatchInline(r) /\ \A c \in Classes : ~DispatchDeferred(r, c),
         \A i \in Slots : ~HarvestPost(i),
         ~AmigaConsume, ~sdk_mailbox_init
  PROVE  UNCHANGED Visible
<1> USE DEF Visible, clientVars
<1>1. CASE Core1
  BY <1>1 DEF Core1, Core1Boot, Core1Decide, Core1MiniglReset, Core1Tick, Core1Idle,
      scheduler_core1_reclaim_if_requested, scheduler_core1_clean_if_requested,
      scheduler_core1_park_if_requested, Core1Claim, Core1Begin,
      zzm_minigl_register, Core1Complete, Core1Done, Core1TickEnd, Core1Fault,
      Core1FailTask, Core1Hang, Core1RequestRestart, core0Own
<1>2. CASE Poll
  BY <1>2 DEF Poll, StartPoll, HarvestStale, HarvestInternal, HarvestEnd,
      NoRestartRequest, taskq_watchdog_on_fault, DrainFail, DrainClaim, DrainRun,
      DrainEnd
<1>3. CASE ColdRestart \/ Quiesce
  BY <1>3 DEF ColdRestart, core1_park_for_reset, ParkWaitEnd, core1_cold_restart,
      Quiesce, QuiesceSkip, QuiesceWaitEnd, QuiesceEvaluate, QuiesceInit, QuiesceDone
<1>4. CASE Reset
  BY <1>4 DEF Reset, SampleAck, FwupIdle, FwupPoll, FwupTimeout, TakeBackLent,
      fw_update_forget_queued, scheduler_core1_clean_dcache, CleanWaitEnd,
      card_pool_take_back_lent, scheduler_core1_reclaim, ReclaimWaitEnd, MiniglPhase,
      minigl_reset_poll, minigl_reset_abort_and_free
<1>5. CASE Client
  BY <1>5 DEF Client, sdk_mailbox_enqueue_internal, AmigaBoots, AmigaPackets,
      minigl_begin_amiga_reset
<1>6. CASE scheduler_confirm_core1_boot \/ UNCHANGED vars
  BY <1>6 DEF scheduler_confirm_core1_boot, vars
<1> QED BY <1>1, <1>2, <1>3, <1>4, <1>5, <1>6 DEF Next, Core0

(* At boot nothing is accepted and the ring is empty.                      *)
LEMMA PromiseInit == ASSUME Init PROVE RingInv /\ Promise!AbsInit
<1>1. RingInv
  BY BoundAssumption DEF Init, RingInv
<1>2. \A r \in Reqs : FateOf(r) = "new"
  BY DEF Init, FateOf
<1> QED BY <1>1, <1>2 DEF Init, Promise!AbsInit

(* A request answered in the step that accepts it.                         *)
LEMMA InlineAnswers ==
  ASSUME IInv, PastInv, NEW r \in Reqs, DispatchInline(r)
  PROVE  RingInv' /\ Promise!Answer(r)
<1> USE DEF IInv, TypeOK
<1>1. /\ born[r] = -1 /\ Len(ring) < RingCap
      /\ born' = [born EXCEPT ![r] = generation] /\ answered' = answered \cup {r}
      /\ ring' = Append(ring, r) /\ generation' = generation
  BY DEF DispatchInline, CanAccept
<1>2. FateOf(r) = "new" /\ FateOf(r)' = "answered"
  BY <1>1 DEF FateOf, PastInv
<1>3. \A x \in Reqs \ {r} : FateOf(x)' = FateOf(x)
  BY <1>1 DEF FateOf
<1>4. fates' = [fates EXCEPT ![r] = "answered"]
  BY <1>2, <1>3 DEF fates
<1>5. RingInv'
  BY <1>1, BoundAssumption DEF RingInv
<1> QED BY <1>1, <1>2, <1>4, <1>5 DEF Promise!Answer, fates

(* A request deferred to the queue.                                        *)
LEMMA DeferredAccepts ==
  ASSUME IInv, PastInv, RingInv, NEW r \in Reqs, NEW c \in Classes, DispatchDeferred(r, c)
  PROVE  RingInv' /\ Promise!Accept(r)
<1> USE DEF IInv, TypeOK
<1>1. /\ born[r] = -1 /\ born' = [born EXCEPT ![r] = generation]
      /\ UNCHANGED <<ring, generation, answered>>
  BY DEF DispatchDeferred, CanAccept
<1>2. FateOf(r) = "new" /\ FateOf(r)' = "pending"
  BY <1>1 DEF FateOf, PastInv
<1>3. \A x \in Reqs \ {r} : FateOf(x)' = FateOf(x)
  BY <1>1 DEF FateOf
<1>4. fates' = [fates EXCEPT ![r] = "pending"]
  BY <1>2, <1>3 DEF fates
<1> QED BY <1>1, <1>2, <1>4 DEF Promise!Accept, fates, RingInv

(* A completion posted by sdk_mailbox_post_deferred: the slot is live, so  *)
(* its request is pending, and the ring has room.                          *)
LEMMA HarvestAnswers ==
  ASSUME IInv, PastInv, JobsInv, RingInv, NEW i \in Slots, HarvestPost(i)
  PROVE  RingInv' /\ Promise!Answer(req[i])
<1> USE DEF IInv, TypeOK
<1>1. /\ req[i] \in Reqs /\ Len(ring) # RingCap
      /\ answered' = answered \cup {req[i]} /\ ring' = Append(ring, req[i])
      /\ UNCHANGED <<req, generation, born>>
  BY DEF HarvestPost, RingFull, taskq_release, SetState
<1>2. Kept /\ Live(i)
  BY DEF HarvestPost, taskq_harvest, IsFirst, Finished, sdk_mailbox_task_gen_ok, Kept,
      KeepLabels, Live
<1>3. req[i] \notin answered /\ born[req[i]] = generation
  BY <1>1, <1>2 DEF JobsInv, Owed
<1>4. FateOf(req[i]) = "pending" /\ FateOf(req[i])' = "answered"
  BY <1>1, <1>3 DEF FateOf
<1>5. \A x \in Reqs \ {req[i]} : FateOf(x)' = FateOf(x)
  BY <1>1 DEF FateOf
<1>6. fates' = [fates EXCEPT ![req[i]] = "answered"]
  BY <1>1, <1>4, <1>5 DEF fates
<1>7. Len(ring) < RingCap /\ RingInv'
  BY <1>1, BoundAssumption DEF RingInv
<1> QED BY <1>1, <1>4, <1>6, <1>7 DEF Promise!Answer, fates

(* sdk_mailbox_init ends the lifetime: what was pending is of an earlier   *)
(* one now, and no request is of the new one.                              *)
LEMMA InitDrops ==
  ASSUME IInv, PastInv, sdk_mailbox_init
  PROVE  RingInv' /\ Promise!EndOfLifetime
<1> USE DEF IInv, TypeOK
<1>1. /\ ring' = <<>> /\ generation' = generation + 1
      /\ UNCHANGED <<born, answered>>
  BY DEF sdk_mailbox_init
<1>2. ASSUME NEW r \in Reqs
      PROVE  FateOf(r)' = IF FateOf(r) = "pending" THEN "dropped" ELSE FateOf(r)
  <2>1. born[r] \in Int /\ born[r] <= generation /\ generation \in Nat
    BY DEF PastInv
  <2> QED BY <1>1, <2>1 DEF FateOf
<1>3. RingInv'
  BY <1>1, BoundAssumption DEF RingInv
<1> QED BY <1>1, <1>2, <1>3 DEF Promise!EndOfLifetime

(* The client takes the oldest completion.                                 *)
LEMMA ConsumeTakes ==
  ASSUME IInv, RingInv, AmigaConsume
  PROVE  RingInv' /\ Promise!Consume
<1>1. ring # <<>> /\ ring' = Tail(ring) /\ UNCHANGED <<generation, born, answered>>
  BY DEF AmigaConsume
<1>2. fates' = fates
  BY <1>1 DEF fates, FateOf
<1>3. Len(ring') = Len(ring) - 1 /\ Len(ring) \in Nat
  BY <1>1 DEF IInv, TypeOK
<1>4. RingInv'
  BY <1>3, BoundAssumption DEF RingInv
<1> QED BY <1>1, <1>2, <1>4 DEF Promise!Consume, fates

(* Every step of the scheduler is a step of the promise or a stutter.      *)
LEMMA PromiseStep ==
  ASSUME IInv, PastInv, JobsInv, RingInv, [Next]_vars
  PROVE  RingInv' /\ [Promise!AbsNext]_<<fates, ring>>
<1>1. ASSUME NEW r \in Reqs, DispatchInline(r)
      PROVE  RingInv' /\ Promise!AbsNext
  BY <1>1, InlineAnswers DEF Promise!AbsNext
<1>2. ASSUME NEW r \in Reqs, NEW c \in Classes, DispatchDeferred(r, c)
      PROVE  RingInv' /\ Promise!AbsNext
  BY <1>2, DeferredAccepts DEF Promise!AbsNext
<1>3. ASSUME NEW i \in Slots, HarvestPost(i)
      PROVE  RingInv' /\ Promise!AbsNext
  <2>1. req[i] \in Reqs
    BY <1>3 DEF HarvestPost
  <2> QED BY <1>3, <2>1, HarvestAnswers DEF Promise!AbsNext
<1>4. CASE AmigaConsume
  BY <1>4, ConsumeTakes DEF Promise!AbsNext
<1>5. CASE sdk_mailbox_init
  BY <1>5, InitDrops DEF Promise!AbsNext
<1>6. CASE UNCHANGED Visible
  BY <1>6, FateFrame DEF RingInv
<1> QED BY <1>1, <1>2, <1>3, <1>4, <1>5, <1>6, Invisible

(* Through claims, faults, restarts, drains and resets the scheduler keeps *)
(* the mailbox's promise: sdk_mailbox_post_deferred posts at most one      *)
(* completion for a request, in its own lifetime and into a ring with room.*)
THEOREM KeepsPromise == Spec => MailboxPromise
<1>1. IInv /\ PastInv /\ JobsInv /\ RingInv /\ [Next]_vars
        => RingInv' /\ [Promise!AbsNext]_<<fates, ring>>
  BY PromiseStep
<1>2. Init => RingInv /\ Promise!AbsInit
  BY PromiseInit
<1> QED BY <1>1, <1>2, JobsInvariant, PTL DEF Spec, MailboxPromise, Promise!AbsSpec, fates
=============================================================================
