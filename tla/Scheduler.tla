----------------------------- MODULE Scheduler -----------------------------
(***************************************************************************)
(* The dual-core task scheduler of the ZZ9000OS firmware: core 0's main    *)
(* loop (dispatch, poll, Amiga reset), core 1's worker and fault handler,  *)
(* and the words of the shared block they signal each other with.          *)
(*                                                                         *)
(* Every step touches the other core's memory at most once, except where a *)
(* comment says why several accesses cannot be told apart.  A label of pc0 *)
(* or pc1 is a place in the code where the other core can get in between.  *)
(*                                                                         *)
(* No ARM application runs here: zzapp_core0_poll, zzapp_worker_hook and   *)
(* zzapp_on_amiga_reset then return without effect.                        *)
(***************************************************************************)
EXTENDS TaskQueue, Sequences

CONSTANTS
  FaultThreshold,  \* taskq_watchdog fault_threshold, 3 in the firmware
  RingCap,         \* completions the ring holds: its entries minus one
  MaxGen,          \* bound: Amiga resets in a behaviour
  MaxJobs,         \* bound: internal jobs in a behaviour
  TaskFaults,      \* may a task take an exception on core 1?
  GLFaults         \* may MiniGL module code take one?

ASSUME ThresholdAssumption == FaultThreshold \in Nat \ {0}
ASSUME BoundAssumption ==
  /\ RingCap \in Nat \ {0}
  /\ MaxGen \in Nat
  /\ MaxJobs \in Nat
ASSUME FaultAssumption == TaskFaults \in BOOLEAN /\ GLFaults \in BOOLEAN
ASSUME InternalAssumption == Internal \subseteq {"FWUP", "ZZM_LOAD"}

VARIABLES
  sh,         \* taskq_shared_t without the queue
  wd,         \* g_sched_watchdog and g_core1_started
  gl,         \* MiniGL worker of the module host, mgl_reset_posted, and the
              \* acked local of minigl_begin_amiga_reset
  pc1,        \* core 1: where it is
  slot1,      \* core 1: the slot it claimed (record_fault: its local slot)
  dirty1,     \* core 1's L1 holds dirty lines of task buffers
  pc0,        \* core 0: where it is
  ret,        \* core 0: where its procedures return to
  slot0,      \* core 0: the slot it runs inline
  timed_out,  \* scheduler_quiesce_for_reset: timed_out
  cause,      \* history: why core 0 is about to restart core 1
  up,         \* the Amiga is running: it is not held in reset
  ring,       \* completion ring: what the Amiga has not consumed yet
  generation, \* sdk_mailbox_generation
  pend,       \* in-flight markers: fwup_job_queued, zzm_load_pending_id
  jobs,       \* internal jobs queued so far, against MaxJobs
  born,       \* history: the lifetime a request was accepted in, or -1
  answered    \* history: requests whose completion was posted

Flag == {0, 1}

Labels1 == {"boot", "loop", "pick", "claimed", "run", "ran", "tick",
            "fault", "failed", "faulted", "hang", "parked"}

Labels0 == {"confirm", "main", "harvest", "restart", "drain", "drainrun",
            "park", "parkwait", "held", "quiesce", "qeval", "qinit", "qdone",
            "glposted", "fwup", "fwupforget", "lent", "clean", "cleanwait",
            "takeback", "teardown", "reclaim", "reclaimwait", "glphase",
            "glabort"}

(* The words of taskq_shared_t beside the queue.                           *)
Shared == [current_slot : SlotOrNone, restart_request : Flag, alive : Flag,
           park_request : Flag, parked : Flag,
           clean_request : Flag, clean_done : Flag,
           reclaim_request : Flag, reclaim_done : Flag,
           minigl_reset_request : Flag, minigl_reset_ack : Flag,
           minigl_in_flight : Flag]

Watchdog == [started : Flag, faults : Nat, enabled : Flag]
ModuleHost == [worker : {"none", "idle", "busy"}, posted : Flag,
               acked : Flag]
Returns == [poll : {"main", "fwup"},
            quiesce : {"fwupforget", "clean", "teardown"},
            restart : {"drain", "qdone", "takeback", "glphase", "glabort"}]

clientVars == <<up, ring, generation, pend, jobs, born, answered>>
vars == <<queueVars, sh, wd, gl, pc1, slot1, dirty1, pc0, ret, slot0,
          timed_out, cause, clientVars>>

(* What a step of core 1 never writes, and what one of core 0 leaves alone *)
(* of core 1.                                                              *)
core0Own == <<wd, pc0, ret, slot0, timed_out, cause, clientVars>>
core1Own == <<pc1, slot1, dirty1>>

scheduler_core1_available == wd.started = 1 /\ wd.enabled = 1
fw_update_busy == "FWUP" \in pend
worker_registered == gl.worker # "none"

(* Core 1 executes task, module or fault-handler code of unbounded length, *)
(* or will never run again.  Only then can one of core 0's bounded waits   *)
(* run out: everything else core 1 does takes microseconds.                *)
Stalled1 == \/ pc1 \in {"run", "fault", "hang"}
            \/ pc1 = "tick" /\ gl.worker = "busy"

FaultLabels == {"fault", "failed", "faulted", "hang"}

(***************************************************************************)
(* Core 1: scheduler_core1_worker and, after an exception, record_fault.   *)
(***************************************************************************)

(* core1_loop, scheduler_core1_minigl_init *)
Core1Boot ==
  /\ pc1 = "boot"
  /\ pc1' = "loop"
  /\ sh' = [sh EXCEPT !.alive = 1]
  /\ UNCHANGED <<queueVars, gl, slot1, dirty1, core0Own>>

scheduler_core1_reclaim_if_requested ==
  /\ pc1 = "loop" /\ sh.reclaim_request = 1
  /\ sh' = [sh EXCEPT !.reclaim_request = 0, !.reclaim_done = 1]
  /\ UNCHANGED <<queueVars, gl, core1Own, core0Own>>

(* Mutant: the request is acknowledged without the L1 clean.               *)
CleanWithoutFlush ==
  /\ pc1 = "loop" /\ sh.clean_request = 1
  /\ sh' = [sh EXCEPT !.clean_request = 0, !.clean_done = 1]
  /\ UNCHANGED <<queueVars, gl, core1Own, core0Own>>

scheduler_core1_clean_if_requested ==
  /\ pc1 = "loop" /\ sh.clean_request = 1
  /\ sh' = [sh EXCEPT !.clean_request = 0, !.clean_done = 1]
  /\ dirty1' = FALSE
  /\ UNCHANGED <<queueVars, gl, pc1, slot1, core0Own>>

(* The faulted core polls for this one too, from its handler.              *)
scheduler_core1_park_if_requested ==
  /\ pc1 \in {"loop", "faulted"} /\ sh.park_request = 1
  /\ pc1' = "parked"
  /\ sh' = [sh EXCEPT !.parked = 1]
  /\ dirty1' = FALSE
  /\ UNCHANGED <<queueVars, gl, slot1, core0Own>>

(* No request is pending: go on to choose an action.  Core 0 waits for one *)
(* request at a time, so the three checks act as one.                      *)
Core1Decide ==
  /\ pc1 = "loop"
  /\ sh.reclaim_request = 0 /\ sh.clean_request = 0 /\ sh.park_request = 0
  /\ pc1' = "pick"
  /\ UNCHANGED <<queueVars, sh, gl, slot1, dirty1, core0Own>>

(* SCHED_WORKER_ACTION_RESET: the module drops its transport and is        *)
(* quiescent at once.                                                      *)
Core1MiniglReset ==
  /\ pc1 = "pick" /\ sh.minigl_reset_request = 1
  /\ pc1' = "loop"
  /\ sh' = [sh EXCEPT !.minigl_reset_request = 0, !.minigl_reset_ack = 1]
  /\ gl' = [gl EXCEPT !.worker = IF @ = "busy" THEN "idle" ELSE @]
  /\ UNCHANGED <<queueVars, slot1, dirty1, core0Own>>

Core1Claim(i) ==
  /\ pc1 = "pick" /\ sh.minigl_reset_request = 0
  /\ taskq_claim_any(i)
  /\ pc1' = "claimed"
  /\ slot1' = i
  /\ UNCHANGED <<sh, gl, dirty1, core0Own>>

(* SCHED_WORKER_ACTION_MINIGL and _POLL_IDLE: the same call either way.    *)
Core1Tick ==
  /\ pc1 = "pick" /\ sh.minigl_reset_request = 0
  /\ Queued = {} /\ worker_registered
  /\ pc1' = "tick"
  /\ sh' = [sh EXCEPT !.minigl_in_flight = 1]
  /\ UNCHANGED <<queueVars, gl, slot1, dirty1, core0Own>>

(* SCHED_WORKER_ACTION_WFE.  Every writer of what the loop tests follows   *)
(* it by SEV, and SEV is latched, so sleeping is a longer idle step.       *)
Core1Idle ==
  /\ pc1 = "pick" /\ sh.minigl_reset_request = 0
  /\ Queued = {} /\ ~worker_registered
  /\ pc1' = "loop"
  /\ UNCHANGED <<queueVars, sh, gl, slot1, dirty1, core0Own>>

Core1Begin ==
  /\ pc1 = "claimed"
  /\ pc1' = "run"
  /\ sh' = [sh EXCEPT !.current_slot = slot1]
  /\ dirty1' = TRUE
  /\ UNCHANGED <<queueVars, gl, slot1, core0Own>>

(* TASKQ_OP_ZZM_LOAD: the module registers its worker while it is loaded.  *)
zzm_minigl_register ==
  /\ pc1 = "run" /\ req[slot1] = "ZZM_LOAD" /\ ~worker_registered
  /\ gl' = [gl EXCEPT !.worker = "idle"]
  /\ UNCHANGED <<queueVars, sh, core1Own, core0Own>>

(* End of scheduler_run_slot.                                              *)
Core1Complete ==
  /\ pc1 = "run"
  /\ taskq_complete(slot1)
  /\ pc1' = "ran"
  /\ UNCHANGED <<sh, gl, slot1, dirty1, core0Own>>

Core1Done ==
  /\ pc1 = "ran"
  /\ pc1' = "loop"
  /\ slot1' = NoSlot
  /\ sh' = [sh EXCEPT !.current_slot = NoSlot]
  /\ UNCHANGED <<queueVars, gl, dirty1, core0Own>>

(* zzm_minigl_service_tick returns; a poll budget may leave work behind.   *)
Core1TickEnd ==
  /\ pc1 = "tick"
  /\ pc1' = "loop"
  /\ sh' = [sh EXCEPT !.minigl_in_flight = 0]
  /\ \/ UNCHANGED gl
     \/ gl.worker = "busy" /\ gl' = [gl EXCEPT !.worker = "idle"]
  /\ UNCHANGED <<queueVars, slot1, dirty1, core0Own>>

(* An exception: record_fault reads core1_current_slot, then prints.       *)
Core1Fault ==
  /\ \/ pc1 = "run" /\ TaskFaults
     \/ pc1 = "tick" /\ gl.worker = "busy" /\ GLFaults
  /\ pc1' = "fault"
  /\ slot1' = sh.current_slot
  /\ UNCHANGED <<queueVars, sh, gl, dirty1, core0Own>>

(* if (sh->minigl_in_flight): the module is cut off.                       *)
zzm_minigl_on_core1_fault ==
  /\ sh' = [sh EXCEPT !.minigl_in_flight = 0]
  /\ gl' = IF sh.minigl_in_flight = 1 THEN [gl EXCEPT !.worker = "none"]
                                      ELSE gl

(* The task is failed.  Core 0 tests in_flight only together with the      *)
(* slot's state, so both writes are one step.                              *)
Core1FailTask ==
  /\ pc1 = "fault" /\ slot1 # NoSlot
  /\ zzm_minigl_on_core1_fault
  /\ taskq_fail(slot1)
  /\ pc1' = "failed"
  /\ UNCHANGED <<slot1, dirty1, core0Own>>

(* No task in flight: while (1).                                           *)
Core1Hang ==
  /\ pc1 = "fault" /\ slot1 = NoSlot
  /\ zzm_minigl_on_core1_fault
  /\ pc1' = "hang"
  /\ UNCHANGED <<queueVars, slot1, dirty1, core0Own>>

(* Mutant: the handler parks without asking for a restart.                 *)
ParkWithoutRequest ==
  /\ pc1 = "failed"
  /\ pc1' = "faulted"
  /\ slot1' = NoSlot
  /\ sh' = [sh EXCEPT !.current_slot = NoSlot]
  /\ UNCHANGED <<queueVars, gl, dirty1, core0Own>>

(* Core 0 refuses a clean or a reclaim on either word alone, so the two    *)
(* stores are one step.                                                    *)
Core1RequestRestart ==
  /\ pc1 = "failed"
  /\ pc1' = "faulted"
  /\ slot1' = NoSlot
  /\ sh' = [sh EXCEPT !.current_slot = NoSlot, !.restart_request = 1]
  /\ UNCHANGED <<queueVars, gl, dirty1, core0Own>>

Core1 ==
  \/ Core1Boot \/ Core1Decide \/ Core1MiniglReset \/ Core1Tick \/ Core1Idle
  \/ scheduler_core1_reclaim_if_requested
  \/ scheduler_core1_clean_if_requested
  \/ scheduler_core1_park_if_requested
  \/ \E i \in Slots : Core1Claim(i)
  \/ Core1Begin \/ zzm_minigl_register \/ Core1Complete \/ Core1Done
  \/ Core1TickEnd \/ Core1Fault \/ Core1FailTask \/ Core1Hang
  \/ Core1RequestRestart

(***************************************************************************)
(* Core 0: accepting work.                                                 *)
(***************************************************************************)

(* The sdk_mailbox_task loop refuses a request it has no completion entry  *)
(* for; handlers then defer it or answer it inline.                        *)
CanAccept(r) == /\ pc0 = "main"
                /\ up
                /\ born[r] = -1
                /\ Len(ring) < RingCap

(* crypto_dispatch, service_try_defer: SDK_STATUS_QUEUED.                  *)
DispatchDeferred(r, c) ==
  /\ CanAccept(r)
  /\ scheduler_core1_available
  /\ taskq_enqueue(r, c, generation)
  /\ born' = [born EXCEPT ![r] = generation]
  /\ UNCHANGED <<sh, wd, gl, core1Own, pc0, ret, slot0, timed_out, cause,
                 up, ring, generation, pend, jobs, answered>>

(* Requests behind it in the batch, no free slot, or no core 1: computed   *)
(* on core 0 and answered at once.                                         *)
DispatchInline(r) ==
  /\ CanAccept(r)
  /\ born' = [born EXCEPT ![r] = generation]
  /\ answered' = answered \cup {r}
  /\ ring' = Append(ring, r)
  /\ UNCHANGED <<queueVars, sh, wd, gl, core1Own, pc0, ret, slot0, timed_out,
                 cause, up, generation, pend, jobs>>

(* A FWUP command of the host, or the load of the MiniGL module.  With no  *)
(* slot free the command stays pending on the host side.                   *)
sdk_mailbox_enqueue_internal(op) ==
  /\ pc0 = "main" /\ up
  /\ scheduler_core1_available
  /\ op \notin pend
  /\ op = "ZZM_LOAD" => ~worker_registered
  /\ jobs < MaxJobs
  /\ taskq_enqueue(op, "LONG", generation)
  /\ pend' = pend \cup {op}
  /\ jobs' = jobs + 1
  /\ UNCHANGED <<sh, wd, gl, core1Own, pc0, ret, slot0, timed_out, cause,
                 up, ring, generation, born, answered>>

(* The Amiga consumes a completion, and gives the module packets to run.   *)
AmigaConsume ==
  /\ up /\ ring # <<>>
  /\ ring' = Tail(ring)
  /\ UNCHANGED <<queueVars, sh, wd, gl, core1Own, pc0, ret, slot0, timed_out,
                 cause, up, generation, pend, jobs, born, answered>>

(* A rebooting 68k reaches its drivers after seconds; the MiniGL reset is  *)
(* settled within its 50 ms budget.                                        *)
AmigaBoots ==
  /\ ~up /\ pc0 = "main" /\ gl.posted = 0
  /\ up' = TRUE
  /\ UNCHANGED <<queueVars, sh, wd, gl, core1Own, pc0, ret, slot0, timed_out,
                 cause, ring, generation, pend, jobs, born, answered>>

AmigaPackets ==
  /\ up /\ gl.worker = "idle"
  /\ gl' = [gl EXCEPT !.worker = "busy"]
  /\ UNCHANGED <<queueVars, sh, wd, core1Own, pc0, ret, slot0, timed_out,
                 cause, clientVars>>

(* scheduler_confirm_core1_boot: a bounded wait for core1_alive.           *)
scheduler_confirm_core1_boot ==
  /\ pc0 = "confirm"
  /\ pc0' = "main"
  /\ wd' = [wd EXCEPT !.started = sh.alive]
  /\ UNCHANGED <<queueVars, sh, gl, core1Own, ret, slot0, timed_out, cause,
                 clientVars>>

(***************************************************************************)
(* Core 0: scheduler_core0_poll.                                           *)
(***************************************************************************)

StartPoll ==
  /\ pc0 = "main"
  /\ pc0' = "harvest"
  /\ UNCHANGED <<queueVars, sh, wd, gl, core1Own, ret, slot0, timed_out, cause,
                 clientVars>>

(* Mutant: the lifetime of a finished task is not checked.                 *)
AnyGenerationOk(i) == i \in Slots

sdk_mailbox_task_gen_ok(i) == gen[i] = generation
RingFull == Len(ring) = RingCap

taskq_watchdog_on_success(i) ==
  wd' = IF state[i] = "DONE" THEN [wd EXCEPT !.faults = 0] ELSE wd

HarvestStale(i) ==
  /\ pc0 = "harvest"
  /\ taskq_harvest(i) /\ ~sdk_mailbox_task_gen_ok(i)
  /\ taskq_release(i)
  /\ UNCHANGED <<sh, wd, gl, core1Own, pc0, ret, slot0, timed_out, cause,
                 clientVars>>

(* Mutant: a job that faulted does not retire its marker.                  *)
RetireOnlySuccess(i) ==
  /\ pc0 = "harvest"
  /\ taskq_harvest(i) /\ sdk_mailbox_task_gen_ok(i)
  /\ req[i] \in Internal
  /\ pend' = IF state[i] = "DONE" THEN pend \ {req[i]} ELSE pend
  /\ taskq_watchdog_on_success(i)
  /\ taskq_release(i)
  /\ UNCHANGED <<sh, gl, core1Own, pc0, ret, slot0, timed_out, cause,
                 up, ring, generation, jobs, born, answered>>

(* sdk_mailbox_post_deferred with request_id 0: retire the job's marker.   *)
HarvestInternal(i) ==
  /\ pc0 = "harvest"
  /\ taskq_harvest(i) /\ sdk_mailbox_task_gen_ok(i)
  /\ req[i] \in Internal
  /\ pend' = pend \ {req[i]}
  /\ taskq_watchdog_on_success(i)
  /\ taskq_release(i)
  /\ UNCHANGED <<sh, gl, core1Own, pc0, ret, slot0, timed_out, cause,
                 up, ring, generation, jobs, born, answered>>

(* Mutant: the slot is released although the ring had no room.             *)
ReleaseUnposted(i) ==
  /\ pc0 = "harvest"
  /\ taskq_harvest(i) /\ sdk_mailbox_task_gen_ok(i)
  /\ req[i] \in Reqs
  /\ IF RingFull
       THEN UNCHANGED <<ring, answered>>
       ELSE /\ ring' = Append(ring, req[i])
            /\ answered' = answered \cup {req[i]}
  /\ taskq_watchdog_on_success(i)
  /\ taskq_release(i)
  /\ UNCHANGED <<sh, gl, core1Own, pc0, ret, slot0, timed_out, cause,
                 up, generation, pend, jobs, born>>

(* sdk_mailbox_post_deferred for a client.                                 *)
HarvestPost(i) ==
  /\ pc0 = "harvest"
  /\ taskq_harvest(i) /\ sdk_mailbox_task_gen_ok(i)
  /\ req[i] \in Reqs /\ ~RingFull
  /\ ring' = Append(ring, req[i])
  /\ answered' = answered \cup {req[i]}
  /\ taskq_watchdog_on_success(i)
  /\ taskq_release(i)
  /\ UNCHANGED <<sh, gl, core1Own, pc0, ret, slot0, timed_out, cause,
                 up, generation, pend, jobs, born>>

(* The completion at the head of the scan finds the ring full.             *)
HeadBlocked ==
  \E i \in Slots : /\ taskq_harvest(i)
                   /\ sdk_mailbox_task_gen_ok(i)
                   /\ req[i] \in Reqs /\ RingFull

HarvestEnd ==
  /\ pc0 = "harvest"
  /\ Finished = {} \/ HeadBlocked
  /\ pc0' = "restart"
  /\ UNCHANGED <<queueVars, sh, wd, gl, core1Own, ret, slot0, timed_out, cause,
                 clientVars>>

NoRestartRequest ==
  /\ pc0 = "restart" /\ sh.restart_request = 0
  /\ pc0' = "drain"
  /\ UNCHANGED <<queueVars, sh, wd, gl, core1Own, ret, slot0, timed_out, cause,
                 clientVars>>

(* History: what core 0 knows of the worker it restarts without a wait.    *)
CauseNow == IF pc1 \in FaultLabels THEN "fault" ELSE "healthy"

taskq_watchdog_on_fault ==
  /\ pc0 = "restart" /\ sh.restart_request = 1
  /\ sh' = [sh EXCEPT !.restart_request = 0]
  /\ LET n == wd.faults + 1
         on == wd.enabled = 1 /\ n < FaultThreshold
     IN  /\ wd' = [wd EXCEPT !.faults = n,
                             !.enabled = IF on THEN 1 ELSE 0,
                             !.started = IF on THEN @ ELSE 0]
         /\ pc0' = IF on THEN "park" ELSE "drain"
         /\ ret' = IF on THEN [ret EXCEPT !.restart = "drain"] ELSE ret
         /\ cause' = IF on THEN CauseNow ELSE cause
  /\ UNCHANGED <<queueVars, gl, core1Own, slot0, timed_out, clientVars>>

(* The end of a poll.                                                      *)
ReturnFromPoll == /\ pc0' = ret.poll
                  /\ ret' = [ret EXCEPT !.poll = "main"]

(* Single-core fallback: a stranded LONG task is failed, never run.        *)
DrainFail(i) ==
  /\ pc0 = "drain" /\ ~scheduler_core1_available
  /\ IsFirst(i, Queued) /\ cls[i] = "LONG"
  /\ taskq_fail(i)
  /\ UNCHANGED <<sh, wd, gl, core1Own, pc0, ret, slot0, timed_out, cause,
                 clientVars>>

(* Stranded SHORT tasks run inline; with core 1 healthy one SHORT task may *)
(* run in an idle window of the main loop (fwup_wait_idle polls as busy).  *)
DrainClaim(i) ==
  /\ pc0 = "drain"
  /\ \/ ~scheduler_core1_available /\ taskq_claim_any(i) /\ cls[i] = "SHORT"
     \/ /\ scheduler_core1_available /\ ret.poll = "main"
        /\ taskq_claim_short(i)
  /\ pc0' = "drainrun"
  /\ slot0' = i
  /\ UNCHANGED <<sh, wd, gl, core1Own, ret, timed_out, cause, clientVars>>

DrainRun ==
  /\ pc0 = "drainrun"
  /\ taskq_complete(slot0)
  /\ slot0' = NoSlot
  /\ IF scheduler_core1_available
       THEN ReturnFromPoll
       ELSE pc0' = "drain" /\ UNCHANGED ret
  /\ UNCHANGED <<sh, wd, gl, core1Own, timed_out, cause, clientVars>>

(* Mutant: the fallback drains at most one task a poll.                    *)
DrainOnce ==
  /\ pc0 = "drain"
  /\ ReturnFromPoll
  /\ UNCHANGED <<queueVars, sh, wd, gl, core1Own, slot0, timed_out, cause,
                 clientVars>>

DrainEnd ==
  /\ pc0 = "drain"
  /\ scheduler_core1_available \/ Queued = {}
  /\ ReturnFromPoll
  /\ UNCHANGED <<queueVars, sh, wd, gl, core1Own, slot0, timed_out, cause,
                 clientVars>>

(***************************************************************************)
(* Core 0: core1_cold_restart.                                             *)
(***************************************************************************)

core1_park_for_reset ==
  /\ pc0 = "park"
  /\ IF sh.alive = 1
       THEN /\ pc0' = "parkwait"
            /\ sh' = [sh EXCEPT !.parked = 0, !.park_request = 1]
       ELSE pc0' = "held" /\ UNCHANGED sh
  /\ UNCHANGED <<queueVars, wd, gl, core1Own, ret, slot0, timed_out, cause,
                 clientVars>>

(* Core 1 parked, or 10 ms went by.                                        *)
ParkWaitEnd ==
  /\ pc0 = "parkwait"
  /\ sh.parked = 1 \/ Stalled1
  /\ pc0' = "held"
  /\ UNCHANGED <<queueVars, sh, wd, gl, core1Own, ret, slot0, timed_out, cause,
                 clientVars>>

(* Core 1 is held in reset, the module host forgets its worker, and core 1 *)
(* is released into core1_entry.  It runs nothing in between, and dirty    *)
(* lines it had not written back are gone.                                 *)
core1_cold_restart ==
  /\ pc0 = "held"
  /\ pc0' = ret.restart
  /\ ret' = [ret EXCEPT !.restart = "drain"]
  /\ cause' = "none"
  /\ pc1' = "boot"
  /\ slot1' = NoSlot
  /\ dirty1' = FALSE
  /\ sh' = [sh EXCEPT !.park_request = 0, !.parked = 0]
  /\ gl' = [gl EXCEPT !.worker = "none"]
  /\ UNCHANGED <<queueVars, wd, slot0, timed_out, clientVars>>

Restart(why, back) ==
  /\ pc0' = "park"
  /\ ret' = [ret EXCEPT !.restart = back]
  /\ cause' = why

(***************************************************************************)
(* Core 0: scheduler_quiesce_for_reset.                                    *)
(***************************************************************************)

ReturnFromQuiesce == /\ pc0' = ret.quiesce
                     /\ ret' = [ret EXCEPT !.quiesce = "teardown"]

QuiesceSkip ==
  /\ pc0 = "quiesce" /\ ~scheduler_core1_available
  /\ ReturnFromQuiesce
  /\ UNCHANGED <<queueVars, sh, wd, gl, core1Own, slot0, timed_out, cause,
                 clientVars>>

Inactive == ~taskq_has_active /\ sh.minigl_in_flight = 0

(* The wait ends: nothing is active, or 50 ms went by because core 1 is    *)
(* stalled, sits in its fault handler with tasks queued, or no longer runs *)
(* the tick whose in_flight flag it left set.                              *)
QuiesceWaitEnd ==
  /\ pc0 = "quiesce" /\ scheduler_core1_available
  /\ \/ /\ Inactive
        /\ cause' = "healthy"
     \/ /\ ~Inactive
        /\ Stalled1 \/ pc1 = "faulted"
        /\ cause' = "stuck"
     \/ /\ sh.minigl_in_flight = 1 /\ ~worker_registered
        /\ ~taskq_has_active /\ pc1 \notin {"tick", "fault"}
        /\ cause' = "healthy"
  /\ pc0' = "qeval"
  /\ UNCHANGED <<queueVars, sh, wd, gl, core1Own, ret, slot0, timed_out,
                 clientVars>>

(* timed_out is computed by testing again.                                 *)
QuiesceEvaluate ==
  /\ pc0 = "qeval"
  /\ pc0' = "qinit"
  /\ timed_out' = ~Inactive
  /\ UNCHANGED <<queueVars, sh, wd, gl, core1Own, ret, slot0, cause,
                 clientVars>>

(* Mutant: the queue is cleared and a task that outlived the wait runs on. *)
ClearWithoutRestart ==
  /\ pc0 = "qinit"
  /\ taskq_init
  /\ sh' = [sh EXCEPT !.current_slot = NoSlot]
  /\ timed_out' = FALSE
  /\ ReturnFromQuiesce /\ cause' = "none"
  /\ UNCHANGED <<wd, gl, core1Own, slot0, clientVars>>

QuiesceInit ==
  /\ pc0 = "qinit"
  /\ taskq_init
  /\ sh' = [sh EXCEPT !.current_slot = NoSlot]
  /\ timed_out' = FALSE
  /\ IF timed_out
       THEN Restart(IF pc1 \in FaultLabels THEN "fault" ELSE cause, "qdone")
       ELSE ReturnFromQuiesce /\ cause' = "none"
  /\ UNCHANGED <<wd, gl, core1Own, slot0, clientVars>>

QuiesceDone ==
  /\ pc0 = "qdone"
  /\ sh' = [sh EXCEPT !.restart_request = 0]
  /\ ReturnFromQuiesce
  /\ UNCHANGED <<queueVars, wd, gl, core1Own, slot0, timed_out, cause,
                 clientVars>>

(***************************************************************************)
(* Core 0: the Amiga reset (minigl_begin_amiga_reset, handle_amiga_reset,  *)
(* sdk_mailbox_init).                                                      *)
(***************************************************************************)

(* scheduler_request_minigl_reset, when core 1 has a module to reset.      *)
minigl_begin_amiga_reset ==
  /\ pc0 = "main"
  /\ generation < MaxGen
  /\ up' = FALSE
  /\ IF scheduler_core1_available /\ worker_registered
       THEN /\ pc0' = "glposted"
            /\ sh' = [sh EXCEPT !.minigl_reset_ack = 0,
                               !.minigl_reset_request = 1]
            /\ gl' = [gl EXCEPT !.posted = 1]
       ELSE pc0' = "fwup" /\ UNCHANGED <<sh, gl>>
  /\ UNCHANGED <<queueVars, wd, core1Own, ret, slot0, timed_out, cause,
                 ring, generation, pend, jobs, born, answered>>

(* acked, sampled as the reset is posted.                                  *)
SampleAck ==
  /\ pc0 = "glposted"
  /\ pc0' = "fwup"
  /\ gl' = [gl EXCEPT !.acked = sh.minigl_reset_ack]
  /\ UNCHANGED <<queueVars, sh, wd, core1Own, ret, slot0, timed_out, cause,
                 clientVars>>

(* fwup_wait_idle: poll until the job retires.                             *)
FwupIdle ==
  /\ pc0 = "fwup" /\ ~fw_update_busy
  /\ pc0' = "lent"
  /\ UNCHANGED <<queueVars, sh, wd, gl, core1Own, ret, slot0, timed_out, cause,
                 clientVars>>

FwupPoll ==
  /\ pc0 = "fwup" /\ fw_update_busy
  /\ pc0' = "harvest"
  /\ ret' = [ret EXCEPT !.poll = "fwup"]
  /\ UNCHANGED <<queueVars, sh, wd, gl, core1Own, slot0, timed_out, cause,
                 clientVars>>

FwupFinished == \E i \in Finished : /\ req[i] = "FWUP"
                                    /\ sdk_mailbox_task_gen_ok(i)

(* Mutant: the wait has no bound while the job runs.                       *)
FwupWaitsForJob ==
  /\ pc0 = "fwup" /\ fw_update_busy
  /\ HeadBlocked
  /\ pc0' = "quiesce"
  /\ ret' = [ret EXCEPT !.quiesce = "fwupforget"]
  /\ UNCHANGED <<queueVars, sh, wd, gl, core1Own, slot0, timed_out, cause,
                 clientVars>>

(* Mutant: a job stuck past the wait is forgotten and not stopped.         *)
ForgetRunningJob ==
  /\ pc0 = "fwup" /\ fw_update_busy
  /\ HeadBlocked \/ (Stalled1 /\ ~FwupFinished)
  /\ pc0' = "fwupforget"
  /\ UNCHANGED <<queueVars, sh, wd, gl, core1Own, ret, slot0, timed_out, cause,
                 clientVars>>

(* 3 s went by with the job unfinished, or finished and never harvested.   *)
FwupTimeout ==
  /\ pc0 = "fwup" /\ fw_update_busy
  /\ HeadBlocked \/ (Stalled1 /\ ~FwupFinished)
  /\ pc0' = "quiesce"
  /\ ret' = [ret EXCEPT !.quiesce = "fwupforget"]
  /\ UNCHANGED <<queueVars, sh, wd, gl, core1Own, slot0, timed_out, cause,
                 clientVars>>

fw_update_forget_queued ==
  /\ pc0 = "fwupforget"
  /\ pc0' = "lent"
  /\ pend' = pend \ {"FWUP"}
  /\ UNCHANGED <<queueVars, sh, wd, gl, core1Own, ret, slot0, timed_out, cause,
                 up, ring, generation, jobs, born, answered>>

(* card_pool_has_lent: stop core 1, have it clean its L1, take the window  *)
(* back.  Without a lent window go straight to sdk_mailbox_init.           *)
TakeBackLent ==
  /\ pc0 = "lent"
  /\ pc0' = "quiesce"
  /\ \E back \in {"clean", "teardown"} :
       ret' = [ret EXCEPT !.quiesce = back]
  /\ UNCHANGED <<queueVars, sh, wd, gl, core1Own, slot0, timed_out, cause,
                 clientVars>>

(* scheduler_core1_clean_dcache: nothing to do, refused, or requested.     *)
scheduler_core1_clean_dcache ==
  /\ pc0 = "clean"
  /\ \/ /\ ~scheduler_core1_available \/ sh.alive = 0
        /\ pc0' = "takeback"
        /\ UNCHANGED <<sh, ret, cause>>
     \/ /\ scheduler_core1_available /\ sh.alive = 1
        /\ sh.current_slot # NoSlot \/ sh.restart_request = 1
        /\ Restart(CauseNow, "takeback")
        /\ UNCHANGED sh
     \/ /\ scheduler_core1_available /\ sh.alive = 1
        /\ sh.current_slot = NoSlot /\ sh.restart_request = 0
        /\ sh' = [sh EXCEPT !.clean_done = 0, !.clean_request = 1]
        /\ pc0' = "cleanwait"
        /\ UNCHANGED <<ret, cause>>
  /\ UNCHANGED <<queueVars, wd, gl, core1Own, slot0, timed_out, clientVars>>

CleanWaitEnd ==
  /\ pc0 = "cleanwait"
  /\ \/ /\ sh.clean_done = 1
        /\ pc0' = "takeback"
        /\ UNCHANGED <<sh, ret, cause>>
     \/ /\ sh.clean_done = 0 /\ (Stalled1 \/ pc1 = "faulted")
        /\ sh' = [sh EXCEPT !.clean_request = 0]
        /\ Restart("stuck", "takeback")
  /\ UNCHANGED <<queueVars, wd, gl, core1Own, slot0, timed_out, clientVars>>

(* card_pool_take_back_lent, then on to sdk_mailbox_init.                  *)
card_pool_take_back_lent ==
  /\ pc0 = "takeback"
  /\ pc0' = "quiesce"
  /\ UNCHANGED <<queueVars, sh, wd, gl, core1Own, ret, slot0, timed_out, cause,
                 clientVars>>

(* Mutant: the in-flight markers survive into the next lifetime.           *)
InitKeepsMarkers ==
  /\ pc0 = "teardown"
  /\ pc0' \in {"reclaim", "glphase"}
  /\ ring' = <<>>
  /\ generation' = generation + 1
  /\ UNCHANGED <<queueVars, sh, wd, gl, core1Own, ret, slot0, timed_out, cause,
                 up, pend, jobs, born, answered>>

(* sdk_mailbox_init after its quiesce: the markers and the rings are       *)
(* cleared and the next lifetime begins.  Sessions whose memory lives on   *)
(* core 1 have it reclaimed there.                                         *)
sdk_mailbox_init ==
  /\ pc0 = "teardown"
  /\ pc0' \in {"reclaim", "glphase"}
  /\ pend' = {}
  /\ ring' = <<>>
  /\ generation' = generation + 1
  /\ UNCHANGED <<queueVars, sh, wd, gl, core1Own, ret, slot0, timed_out, cause,
                 up, jobs, born, answered>>

scheduler_core1_reclaim ==
  /\ pc0 = "reclaim"
  /\ \/ /\ ~scheduler_core1_available
        /\ pc0' = "glphase"
        /\ UNCHANGED <<sh, ret, cause>>
     \/ /\ scheduler_core1_available
        /\ \/ sh.alive = 0
           \/ sh.current_slot # NoSlot
           \/ sh.restart_request = 1
        /\ Restart(CauseNow, "glphase")
        /\ UNCHANGED sh
     \/ /\ scheduler_core1_available /\ sh.alive = 1
        /\ sh.current_slot = NoSlot /\ sh.restart_request = 0
        /\ sh' = [sh EXCEPT !.reclaim_done = 0, !.reclaim_request = 1]
        /\ pc0' = "reclaimwait"
        /\ UNCHANGED <<ret, cause>>
  /\ UNCHANGED <<queueVars, wd, gl, core1Own, slot0, timed_out, clientVars>>

ReclaimWaitEnd ==
  /\ pc0 = "reclaimwait"
  /\ \/ /\ sh.reclaim_done = 1
        /\ pc0' = "glphase"
        /\ UNCHANGED <<sh, ret, cause>>
     \/ /\ sh.reclaim_done = 0 /\ (Stalled1 \/ pc1 = "faulted")
        /\ sh' = [sh EXCEPT !.reclaim_request = 0]
        /\ Restart("stuck", "glphase")
  /\ UNCHANGED <<queueVars, wd, gl, core1Own, slot0, timed_out, clientVars>>

(* scheduler_cancel_minigl_reset; minigl_reset_abort_and_free goes on.     *)
scheduler_cancel_minigl_reset ==
  /\ sh' = [sh EXCEPT !.minigl_reset_request = 0]
  /\ IF scheduler_core1_available
       THEN Restart("stuck", "glabort")
       ELSE pc0' = "glabort" /\ UNCHANGED <<ret, cause>>
  /\ UNCHANGED gl

(* sched_minigl_reset_phase as the reset returns, on the sample of the     *)
(* acknowledgement.  The main loop goes on with scheduler_core0_poll.      *)
MiniglPhase ==
  /\ pc0 = "glphase"
  /\ \/ /\ gl.acked = 1                                              \* ACKED
        /\ gl' = [gl EXCEPT !.posted = 0, !.acked = 0]
        /\ pc0' = "harvest"
        /\ UNCHANGED <<sh, ret, cause>>
     \/ /\ gl.acked = 0 /\ ~scheduler_core1_available
        /\ gl.posted = 1                                             \* ABORT
        /\ scheduler_cancel_minigl_reset
     \/ /\ gl.acked = 0 /\ ~scheduler_core1_available
        /\ gl.posted = 0                                             \* LOCAL
        /\ gl' = [gl EXCEPT !.worker = "none"]
        /\ pc0' = "harvest"
        /\ UNCHANGED <<sh, ret, cause>>
     \/ /\ gl.acked = 0 /\ scheduler_core1_available           \* IDLE, WAIT
        /\ pc0' = "harvest"
        /\ UNCHANGED <<sh, gl, ret, cause>>
  /\ UNCHANGED <<queueVars, wd, core1Own, slot0, timed_out, clientVars>>

(* minigl_reset_poll, from the main loop.  The 50 ms budget runs from the  *)
(* start of the reset, so it may be spent before the first poll.           *)
minigl_reset_poll ==
  /\ pc0 = "main" /\ gl.posted = 1
  /\ \/ /\ sh.minigl_reset_ack = 1
        /\ gl' = [gl EXCEPT !.posted = 0]
        /\ UNCHANGED <<sh, pc0, ret, cause>>
     \/ /\ sh.minigl_reset_ack = 0
        /\ scheduler_cancel_minigl_reset
  /\ UNCHANGED <<queueVars, wd, core1Own, slot0, timed_out, clientVars>>

(* The rest of minigl_reset_abort_and_free.  The main loop goes on with    *)
(* scheduler_core0_poll.                                                   *)
minigl_reset_abort_and_free ==
  /\ pc0 = "glabort"
  /\ pc0' = "harvest"
  /\ gl' = [worker |-> "none", posted |-> 0, acked |-> 0]
  /\ UNCHANGED <<queueVars, sh, wd, core1Own, ret, slot0, timed_out, cause,
                 clientVars>>

(***************************************************************************)
(* The specification.                                                      *)
(***************************************************************************)

Poll ==
  \/ StartPoll
  \/ \E i \in Slots : HarvestStale(i) \/ HarvestInternal(i) \/ HarvestPost(i)
  \/ HarvestEnd \/ NoRestartRequest \/ taskq_watchdog_on_fault
  \/ \E i \in Slots : DrainFail(i) \/ DrainClaim(i)
  \/ DrainRun \/ DrainEnd

ColdRestart == core1_park_for_reset \/ ParkWaitEnd \/ core1_cold_restart

Quiesce == \/ QuiesceSkip \/ QuiesceWaitEnd \/ QuiesceEvaluate
           \/ QuiesceInit \/ QuiesceDone

Reset ==
  \/ SampleAck \/ FwupIdle \/ FwupPoll \/ FwupTimeout \/ fw_update_forget_queued
  \/ TakeBackLent \/ scheduler_core1_clean_dcache \/ CleanWaitEnd
  \/ card_pool_take_back_lent \/ sdk_mailbox_init
  \/ scheduler_core1_reclaim \/ ReclaimWaitEnd
  \/ MiniglPhase \/ minigl_reset_poll \/ minigl_reset_abort_and_free

Core0 == scheduler_confirm_core1_boot \/ Poll \/ ColdRestart \/ Quiesce \/ Reset

Client ==
  \/ \E r \in Reqs : DispatchInline(r)
  \/ \E r \in Reqs, c \in Classes : DispatchDeferred(r, c)
  \/ \E op \in Internal : sdk_mailbox_enqueue_internal(op)
  \/ AmigaBoots \/ AmigaPackets \/ minigl_begin_amiga_reset

Next == Core0 \/ Core1 \/ Client \/ AmigaConsume

(* scheduler_boot_init, before core 1 is released.                         *)
Init ==
  /\ QueueInit
  /\ sh = [current_slot |-> NoSlot, restart_request |-> 0, alive |-> 0,
           park_request |-> 0, parked |-> 0,
           clean_request |-> 0, clean_done |-> 0,
           reclaim_request |-> 0, reclaim_done |-> 0,
           minigl_reset_request |-> 0, minigl_reset_ack |-> 0,
           minigl_in_flight |-> 0]
  /\ wd = [started |-> 0, faults |-> 0, enabled |-> 1]
  /\ gl = [worker |-> "none", posted |-> 0, acked |-> 0]
  /\ pc1 = "boot" /\ slot1 = NoSlot /\ dirty1 = FALSE
  /\ pc0 = "confirm" /\ slot0 = NoSlot /\ timed_out = FALSE
  /\ ret = [poll |-> "main", quiesce |-> "teardown", restart |-> "drain"]
  /\ cause = "none"
  /\ up = TRUE /\ ring = <<>> /\ generation = 0
  /\ pend = {} /\ jobs = 0
  /\ born = [r \in Reqs |-> -1]
  /\ answered = {}

(* Core 0's main loop never blocks, core 1 keeps executing and its code    *)
(* ends, and a running Amiga drains its completions.  The spin counts of   *)
(* fwup_wait_idle and of the quiesce bound waits whose condition may come  *)
(* and go, so those two are strongly fair.                                 *)
BoundedSpins == SF_vars(FwupTimeout) /\ SF_vars(QuiesceWaitEnd)
Fairness == /\ WF_vars(Core0) /\ WF_vars(Core1) /\ WF_vars(AmigaConsume)
            /\ BoundedSpins

(* The same with a worker that may be wedged for ever in task, module or   *)
(* handler code: only the worker loop itself is sure to make progress.     *)
Core1Prompt == ~Stalled1 /\ Core1
WedgeFairness == WF_vars(Core0) /\ WF_vars(Core1Prompt) /\ BoundedSpins

Spec == Init /\ [][Next]_vars
FairSpec == Spec /\ Fairness
WedgeSpec == Spec /\ WedgeFairness

(***************************************************************************)
(* Properties.                                                             *)
(***************************************************************************)

(* Every variable keeps the type its C counterpart has.                    *)
TypeOK ==
  /\ QueueTypeOK
  /\ sh \in Shared
  /\ wd \in Watchdog /\ gl \in ModuleHost /\ ret \in Returns
  /\ pc1 \in Labels1 /\ slot1 \in SlotOrNone /\ dirty1 \in BOOLEAN
  /\ pc0 \in Labels0 /\ slot0 \in SlotOrNone /\ timed_out \in BOOLEAN
  /\ cause \in {"none", "fault", "stuck", "healthy"}
  /\ up \in BOOLEAN /\ ring \in Seq(Reqs) /\ generation \in Nat
  /\ pend \subseteq Internal /\ jobs \in Nat
  /\ born \in [Reqs -> Nat \cup {-1}] /\ answered \subseteq Reqs

(* Core 1 is between its claim of slot i and the slot's completion.        *)
Core1Holds(i) == slot1 = i /\ pc1 \in {"claimed", "run", "fault"}
Core0Holds(i) == slot0 = i /\ pc0 = "drainrun"

(* A CLAIMED task belongs to exactly one core, which will finish it: no    *)
(* fault, restart or reset orphans a claim, and no two cores run one task. *)
ClaimHasOneOwner ==
  \A i \in Slots :
    /\ state[i] = "CLAIMED" => Core1Holds(i) \/ Core0Holds(i)
    /\ ~(Core1Holds(i) /\ Core0Holds(i))

(* Core 1 never executes a task of an earlier mailbox lifetime: once       *)
(* sdk_mailbox_init has handed the task's buffers to the next lifetime, no *)
(* late write of it can land in them.                                      *)
NoLateWrite == pc1 = "run" => gen[slot1] = generation

(* A request accepted in this lifetime and not answered yet still sits in  *)
(* a slot whenever the main loop is reached: no fault, harvest or restart  *)
(* drops it.                                                               *)
PendingIsQueued ==
  pc0 = "main" =>
    \A r \in Reqs \ answered :
      born[r] = generation =>
        \E i \in Slots : /\ req[i] = r /\ gen[i] = generation
                         /\ state[i] # "FREE"

(* Single-core fallback strands nothing: after a poll with core 1 given up *)
(* no task waits for a worker that will never come.                        *)
NothingStranded ==
  (pc0 = "main" /\ ~scheduler_core1_available) => ~taskq_has_active

(* While core 1 is in service, the fast-RAM window is taken back only with *)
(* no dirty line of a task buffer left in core 1's L1.                     *)
TakeBackClean ==
  (pc0 = "takeback" /\ scheduler_core1_available) => ~dirty1

(* A FWUP or module-load marker is only up while the job can still retire  *)
(* it, so fwup_wait_idle and the loader never wait for a job that is gone. *)
MarkerHasJob ==
  pc0 \in {"main", "fwup"} =>
    \A op \in pend : \E i \in Slots : /\ req[i] = op /\ gen[i] = generation
                                      /\ state[i] # "FREE"

(* From its wait for the FWUP job to the end of the reset core 0 uses      *)
(* FatFs and the SD card; no FWUP job runs on core 1 then.                 *)
StorageHasOneOwner ==
  pc0 \in {"lent", "clean", "cleanwait", "takeback", "teardown",
           "reclaim", "reclaimwait", "glphase"} =>
    ~(pc1 = "run" /\ req[slot1] = "FWUP")

(* Every accepted request is answered or its lifetime ends: whatever core  *)
(* 1 does to it, core 0 comes round to post the result.                    *)
EventuallyAnswered ==
  \A r \in Reqs :
    (born[r] = generation /\ r \notin answered)
      ~> (r \in answered \/ born[r] # generation)

(* Every internal job's marker comes down again, so the firmware updater   *)
(* and the module loader never stay busy for ever.                         *)
EventuallyRetired == \A op \in Internal : op \in pend ~> op \notin pend

(* Core 0 always gets back to its main loop, even with core 1 wedged: every*)
(* wait of a restart, quiesce, clean, reclaim or reset gives up in time.   *)
MainLoopReached == (pc0 # "main") ~> (pc0 = "main")

(***************************************************************************)
(* What comments of the code say, and the code does not keep.              *)
(***************************************************************************)

(* scheduler.h on core1_park_request: only a faulted or stuck worker is    *)
(* cold-restarted.                                                         *)
OnlyFaultedOrStuckRestarted == pc0 = "park" => cause # "healthy"

(* core2.c on a fault with no task in flight: core 1 hangs until core 0    *)
(* notices the fault and resets it.                                        *)
HangIsReset == pc1 = "hang" ~> pc1 = "boot"
=============================================================================
