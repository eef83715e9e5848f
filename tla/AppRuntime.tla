------------------------------ MODULE AppRuntime ------------------------------
(***************************************************************************)
(* The ARM application runtime: zzapp_host.c, the deferred operations of   *)
(* zzapp_services.c and the arena of zzapp_loader.c, with the parts of the *)
(* scheduler and of the fault handler that stop or lose core 1.  Core 1    *)
(* loads, starts and hosts one app at a time; the timer IRQ stops it.      *)
(* Core 0 posts operations, watches core 1, and handles the Amiga reset.   *)
(* Time is left out: an age limit is a step that may come at any moment,   *)
(* and core 1 is silent exactly while it can take no timer IRQ.            *)
(***************************************************************************)
EXTENDS Naturals, FiniteSets

CONSTANTS MaxGen,      \* bound: loads of an app
          MaxResets,   \* bound: Amiga resets
          Wakes,       \* a core 1 silent for ZZAPP_WATCHDOG_US (2 s) may only be slow
          CommitLost   \* core 1 may be lost inside the host-visible commit window

ASSUME Bounds == MaxGen \in Nat /\ MaxResets \in Nat
ASSUME Switches == Wakes \in BOOLEAN /\ CommitLost \in BOOLEAN

Gen == 1..MaxGen
State == {"IDLE", "LOADING", "STARTING", "RUNNING", "FAULTED"}
Op == {"LOAD_BEGIN", "LOAD_CHUNK", "LOAD_END", "START"}

VARIABLES
  state,        \* g_state
  running,      \* g_coh->running
  faulted,      \* g_faulted: the teardown is claimed
  stop,         \* ZZAPP_LIFE_STOP_OFF
  commit,       \* g_host_visible_commit_active
  gen,          \* g_coh->generation
  owner,        \* g_owner of the host, as a generation, or 0
  loaded,       \* g_owner of the loader, as a generation, or 0
  arena,        \* generations that own an arena in the card pool
  defer,        \* the deferred operation
  startPending, \* start_pending
  reset,        \* reset_request, reset_ack and the resets so far
  slot,         \* a task slot of the scheduler
  restartReq,   \* core1_restart_request
  stream,       \* an audio stream whose decoder lives on core 1
  pc1, ctx,     \* core 1: where it is, and what a service tick interrupted
  pc0           \* core 0

life  == <<state, running, faulted, stop, commit>>
mem   == <<gen, owner, loaded, arena>>
ops   == <<defer, startPending>>
tasks == <<slot, restartReq, stream>>
vars  == <<life, mem, ops, reset, tasks, pc1, ctx, pc0>>

AppCode == {"app", "masked", "api", "commit"}
Tick == {"t1", "t2", "ttask", "t3"}
Teardown == {"publish", "end", "release", "unbound"}
Core1 == {"worker", "hook", "claim", "task", "ack", "run1", "run2", "exit1", "exit2",
          "exit3", "exit4", "hung", "parked"} \cup AppCode \cup Tick \cup Teardown
Watchdog == {"wpublish", "wrestart", "wend", "wrelease", "wunbound"}
Restart == {"rpublish", "rend", "rrelease", "runbound", "rrestart", "rcold"}
Core0 == {"poll", "wait", "quiesce"} \cup Watchdog \cup Restart

NoOp == [st |-> "IDLE", op |-> "START"]

TypeOK ==
  /\ state \in State /\ running \in BOOLEAN /\ faulted \in BOOLEAN
  /\ stop \in BOOLEAN /\ commit \in BOOLEAN
  /\ gen \in 0..MaxGen /\ owner \in 0..MaxGen /\ loaded \in 0..MaxGen
  /\ arena \subseteq Gen
  /\ defer \in [st : {"IDLE", "POSTED", "RUNNING", "DONE"}, op : Op]
  /\ startPending \in BOOLEAN
  /\ reset \in [req : BOOLEAN, ack : BOOLEAN, n : 0..MaxResets]
  /\ slot \in {"free", "queued", "claimed", "done", "failed"} /\ restartReq \in BOOLEAN
  /\ stream \in {"none", "live", "faulted", "dangling"}
  /\ pc1 \in Core1 /\ ctx \in {"app", "api", "commit", "worker"} /\ pc0 \in Core0

Init ==
  /\ state = "IDLE" /\ running = FALSE /\ faulted = FALSE /\ stop = FALSE /\ commit = FALSE
  /\ gen = 0 /\ owner = 0 /\ loaded = 0 /\ arena = {}
  /\ defer = NoOp /\ startPending = FALSE
  /\ reset = [req |-> FALSE, ack |-> FALSE, n |-> 0]
  /\ slot = "free" /\ restartReq = FALSE /\ stream = "none"
  /\ pc1 = "worker" /\ ctx = "worker" /\ pc0 = "poll"

----------------------------------------------------------------------------
(* Core 1 in the worker: zzapp_worker_hook, then a task.                   *)

Core1At(from, to) == pc1 = from /\ pc1' = to

StopRequested == reset.req \/ stop

(* drop_arena: the loader's owner gives up its memory; the host forgets it. *)
DropArena == /\ arena' = arena \ {loaded} /\ loaded' = 0 /\ owner' = 0
             /\ UNCHANGED gen

(* A pending START ends with an error.                                     *)
CancelStart ==
  /\ startPending' = FALSE
  /\ defer' = IF defer.st = "RUNNING" /\ defer.op = "START"
              THEN [defer EXCEPT !.st = "DONE"] ELSE defer

(* The reset branch of zzapp_worker_hook.  After a cold restart an app may *)
(* still count as running: then it is torn down here.                      *)
HookReset ==
  /\ pc1 = "worker" /\ reset.req /\ ctx' = "worker"
  /\ \/ /\ state \in {"LOADING", "STARTING"} /\ state' = "IDLE" /\ pc1' = "ack"
        /\ CancelStart /\ DropArena
        /\ UNCHANGED <<running, faulted>>
     \/ /\ state \notin {"LOADING", "STARTING"} /\ running /\ ~faulted
        /\ faulted' = TRUE /\ running' = FALSE /\ pc1' = "publish"
        /\ UNCHANGED <<state, mem, ops>>
     \/ /\ state \notin {"LOADING", "STARTING"} /\ (running => faulted) /\ pc1' = "ack"
        /\ UNCHANGED <<state, running, faulted, mem, ops>>
  /\ UNCHANGED <<stop, commit, reset, tasks, pc0>>

HookAckKeeps ==           (* Mutant: a faulted app's arena is not looked at. *)
  /\ Core1At("ack", "claim")
  /\ defer' = NoOp /\ startPending' = FALSE
  /\ reset' = [reset EXCEPT !.ack = TRUE, !.req = FALSE]
  /\ UNCHANGED <<life, mem, tasks, ctx, pc0>>

(* The hook ends by forgetting what is open and then acknowledging.        *)
HookAck ==
  /\ Core1At("ack", "claim")
  /\ IF state = "FAULTED" THEN state' = "IDLE" /\ DropArena
                          ELSE UNCHANGED <<state, mem>>
  /\ defer' = NoOp /\ startPending' = FALSE
  /\ reset' = [reset EXCEPT !.ack = TRUE, !.req = FALSE]
  /\ UNCHANGED <<running, faulted, stop, commit, tasks, ctx, pc0>>

(* zzapp_services_poll runs a posted operation, from the hook or a tick.   *)
Polling(op) ==
  /\ \/ pc1 = "worker" /\ ~reset.req /\ pc1' = "hook"
     \/ pc1 = "t1" /\ pc1' = "t2"
  /\ defer.st = "POSTED" /\ defer.op = op
  /\ UNCHANGED <<faulted, commit, reset, tasks, ctx, pc0>>

Done == defer' = [defer EXCEPT !.st = "DONE"]

PollNothing ==
  /\ \/ pc1 = "worker" /\ ~reset.req /\ pc1' = "hook"
     \/ pc1 = "t1" /\ pc1' = "t2"
  /\ defer.st # "POSTED"
  /\ UNCHANGED <<life, mem, ops, reset, tasks, ctx, pc0>>

(* LOAD_BEGIN: a new generation with an arena of its own, unless an app is *)
(* there already or the pool has no room.                                  *)
LoadBegin ==
  /\ Polling("LOAD_BEGIN") /\ Done
  /\ \/ /\ state = "IDLE"
        /\ gen' = gen + 1 /\ loaded' = gen' /\ owner' = gen' /\ arena' = arena \cup {gen'}
        /\ running' = FALSE /\ stop' = FALSE /\ state' = "LOADING"
     \/ UNCHANGED <<mem, running, stop, state>>
  /\ UNCHANGED startPending

LoadChunk == Polling("LOAD_CHUNK") /\ Done /\ UNCHANGED <<life, mem, startPending>>

(* LOAD_END: an image the loader rejects gives the arena back.             *)
LoadEnd ==
  /\ Polling("LOAD_END") /\ Done
  /\ \/ state = "LOADING" /\ state' = "IDLE" /\ DropArena
     \/ UNCHANGED <<state, mem>>
  /\ UNCHANGED <<running, stop, startPending>>

(* START stays open until run_app has entered the app or has failed.       *)
Start ==
  /\ Polling("START")
  /\ IF state \in {"LOADING", "STARTING"}
     THEN startPending' = TRUE /\ defer' = [defer EXCEPT !.st = "RUNNING"]
     ELSE Done /\ UNCHANGED startPending
  /\ UNCHANGED <<state, running, stop, mem>>

HookStopForgets ==        (* Mutant: the open START is not answered. *)
  /\ Core1At("hook", "claim") /\ state = "LOADING" /\ StopRequested
  /\ startPending' = FALSE /\ UNCHANGED defer /\ DropArena /\ state' = "IDLE"
  /\ UNCHANGED <<running, faulted, stop, commit, reset, tasks, ctx, pc0>>

(* The rest of the hook: stop while loading, take a start, or go on.       *)
HookStop ==
  /\ Core1At("hook", "claim") /\ state = "LOADING" /\ StopRequested
  /\ CancelStart /\ DropArena /\ state' = "IDLE"
  /\ UNCHANGED <<running, faulted, stop, commit, reset, tasks, ctx, pc0>>

HookStart ==
  /\ Core1At("hook", "run1") /\ state = "LOADING" /\ ~StopRequested /\ startPending
  /\ startPending' = FALSE /\ state' = "STARTING"
  /\ UNCHANGED <<running, faulted, stop, commit, mem, defer, reset, tasks, ctx, pc0>>

HookDone ==
  /\ Core1At("hook", "claim") /\ (state = "LOADING" => ~StopRequested /\ ~startPending)
  /\ UNCHANGED <<life, mem, ops, reset, tasks, ctx, pc0>>

WorkerTask ==
  /\ Core1At("claim", "task") /\ slot = "queued" /\ slot' = "claimed"
  /\ UNCHANGED <<life, mem, ops, reset, restartReq, stream, ctx, pc0>>

WorkerIdle ==
  /\ Core1At("claim", "worker") /\ slot # "queued"
  /\ UNCHANGED <<life, mem, ops, reset, tasks, ctx, pc0>>

(* A task ends and its slot is completed, in the worker or in a tick.  The *)
(* task may have been a stream's first decode, which makes its decoder.    *)
TaskDone ==
  /\ Core1At("task", "worker") \/ Core1At("ttask", "t3")
  /\ slot' = "done" /\ stream' \in {stream, IF stream = "none" THEN "live" ELSE stream}
  /\ UNCHANGED <<life, mem, ops, reset, restartReq, ctx, pc0>>

TaskFaultHeld ==          (* Mutant: the slot in flight is not failed. *)
  /\ pc1 \in {"task", "ttask"} /\ pc1' = "parked" /\ pc0 \notin {"wait", "quiesce"}
  /\ slot' = slot /\ restartReq' = TRUE
  /\ UNCHANGED <<life, mem, ops, reset, stream, ctx, pc0>>

TaskFaultUnwinds ==       (* Mutant: core 1 also tears the app down. *)
  /\ pc1 \in {"task", "ttask"} /\ pc0 \notin {"wait", "quiesce"}
  /\ pc1' = IF running THEN "publish" ELSE "parked"
  /\ slot' = "failed" /\ restartReq' = TRUE
  /\ UNCHANGED <<life, mem, ops, reset, stream, ctx, pc0>>

(* record_fault with a task in flight fails the task, asks for a restart   *)
(* and parks.  During an Amiga reset this is left to module Scheduler.     *)
TaskFault ==
  /\ pc1 \in {"task", "ttask"} /\ pc1' = "parked" /\ pc0 \notin {"wait", "quiesce"}
  /\ slot' = "failed" /\ restartReq' = TRUE
  /\ UNCHANGED <<life, mem, ops, reset, stream, ctx, pc0>>

----------------------------------------------------------------------------
(* Core 1 in run_app and in the app.                                       *)

(* No image, no heap or no argv: start_failed.                             *)
StartFailed ==
  /\ Core1At("run1", "claim")
  /\ state' = "FAULTED" /\ Done /\ DropArena
  /\ UNCHANGED <<running, faulted, stop, commit, startPending, reset, tasks, ctx, pc0>>

RunApp ==
  /\ Core1At("run1", "run2")
  /\ faulted' = FALSE /\ running' = TRUE
  /\ UNCHANGED <<state, stop, commit, mem, ops, reset, tasks, ctx, pc0>>

StartEntered ==
  /\ Core1At("run2", "app")
  /\ state' = "RUNNING" /\ Done
  /\ UNCHANGED <<running, faulted, stop, commit, mem, startPending, reset, tasks, ctx, pc0>>

(* What the app does: call the firmware, mask IRQs, return to the host.    *)
AppMoves ==
  /\ \/ pc1 = "app" /\ pc1' \in {"api", "masked", "exit1"}
     \/ pc1 = "masked" /\ pc1' \in {"app", "exit1"}
          /\ (Wakes \/ pc0 \notin {"wpublish", "wrestart"})
     \/ pc1 = "api" /\ pc1' = "app"
  /\ UNCHANGED <<life, mem, ops, reset, tasks, ctx, pc0>>

(* zzapp_host_commit_begin and _end around a host-visible resource.        *)
CommitBegin ==
  /\ Core1At("api", "commit") /\ commit' = TRUE
  /\ UNCHANGED <<state, running, faulted, stop, mem, ops, reset, tasks, ctx, pc0>>

CommitKept ==             (* Mutant: the end of the window is not marked. *)
  /\ Core1At("commit", "api") /\ UNCHANGED commit
  /\ UNCHANGED <<state, running, faulted, stop, mem, ops, reset, tasks, ctx, pc0>>

CommitEnd ==
  /\ Core1At("commit", "api") /\ commit' = FALSE
  /\ UNCHANGED <<state, running, faulted, stop, mem, ops, reset, tasks, ctx, pc0>>

(* A fault at an app pc while the app counts as running is the app's: its  *)
(* teardown runs here.                                                     *)
AppFault ==
  /\ pc1 \in {"app", "masked"} /\ running
  /\ ctx' = "app" /\ pc1' = IF faulted THEN "exit1" ELSE "publish"
  /\ faulted' = TRUE /\ running' = FALSE
  /\ UNCHANGED <<state, stop, commit, mem, ops, reset, tasks, pc0>>

(* Any other fault while no task is in flight hangs core 1.                *)
FirmwareFault ==
  /\ \/ pc1 \in {"app", "masked"} /\ ~running
     \/ pc1 = "api"
     \/ pc1 = "commit" /\ CommitLost
  /\ pc1' = "hung"
  /\ UNCHANGED <<life, mem, ops, reset, tasks, ctx, pc0>>

----------------------------------------------------------------------------
(* The service tick, from the timer IRQ or from a wait inside an API call. *)

TickBegins ==
  /\ pc1 \in {"app", "api", "commit"} /\ running
  /\ ctx' = pc1 /\ pc1' = "t1"
  /\ UNCHANGED <<life, mem, ops, reset, tasks, pc0>>

(* scheduler_core1_service_once, never inside the commit window.           *)
TickTask ==
  /\ Core1At("t2", "ttask") /\ ctx # "commit" /\ slot = "queued" /\ slot' = "claimed"
  /\ UNCHANGED <<life, mem, ops, reset, restartReq, stream, ctx, pc0>>

TickNoTask ==
  /\ Core1At("t2", "t3")
  /\ (ctx = "app" => slot # "queued")
  /\ UNCHANGED <<life, mem, ops, reset, tasks, ctx, pc0>>

(* force_stop: at once for a reset; after the grace for a stop; without    *)
(* either when the app has been silent or in one call for too long.        *)
TickForces ==
  /\ pc1 = "t3" /\ ~commit /\ (running \/ StopRequested)
  /\ pc1' = IF faulted THEN ctx ELSE "publish"
  /\ faulted' = TRUE /\ running' = IF faulted THEN running ELSE FALSE
  /\ UNCHANGED <<state, stop, commit, mem, ops, reset, tasks, ctx, pc0>>

TickReturns ==
  /\ pc1 = "t3" /\ ~(~commit /\ reset.req) /\ pc1' = ctx /\ ctx' = "worker"
  /\ UNCHANGED <<life, mem, ops, reset, tasks, pc0>>

----------------------------------------------------------------------------
(* The teardown of force_stop, on core 1 or, for a parked core 1, core 0.  *)

PublishFaulted ==
  /\ state' = "FAULTED"
  /\ UNCHANGED <<running, faulted, stop, commit, mem, ops, reset, tasks>>
Stutter == UNCHANGED <<life, mem, ops, reset, tasks>>
ReleaseOwner ==
  /\ arena' = arena \ {owner}
  /\ UNCHANGED <<life, gen, owner, loaded, ops, reset, tasks>>
Unbound ==
  /\ owner' = 0
  /\ UNCHANGED <<life, gen, loaded, arena, ops, reset, tasks>>

ForceStop ==
  /\ \/ Core1At("publish", "end") /\ PublishFaulted /\ UNCHANGED ctx
     \/ Core1At("end", "release") /\ Stutter /\ UNCHANGED ctx
     \/ Core1At("release", "unbound") /\ ReleaseOwner /\ UNCHANGED ctx
     \/ Core1At("unbound", IF ctx = "worker" THEN "ack" ELSE "exit1") /\ Unbound
        /\ ctx' = "worker"
  /\ UNCHANGED pc0

(* The tail of run_app, where exit, force_stop and a fault all arrive.     *)
Exit ==
  /\ Core1At("exit1", "exit2") /\ running' = FALSE
  /\ UNCHANGED <<state, faulted, stop, commit, mem, ops, reset, tasks, ctx, pc0>>
ExitFaulted ==
  /\ Core1At("exit2", "claim") /\ faulted /\ Stutter /\ UNCHANGED <<ctx, pc0>>
ExitEnd ==
  /\ Core1At("exit2", "exit3") /\ ~faulted /\ Stutter /\ UNCHANGED <<ctx, pc0>>
ExitPublish ==
  /\ Core1At("exit3", "exit4") /\ state' = "IDLE"
  /\ UNCHANGED <<running, faulted, stop, commit, mem, ops, reset, tasks, ctx, pc0>>
ExitRelease ==
  /\ Core1At("exit4", "claim") /\ DropArena
  /\ UNCHANGED <<life, ops, reset, tasks, ctx, pc0>>

----------------------------------------------------------------------------
(* Core 0: the mailbox.                                                    *)

AtPoll == pc0 = "poll" /\ UNCHANGED <<pc1, ctx, pc0>>

Post ==
  /\ AtPoll /\ defer.st = "IDLE"
  /\ \E op \in Op : /\ op = "LOAD_BEGIN" => gen < MaxGen
                    /\ defer' = [st |-> "POSTED", op |-> op]
  /\ UNCHANGED <<life, mem, startPending, reset, tasks>>

Harvest ==
  /\ AtPoll /\ defer.st = "DONE" /\ defer' = NoOp
  /\ UNCHANGED <<life, mem, startPending, reset, tasks>>

(* APP_STOP for the current generation, or the launcher's lease runs out.  *)
StopApp ==
  /\ AtPoll /\ gen > 0 /\ stop' = TRUE
  /\ UNCHANGED <<state, running, faulted, commit, mem, ops, reset, tasks>>
Lease ==
  /\ AtPoll /\ running /\ state = "RUNNING" /\ stop' = TRUE
  /\ UNCHANGED <<state, running, faulted, commit, mem, ops, reset, tasks>>

(* APP_STATUS shows a fault once; after 2 s it goes without being read.    *)
FaultSeen ==
  /\ AtPoll /\ state = "FAULTED" /\ state' = "IDLE"
  /\ UNCHANGED <<running, faulted, stop, commit, mem, ops, reset, tasks>>

Enqueue ==
  /\ AtPoll /\ slot = "free" /\ slot' = "queued"
  /\ UNCHANGED <<life, mem, ops, reset, restartReq, stream>>
HarvestTask ==
  /\ AtPoll /\ slot \in {"done", "failed"} /\ slot' = "free"
  /\ UNCHANGED <<life, mem, ops, reset, restartReq, stream>>
CloseStream ==
  /\ AtPoll /\ stream \in {"live", "faulted"} /\ stream' = "none"
  /\ UNCHANGED <<life, mem, ops, reset, slot, restartReq>>

----------------------------------------------------------------------------
(* Core 0: the app watchdog of zzapp_core0_poll.                           *)

Core0At(from, to) == pc0 = from /\ pc0' = to

(* No tick and no progress: hung, IRQs masked by the app, or masked in an  *)
(* IRQ tick whose SDK task runs for 2 s.  The last two may end just as     *)
(* core 0 acts.                                                            *)
Silent1 == \/ pc1 \in {"hung", "masked"}
           \/ Wakes /\ pc1 = "ttask" /\ ctx = "app"

WatchdogFires ==
  /\ Core0At("poll", "wpublish") /\ running /\ Silent1
  /\ running' = FALSE /\ faulted' = TRUE
  /\ UNCHANGED <<state, stop, commit, mem, ops, reset, tasks, pc1, ctx>>

WatchdogFreesFirst ==     (* Mutant: the arena goes before core 1 is stopped. *)
  /\ Core0At("wpublish", "wrestart") /\ state' = "FAULTED"
  /\ arena' = arena \ {owner} /\ owner' = 0
  /\ UNCHANGED <<running, faulted, stop, commit, gen, loaded, ops, reset, tasks, pc1, ctx>>

WatchdogPublish ==
  /\ Core0At("wpublish", "wrestart") /\ PublishFaulted /\ UNCHANGED <<pc1, ctx>>

(* core1_cold_restart, whatever core 1 is doing by now: the reclaim in it  *)
(* frees the decoders core 1 holds.                                        *)
Restarted1 ==
  /\ pc1' = "worker" /\ ctx' = "worker"
  /\ stream' = IF stream = "live" THEN "dangling" ELSE stream
  /\ UNCHANGED <<life, mem, ops, reset, slot, restartReq>>

WatchdogRestart == Core0At("wrestart", "wend") /\ Restarted1

WatchdogTeardown ==
  /\ \/ Core0At("wend", "wrelease") /\ Stutter
     \/ Core0At("wrelease", "wunbound") /\ ReleaseOwner
     \/ Core0At("wunbound", "poll") /\ Unbound
  /\ UNCHANGED <<pc1, ctx>>

(* scheduler_core0_poll serves a restart request: zzapp_on_core1_restart   *)
(* runs force_stop on core 0, the decoding sessions are poisoned, then     *)
(* core 1 starts again.                                                    *)
ServeRestart ==
  /\ pc0 = "poll" /\ restartReq /\ restartReq' = FALSE
  /\ IF running /\ ~faulted
     THEN pc0' = "rpublish" /\ running' = FALSE /\ faulted' = TRUE
     ELSE pc0' = "rrestart" /\ UNCHANGED <<running, faulted>>
  /\ UNCHANGED <<state, stop, commit, mem, ops, reset, slot, stream, pc1, ctx>>

RestartTeardown ==
  /\ \/ Core0At("rpublish", "rend") /\ PublishFaulted
     \/ Core0At("rend", "rrelease") /\ Stutter
     \/ Core0At("rrelease", "runbound") /\ ReleaseOwner
     \/ Core0At("runbound", "rrestart") /\ Unbound
  /\ UNCHANGED <<pc1, ctx>>

PoisonSessions ==
  /\ Core0At("rrestart", "rcold") /\ stream' = IF stream = "live" THEN "faulted" ELSE stream
  /\ UNCHANGED <<life, mem, ops, reset, slot, restartReq, pc1, ctx>>

ColdRestart ==
  Core0At("rcold", "poll") /\ Restarted1

----------------------------------------------------------------------------
(* Core 0: the Amiga reset.                                                *)

ResetBegins ==
  /\ pc0 = "poll" /\ ~restartReq /\ reset.n < MaxResets
  /\ reset' = [req |-> TRUE, ack |-> FALSE, n |-> reset.n + 1]
  /\ pc0' = IF running THEN "wait" ELSE "quiesce"
  /\ UNCHANGED <<life, mem, ops, tasks, pc1, ctx>>

(* Core 1 will not answer: silent, or in an app no tick may stop.          *)
Unanswering == Silent1 \/ (CommitLost /\ commit)

(* The wait ends with the acknowledgement or, without one, after 1 s.      *)
ResetWaited ==
  /\ Core0At("wait", "quiesce") /\ (reset.ack \/ Unanswering)
  /\ UNCHANGED <<life, mem, ops, reset, tasks, pc1, ctx>>

(* scheduler_quiesce_for_reset: the worker answers between tasks; a core 1 *)
(* that does not is restarted.  sdk_mailbox_init then drops the streams.   *)
Quiesced ==
  /\ Core0At("quiesce", "poll") /\ (pc1 = "worker" \/ Unanswering)
  /\ pc1' = "worker" /\ ctx' = "worker" /\ stream' = "none"
  /\ UNCHANGED <<life, mem, ops, reset, slot, restartReq>>

----------------------------------------------------------------------------
Worker1 == HookReset \/ HookAck \/ PollNothing \/ LoadBegin \/ LoadChunk \/ LoadEnd
           \/ Start \/ HookStop \/ HookStart \/ HookDone \/ WorkerTask \/ WorkerIdle
           \/ TaskDone
Run1 == StartFailed \/ RunApp \/ StartEntered \/ ForceStop
        \/ Exit \/ ExitFaulted \/ ExitEnd \/ ExitPublish \/ ExitRelease
Tick1 == TickTask \/ TickNoTask
Mailbox0 == Post \/ StopApp \/ Lease \/ FaultSeen \/ Enqueue \/ CloseStream
Recover0 == WatchdogFires \/ WatchdogPublish \/ WatchdogRestart \/ WatchdogTeardown
            \/ ServeRestart \/ RestartTeardown \/ PoisonSessions
            \/ ColdRestart \/ ResetWaited \/ Quiesced

Next ==
  \/ Worker1 \/ Run1 \/ AppMoves \/ CommitBegin \/ CommitEnd
  \/ TaskFault \/ AppFault \/ FirmwareFault
  \/ TickBegins \/ Tick1 \/ TickForces \/ TickReturns
  \/ Mailbox0 \/ Harvest \/ HarvestTask \/ Recover0 \/ ResetBegins

Spec == Init /\ [][Next]_vars

(* Core 1 executes unless it is hung or parked, core 0's loop polls, and   *)
(* the timer IRQ keeps coming.  Strong fairness stands for elapsed time:   *)
(* the commit window is left between ticks, some ticks fall outside it,    *)
(* the grace of a stop or the limit of a silent app does run out, and core *)
(* 0 harvests between two restarts.                                        *)
FairSpec ==
  /\ Spec
  /\ WF_vars(Worker1 \/ Run1 \/ Tick1 \/ TickReturns)
  /\ SF_vars(CommitEnd) /\ SF_vars(TickBegins /\ ~commit) /\ SF_vars(TickForces)
  /\ WF_vars(Recover0) /\ SF_vars(Harvest)

----------------------------------------------------------------------------
(* Whoever executes in the app, or is about to return into it, has its     *)
(* arena: "core 0 cold-restarts core 1 before reclaiming app state".       *)
(* And a generation's arena is given back exactly once and none is lost,   *)
(* on every way out of a load or a run: with both cores outside a          *)
(* teardown, an arena is held for the app that is loading or running and   *)
(* no other.                                                               *)
ArenaFollowsApp ==
  /\ pc1 \in AppCode \cup {"run2"} \/ (pc1 \in Tick /\ running) => gen \in arena
  /\ (pc0 \notin Watchdog \cup Restart
        /\ pc1 \notin Teardown \cup {"exit1", "exit2", "exit3", "exit4", "ack", "hung",
                                    "parked"})
     => arena = IF state \in {"LOADING", "STARTING", "RUNNING"} THEN {gen} ELSE {}

(* "Core 1 and core 0 can both stop the app; exactly one of them runs the  *)
(* teardown": the two cores are never both inside it.                      *)
OneTeardown ==
  ~ /\ pc1 \in Teardown \cup {"exit3", "exit4"}
    /\ pc0 \in {"wrelease", "wunbound"} \cup Restart

(* When core 1 acknowledges a reset nothing of the app is left.            *)
ResetClean ==
  [][reset'.ack /\ ~reset.ack =>
       arena' = {} /\ ~running' /\ state' = "IDLE" /\ defer'.st = "IDLE" /\ ~startPending']_vars

(* A slot claimed by core 1 is being executed by core 1: no restart of     *)
(* core 1 strands a request.                                               *)
ClaimIsExecuted == slot = "claimed" => pc1 \in {"task", "ttask"}

(* "Drop the dangling references in BOTH branches so core 0 never destroys *)
(* against reclaimed memory": no stream keeps a decoder a restart freed.   *)
StreamsPoisoned == stream # "dangling"

(* A stop request, of the launcher, a lease or a reset, stops the app,     *)
(* whatever it does and wherever core 1 is lost.                           *)
StopStops == StopRequested /\ running ~> ~running

(* A deferred operation leaves the mailbox again.                          *)
OperationAnswered == defer.st # "IDLE" ~> defer.st = "IDLE"
===============================================================================
