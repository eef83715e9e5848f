-------------------------- MODULE AppRuntimeProofs --------------------------
(***************************************************************************)
(* Proofs about AppRuntime, for every number of loads and of Amiga resets. *)
(* What the two cores do to the app hangs together through two questions:  *)
(* where the app's arena and its state stand at each place core 1 can be   *)
(* (Where), and what core 0 may rely on while it recovers (Watching,       *)
(* Unwinding).  The theorems that need the latter assume that a silent     *)
(* core 1 is lost, and never lost inside the commit window.                *)
(***************************************************************************)
EXTENDS AppRuntime, TLAPS

(* TypeOK in the parts the proofs take one by one.                         *)
Places ==
  /\ state \in State
  /\ slot \in {"free", "queued", "claimed", "done", "failed"}
  /\ stream \in {"none", "live", "faulted", "dangling"}
  /\ pc1 \in Core1 /\ ctx \in {"app", "api", "commit", "worker"} /\ pc0 \in Core0
Memory ==
  /\ gen \in 0..MaxGen /\ owner \in 0..MaxGen /\ loaded \in 0..MaxGen
  /\ arena \subseteq Gen
Records ==
  /\ defer \in [st : {"IDLE", "POSTED", "RUNNING", "DONE"}, op : Op]
  /\ reset \in [req : BOOLEAN, ack : BOOLEAN, n : 0..MaxResets]
Flags ==
  /\ running \in BOOLEAN /\ faulted \in BOOLEAN /\ stop \in BOOLEAN
  /\ commit \in BOOLEAN /\ startPending \in BOOLEAN /\ restartReq \in BOOLEAN

(* A load is posted only while the bound leaves a generation for it.       *)
PostsFit == defer.st = "POSTED" /\ defer.op = "LOAD_BEGIN" => gen < MaxGen

TypeInv == TypeOK /\ PostsFit

----------------------------------------------------------------------------
(* The life of the app: it holds the arena of its generation, or nothing.  *)
HasArena == gen \in Gen /\ arena = {gen} /\ owner = gen /\ loaded = gen
Alive == state = "RUNNING" /\ running /\ ~faulted /\ HasArena
Loading == state = "LOADING" /\ ~running /\ HasArena
Dead == state \in {"IDLE", "FAULTED"} /\ ~running /\ arena = {}
Resting == Alive \/ Loading \/ Dead
Claimed == ~running /\ faulted /\ HasArena

(* A restart is asked for by a core 1 that has parked, and only then.      *)
Restarting ==
  /\ restartReq \/ pc0 \in Restart => pc1 = "parked"
  /\ pc0 \in {"wait", "quiesce"} \cup Restart => ~restartReq

(* A reset that outlasts core 0's wait finds core 1 between its restart    *)
(* and its acknowledgement, so it never meets core 0's own recovery.       *)
Resetting ==
  /\ pc1 = "ack" \/ (pc1 \in Teardown /\ ctx = "worker") => reset.req
  /\ pc0 \in Watchdog \cup Restart => ~reset.req
  /\ reset.req /\ pc0 = "poll" =>
       pc1 \in {"worker", "ack"} \/ (pc1 \in Teardown /\ ctx = "worker")

(* The watchdog: core 1 is lost until its restart, and afterwards in the   *)
(* worker with no app to run.                                              *)
Restarted == pc1 \in {"worker", "hook", "claim", "task", "parked"} /\ state = "FAULTED"
Watching ==
  /\ pc0 = "wpublish" => pc1 \in {"masked", "hung"} /\ Claimed
  /\ pc0 = "wrestart" => pc1 \in {"masked", "hung"} /\ Claimed /\ state = "FAULTED"
  /\ pc0 \in {"wend", "wrelease"} => Restarted /\ Claimed
  /\ pc0 = "wunbound" => Restarted /\ Dead

(* The teardown core 0 runs for a core 1 that has parked.                  *)
Unwinding ==
  /\ pc0 \in {"rpublish", "rend", "rrelease"} => Claimed
  /\ pc0 \in {"rend", "rrelease"} => state = "FAULTED"
  /\ pc0 = "runbound" => Dead
  /\ pc0 \in {"rrestart", "rcold"} => Resting

(* While core 0 is not recovering, where core 1 is tells what the app has. *)
Where ==
  pc0 \notin Watchdog \cup Restart =>
    /\ pc1 \in {"worker", "hook", "claim", "task", "parked"} => Resting
    /\ pc1 = "ack" => Dead
    /\ pc1 = "run1" => state = "STARTING" /\ ~running /\ HasArena
    /\ pc1 = "run2" => state = "STARTING" /\ running /\ ~faulted /\ HasArena
    /\ pc1 \in AppCode \cup Tick \cup {"hung"} => Alive
    /\ pc1 \in {"publish", "end", "release"} => Claimed
    /\ pc1 \in {"end", "release"} => state \in {"IDLE", "FAULTED"}
    /\ pc1 = "unbound" => Dead /\ faulted
    /\ pc1 = "exit1" => Alive \/ (Dead /\ faulted)
    /\ pc1 = "exit2" /\ faulted => Dead
    /\ (pc1 = "exit2" /\ ~faulted) \/ pc1 = "exit3"
         => state = "RUNNING" /\ ~running /\ ~faulted /\ HasArena
    /\ pc1 = "exit4" => state = "IDLE" /\ ~running /\ HasArena

TickContext == pc1 \in Tick => ctx \in {"app", "api", "commit"}

HostInv == /\ Restarting /\ Resetting /\ Watching /\ Unwinding /\ Where
           /\ TickContext /\ ClaimIsExecuted

----------------------------------------------------------------------------
(* Types hold at the start and are kept by every step, whatever the        *)
(* switches say.                                                           *)
LEMMA TypeInit == Init => TypeInv
<1> SUFFICES ASSUME Init PROVE TypeInv  OBVIOUS
<1>1. Places
  BY SMT DEF Init, Places, State, Core1, Core0, AppCode, Tick, Teardown,
       Watchdog, Restart
<1>2. Memory /\ PostsFit
  BY Bounds, SMT DEF Init, Memory, PostsFit, NoOp, Gen
<1>3. Records
  BY Bounds, SMT DEF Init, Records, NoOp, Op
<1>4. Flags
  BY Zenon DEF Init, Flags
<1> QED BY <1>1, <1>2, <1>3, <1>4 DEF TypeInv, TypeOK, Places, Memory, Records, Flags

(* A step that gives back an arena, the owner's or none.                   *)
LEMMA GivenBack ==
  ASSUME Memory, gen' = gen, loaded' = loaded, owner' \in {owner, 0},
         arena' \in {arena, arena \ {owner}}
  PROVE  Memory'
  BY Bounds, SMT DEF Memory

(* The acknowledgement of a reset leaves the record a record.              *)
LEMMA AckedReset ==
  ASSUME NEW r \in [req : BOOLEAN, ack : BOOLEAN, n : 0..MaxResets]
  PROVE  [r EXCEPT !.ack = TRUE, !.req = FALSE]
           \in [req : BOOLEAN, ack : BOOLEAN, n : 0..MaxResets]
  BY Zenon

LEMMA TypeStep == ASSUME TypeInv, [Next]_vars PROVE TypeInv'
<1>0. CASE UNCHANGED vars
  <2>1. /\ state' = state /\ running' = running /\ faulted' = faulted /\ stop' = stop
        /\ commit' = commit /\ gen' = gen /\ owner' = owner /\ loaded' = loaded
        /\ arena' = arena /\ defer' = defer /\ startPending' = startPending
        /\ reset' = reset /\ slot' = slot /\ restartReq' = restartReq
        /\ stream' = stream /\ pc1' = pc1 /\ ctx' = ctx /\ pc0' = pc0
    BY <1>0, SMT DEF vars, life, mem, ops, tasks
  <2>2. Places'
    BY <2>1, Zenon DEF TypeInv, TypeOK, Places
  <2>3. Memory' /\ PostsFit'
    BY <2>1, Zenon DEF TypeInv, TypeOK, Memory, PostsFit
  <2>4. Records'
    BY <2>1, Zenon DEF TypeInv, TypeOK, Records
  <2>5. Flags'
    BY <2>1, Zenon DEF TypeInv, TypeOK, Flags
  <2> QED BY <2>2, <2>3, <2>4, <2>5 DEF TypeInv, TypeOK, Places, Memory, Records, Flags
<1> USE Bounds DEF TypeInv, TypeOK, PostsFit, Places, Memory, Records, Flags, Gen,
      State, Op, Core1, Core0, AppCode, Tick, Teardown, Watchdog, Restart, vars, life,
      mem, ops, tasks
<1>1. CASE HookReset
  <2>1. Places'
    BY <1>1, SMT DEF HookReset, CancelStart, DropArena
  <2>2. Memory'
    BY <1>1, SMT DEF HookReset, CancelStart, DropArena
  <2>3. Records' /\ PostsFit'
    BY <1>1, SMT DEF HookReset, CancelStart, DropArena
  <2>4. Flags'
    BY <1>1, Zenon DEF HookReset, CancelStart, DropArena
  <2> QED BY <2>1, <2>2, <2>3, <2>4 DEF TypeInv, TypeOK
<1>2. CASE HookAck
  <2>1. Places'
    BY <1>2, SMT DEF HookAck, Core1At, DropArena, NoOp
  <2>2. Memory'
    BY <1>2, SMT DEF HookAck, Core1At, DropArena, NoOp
  <2>3. defer' = NoOp
    BY <1>2, Zenon DEF HookAck
  <2>4. reset' = [reset EXCEPT !.ack = TRUE, !.req = FALSE]
    BY <1>2, Zenon DEF HookAck
  <2>5. defer' \in [st : {"IDLE", "POSTED", "RUNNING", "DONE"}, op : Op] /\ PostsFit'
    BY <2>3, SMT DEF NoOp
  <2>6. reset' \in [req : BOOLEAN, ack : BOOLEAN, n : 0..MaxResets]
    BY <2>4, AckedReset
  <2>7. Flags'
    BY <1>2, Zenon DEF HookAck, Core1At, DropArena, NoOp
  <2> HIDE DEF Places, Memory, Flags
  <2> QED BY <2>1, <2>2, <2>5, <2>6, <2>7 DEF TypeInv, TypeOK, Places, Memory, Flags
<1>3. CASE PollNothing
  BY <1>3, SMT DEF PollNothing
<1>4. CASE LoadBegin
  <2>1. Places'
    BY <1>4, SMT DEF LoadBegin, Polling, Done
  <2>2. Memory'
    BY <1>4, SMT DEF LoadBegin, Polling, Done
  <2>3. Records' /\ PostsFit'
    BY <1>4, SMT DEF LoadBegin, Polling, Done
  <2>4. Flags'
    BY <1>4, Zenon DEF LoadBegin, Polling, Done
  <2> QED BY <2>1, <2>2, <2>3, <2>4 DEF TypeInv, TypeOK
<1>5. CASE LoadChunk
  BY <1>5, SMT DEF LoadChunk, Polling, Done
<1>6. CASE LoadEnd
  BY <1>6, SMT DEF LoadEnd, Polling, Done, DropArena
<1>7. CASE Start
  <2>1. Places'
    BY <1>7, SMT DEF Start, Polling, Done
  <2>2. Memory'
    BY <1>7, SMT DEF Start, Polling, Done
  <2>3. Records' /\ PostsFit'
    BY <1>7, SMT DEF Start, Polling, Done
  <2>4. Flags'
    BY <1>7, Zenon DEF Start, Polling, Done
  <2> QED BY <2>1, <2>2, <2>3, <2>4 DEF TypeInv, TypeOK
<1>8. CASE HookStop
  <2>1. Places'
    BY <1>8, SMT DEF HookStop, Core1At, StopRequested, CancelStart, DropArena
  <2>2. Memory'
    BY <1>8, SMT DEF HookStop, Core1At, StopRequested, CancelStart, DropArena
  <2>3. Records' /\ PostsFit'
    BY <1>8, SMT DEF HookStop, Core1At, StopRequested, CancelStart, DropArena
  <2>4. Flags'
    BY <1>8, Zenon DEF HookStop, Core1At, StopRequested, CancelStart, DropArena
  <2> QED BY <2>1, <2>2, <2>3, <2>4 DEF TypeInv, TypeOK
<1>9. CASE HookStart
  <2>1. Places'
    BY <1>9, SMT DEF HookStart, Core1At, StopRequested
  <2>2. Memory'
    BY <1>9, SMT DEF HookStart, Core1At, StopRequested
  <2>3. Records' /\ PostsFit'
    BY <1>9, SMT DEF HookStart, Core1At, StopRequested
  <2>4. Flags'
    BY <1>9, Zenon DEF HookStart, Core1At, StopRequested
  <2> QED BY <2>1, <2>2, <2>3, <2>4 DEF TypeInv, TypeOK
<1>10. CASE HookDone
  BY <1>10, SMT DEF HookDone, Core1At, StopRequested
<1>11. CASE WorkerTask
  BY <1>11, SMT DEF WorkerTask, Core1At
<1>12. CASE WorkerIdle
  BY <1>12, SMT DEF WorkerIdle, Core1At
<1>13. CASE TaskDone
  BY <1>13, SMT DEF TaskDone, Core1At
<1>14. CASE StartFailed
  BY <1>14, SMT DEF StartFailed, Core1At, Done, DropArena
<1>15. CASE RunApp
  <2>1. Places'
    BY <1>15, SMT DEF RunApp, Core1At
  <2>2. Memory'
    BY <1>15, SMT DEF RunApp, Core1At
  <2>3. Records' /\ PostsFit'
    BY <1>15, SMT DEF RunApp, Core1At
  <2>4. Flags'
    BY <1>15, Zenon DEF RunApp, Core1At
  <2> QED BY <2>1, <2>2, <2>3, <2>4 DEF TypeInv, TypeOK
<1>16. CASE StartEntered
  BY <1>16, SMT DEF StartEntered, Core1At, Done
<1>17. CASE ForceStop
  <2>1. Places'
    BY <1>17, SMT DEF ForceStop, Core1At, PublishFaulted, Stutter,
         ReleaseOwner, Unbound
  <2>2. Memory'
    <3>1. gen' = gen /\ loaded' = loaded /\ owner' \in {owner, 0}
          /\ arena' \in {arena, arena \ {owner}}
      BY <1>17, SMT DEF ForceStop, Core1At, PublishFaulted, Stutter,
           ReleaseOwner, Unbound
    <3> HIDE DEF Memory, TypeInv
    <3>2. Memory
      BY DEF Memory, TypeInv, TypeOK
    <3> QED BY <3>1, <3>2, GivenBack
  <2>3. Records' /\ PostsFit'
    BY <1>17, SMT DEF ForceStop, Core1At, PublishFaulted, Stutter,
         ReleaseOwner, Unbound
  <2>4. Flags'
    BY <1>17, Zenon DEF ForceStop, Core1At, PublishFaulted, Stutter,
         ReleaseOwner, Unbound
  <2> QED BY <2>1, <2>2, <2>3, <2>4 DEF TypeInv, TypeOK
<1>18. CASE Exit
  <2>1. Places'
    BY <1>18, SMT DEF Exit, Core1At
  <2>2. Memory'
    BY <1>18, SMT DEF Exit, Core1At
  <2>3. Records' /\ PostsFit'
    BY <1>18, SMT DEF Exit, Core1At
  <2>4. Flags'
    BY <1>18, Zenon DEF Exit, Core1At
  <2> QED BY <2>1, <2>2, <2>3, <2>4 DEF TypeInv, TypeOK
<1>19. CASE ExitFaulted
  BY <1>19, SMT DEF ExitFaulted, Core1At, Stutter
<1>20. CASE ExitEnd
  BY <1>20, SMT DEF ExitEnd, Core1At, Stutter
<1>21. CASE ExitPublish
  BY <1>21, SMT DEF ExitPublish, Core1At
<1>22. CASE ExitRelease
  BY <1>22, SMT DEF ExitRelease, Core1At, DropArena
<1>23. CASE AppMoves
  BY <1>23, SMT DEF AppMoves
<1>24. CASE CommitBegin
  BY <1>24, SMT DEF CommitBegin, Core1At
<1>25. CASE CommitEnd
  <2>1. Places'
    BY <1>25, SMT DEF CommitEnd, Core1At
  <2>2. Memory'
    BY <1>25, SMT DEF CommitEnd, Core1At
  <2>3. Records' /\ PostsFit'
    BY <1>25, SMT DEF CommitEnd, Core1At
  <2>4. Flags'
    BY <1>25, Zenon DEF CommitEnd, Core1At
  <2> QED BY <2>1, <2>2, <2>3, <2>4 DEF TypeInv, TypeOK
<1>26. CASE TaskFault
  BY <1>26, SMT DEF TaskFault
<1>27. CASE AppFault
  <2>1. Places'
    BY <1>27, SMT DEF AppFault
  <2>2. Memory'
    BY <1>27, SMT DEF AppFault
  <2>3. Records' /\ PostsFit'
    BY <1>27, SMT DEF AppFault
  <2>4. Flags'
    BY <1>27, Zenon DEF AppFault
  <2> QED BY <2>1, <2>2, <2>3, <2>4 DEF TypeInv, TypeOK
<1>28. CASE FirmwareFault
  BY <1>28, SMT DEF FirmwareFault
<1>29. CASE TickBegins
  BY <1>29, SMT DEF TickBegins
<1>30. CASE TickTask
  BY <1>30, SMT DEF TickTask, Core1At
<1>31. CASE TickNoTask
  BY <1>31, SMT DEF TickNoTask, Core1At
<1>32. CASE TickForces
  <2>1. Places'
    BY <1>32, SMT DEF TickForces, StopRequested
  <2>2. Memory'
    BY <1>32, SMT DEF TickForces, StopRequested
  <2>3. Records' /\ PostsFit'
    BY <1>32, SMT DEF TickForces, StopRequested
  <2>4. Flags'
    BY <1>32, Zenon DEF TickForces, StopRequested
  <2> QED BY <2>1, <2>2, <2>3, <2>4 DEF TypeInv, TypeOK
<1>33. CASE TickReturns
  BY <1>33, SMT DEF TickReturns
<1>34. CASE Post
  BY <1>34, SMT DEF Post, AtPoll
<1>35. CASE StopApp
  BY <1>35, SMT DEF StopApp, AtPoll
<1>36. CASE Lease
  BY <1>36, SMT DEF Lease, AtPoll
<1>37. CASE FaultSeen
  BY <1>37, SMT DEF FaultSeen, AtPoll
<1>38. CASE Enqueue
  BY <1>38, SMT DEF Enqueue, AtPoll
<1>39. CASE CloseStream
  BY <1>39, SMT DEF CloseStream, AtPoll
<1>40. CASE Harvest
  BY <1>40, SMT DEF Harvest, AtPoll, NoOp
<1>41. CASE HarvestTask
  BY <1>41, SMT DEF HarvestTask, AtPoll
<1>42. CASE WatchdogFires
  <2>1. Places'
    BY <1>42, SMT DEF WatchdogFires, Core0At, Silent1
  <2>2. Memory'
    BY <1>42, SMT DEF WatchdogFires, Core0At, Silent1
  <2>3. Records' /\ PostsFit'
    BY <1>42, SMT DEF WatchdogFires, Core0At, Silent1
  <2>4. Flags'
    BY <1>42, Zenon DEF WatchdogFires, Core0At, Silent1
  <2> QED BY <2>1, <2>2, <2>3, <2>4 DEF TypeInv, TypeOK
<1>43. CASE WatchdogPublish
  BY <1>43, SMT DEF WatchdogPublish, Core0At, PublishFaulted
<1>44. CASE WatchdogRestart
  BY <1>44, SMT DEF WatchdogRestart, Core0At, Restarted1
<1>45. CASE WatchdogTeardown
  <2>1. Places'
    BY <1>45, SMT DEF WatchdogTeardown, Core0At, Stutter, ReleaseOwner, Unbound
  <2>2. Memory'
    <3>1. gen' = gen /\ loaded' = loaded /\ owner' \in {owner, 0}
          /\ arena' \in {arena, arena \ {owner}}
      BY <1>45, SMT DEF WatchdogTeardown, Core0At, Stutter, ReleaseOwner,
           Unbound
    <3> HIDE DEF Memory, TypeInv
    <3>2. Memory
      BY DEF Memory, TypeInv, TypeOK
    <3> QED BY <3>1, <3>2, GivenBack
  <2>3. Records' /\ PostsFit'
    BY <1>45, SMT DEF WatchdogTeardown, Core0At, Stutter, ReleaseOwner, Unbound
  <2>4. Flags'
    BY <1>45, Zenon DEF WatchdogTeardown, Core0At, Stutter, ReleaseOwner,
         Unbound
  <2> QED BY <2>1, <2>2, <2>3, <2>4 DEF TypeInv, TypeOK
<1>46. CASE ServeRestart
  <2>1. Places'
    BY <1>46, SMT DEF ServeRestart
  <2>2. Memory'
    BY <1>46, SMT DEF ServeRestart
  <2>3. Records' /\ PostsFit'
    BY <1>46, SMT DEF ServeRestart
  <2>4. Flags'
    BY <1>46, Zenon DEF ServeRestart
  <2> QED BY <2>1, <2>2, <2>3, <2>4 DEF TypeInv, TypeOK
<1>47. CASE RestartTeardown
  <2>1. Places'
    BY <1>47, SMT DEF RestartTeardown, Core0At, PublishFaulted, Stutter,
         ReleaseOwner, Unbound
  <2>2. Memory'
    <3>1. gen' = gen /\ loaded' = loaded /\ owner' \in {owner, 0}
          /\ arena' \in {arena, arena \ {owner}}
      BY <1>47, SMT DEF RestartTeardown, Core0At, PublishFaulted, Stutter,
           ReleaseOwner, Unbound
    <3> HIDE DEF Memory, TypeInv
    <3>2. Memory
      BY DEF Memory, TypeInv, TypeOK
    <3> QED BY <3>1, <3>2, GivenBack
  <2>3. Records' /\ PostsFit'
    BY <1>47, SMT DEF RestartTeardown, Core0At, PublishFaulted, Stutter,
         ReleaseOwner, Unbound
  <2>4. Flags'
    BY <1>47, Zenon DEF RestartTeardown, Core0At, PublishFaulted, Stutter,
         ReleaseOwner, Unbound
  <2> QED BY <2>1, <2>2, <2>3, <2>4 DEF TypeInv, TypeOK
<1>48. CASE PoisonSessions
  BY <1>48, SMT DEF PoisonSessions, Core0At
<1>49. CASE ColdRestart
  BY <1>49, SMT DEF ColdRestart, Core0At, Restarted1
<1>50. CASE ResetWaited
  BY <1>50, SMT DEF ResetWaited, Core0At, Unanswering, Silent1
<1>51. CASE Quiesced
  BY <1>51, SMT DEF Quiesced, Core0At, Unanswering, Silent1
<1>52. CASE ResetBegins
  BY <1>52, SMT DEF ResetBegins
<1> HIDE DEF TypeInv
<1> QED BY <1>0, <1>1, <1>2, <1>3, <1>4, <1>5, <1>6, <1>7, <1>8, <1>9, <1>10,
       <1>11, <1>12, <1>13, <1>14, <1>15, <1>16, <1>17, <1>18, <1>19, <1>20,
       <1>21, <1>22, <1>23, <1>24, <1>25, <1>26, <1>27, <1>28, <1>29, <1>30,
       <1>31, <1>32, <1>33, <1>34, <1>35, <1>36, <1>37, <1>38, <1>39, <1>40,
       <1>41, <1>42, <1>43, <1>44, <1>45, <1>46, <1>47, <1>48, <1>49, <1>50,
       <1>51, <1>52 DEF Next, Worker1, Run1, Tick1, Mailbox0, Recover0

(* The type invariant, for every number of loads and resets.               *)
THEOREM TypeCorrect == Spec => []TypeOK
<1>1. TypeInv /\ [Next]_vars => TypeInv'  BY TypeStep
<1>2. TypeInv => TypeOK  BY DEF TypeInv
<1> QED BY TypeInit, <1>1, <1>2, PTL DEF Spec

----------------------------------------------------------------------------
LEMMA HostInit == Init => HostInv
  BY SMT DEF Init, HostInv, Restarting, Resetting, Watching, Unwinding, Where,
       TickContext, ClaimIsExecuted, Resting, Alive, Loading, Dead, Claimed,
       Restarted, HasArena, AppCode, Tick, Teardown, Watchdog, Restart

(* Forgetting the owner changes nothing else.                              *)
LEMMA UnboundKeeps ==
  ASSUME Unbound
  PROVE  /\ state' = state /\ running' = running /\ faulted' = faulted
         /\ gen' = gen /\ loaded' = loaded /\ arena' = arena
         /\ defer' = defer /\ reset' = reset
         /\ slot' = slot /\ restartReq' = restartReq
  BY Zenon DEF Unbound, life, mem, ops, tasks

LEMMA HostStep ==
  ASSUME ~Wakes, ~CommitLost, TypeInv, HostInv, [Next]_vars PROVE HostInv'
<1> USE Bounds DEF TypeInv, TypeOK, PostsFit, HostInv, Restarting, Resetting,
      Watching, Unwinding, Where, TickContext, ClaimIsExecuted, Resting, Alive,
      Loading, Dead, Claimed, Restarted, HasArena, AppCode, Tick, Teardown,
      Watchdog, Restart, Gen, vars, life, mem, ops, tasks
<1>1. CASE HookReset
  BY <1>1, SMT DEF HookReset, CancelStart, DropArena
<1>2. CASE HookAck
  BY <1>2, SMT DEF HookAck, Core1At, DropArena, NoOp
<1>3. CASE PollNothing
  BY <1>3, SMT DEF PollNothing
<1>4. CASE LoadBegin
  BY <1>4, SMT DEF LoadBegin, Polling, Done
<1>5. CASE LoadChunk
  BY <1>5, SMT DEF LoadChunk, Polling, Done
<1>6. CASE LoadEnd
  BY <1>6, SMT DEF LoadEnd, Polling, Done, DropArena
<1>7. CASE Start
  BY <1>7, SMT DEF Start, Polling, Done
<1>8. CASE HookStop
  BY <1>8, SMT DEF HookStop, Core1At, StopRequested, CancelStart, DropArena
<1>9. CASE HookStart
  BY <1>9, SMT DEF HookStart, Core1At, StopRequested
<1>10. CASE HookDone
  BY <1>10, SMT DEF HookDone, Core1At, StopRequested
<1>11. CASE WorkerTask
  BY <1>11, SMT DEF WorkerTask, Core1At
<1>12. CASE WorkerIdle
  BY <1>12, SMT DEF WorkerIdle, Core1At
<1>13. CASE TaskDone
  BY <1>13, SMT DEF TaskDone, Core1At
<1>14. CASE StartFailed
  BY <1>14, SMT DEF StartFailed, Core1At, Done, DropArena
<1>15. CASE RunApp
  BY <1>15, SMT DEF RunApp, Core1At
<1>16. CASE StartEntered
  BY <1>16, SMT DEF StartEntered, Core1At, Done
<1>17. CASE ForceStop
  <2>1. CASE pc1 = "publish"
    BY <1>17, <2>1, SMT DEF ForceStop, Core1At, PublishFaulted, Stutter,
         ReleaseOwner, Unbound
  <2>2. CASE pc1 = "end"
    BY <1>17, <2>2, SMT DEF ForceStop, Core1At, PublishFaulted, Stutter,
         ReleaseOwner, Unbound
  <2>3. CASE pc1 = "release"
    BY <1>17, <2>3, SMT DEF ForceStop, Core1At, PublishFaulted, Stutter,
         ReleaseOwner, Unbound
  <2>4. CASE pc1 = "unbound"
    <3>1. Unbound
      BY <1>17, <2>4, SMT DEF ForceStop, Core1At
    <3>2. pc1' \in {"ack", "exit1"} /\ (pc1' = "ack" <=> ctx = "worker") /\ pc0' = pc0
      BY <1>17, <2>4, SMT DEF ForceStop, Core1At
    <3>3. UNCHANGED <<state, running, faulted, gen, loaded, arena, reset, slot, restartReq>>
      BY <3>1, UnboundKeeps
    <3> QED BY <2>4, <3>2, <3>3, SMT
  <2>5. pc1 = "publish" \/ pc1 = "end" \/ pc1 = "release" \/ pc1 = "unbound"
    BY <1>17, Zenon DEF ForceStop, Core1At
  <2> HIDE DEF HostInv
  <2> QED BY <2>1, <2>2, <2>3, <2>4, <2>5
<1>18. CASE Exit
  BY <1>18, SMT DEF Exit, Core1At
<1>19. CASE ExitFaulted
  BY <1>19, SMT DEF ExitFaulted, Core1At, Stutter
<1>20. CASE ExitEnd
  BY <1>20, SMT DEF ExitEnd, Core1At, Stutter
<1>21. CASE ExitPublish
  BY <1>21, SMT DEF ExitPublish, Core1At
<1>22. CASE ExitRelease
  BY <1>22, SMT DEF ExitRelease, Core1At, DropArena
<1>23. CASE AppMoves
  BY <1>23, SMT DEF AppMoves
<1>24. CASE CommitBegin
  BY <1>24, SMT DEF CommitBegin, Core1At
<1>25. CASE CommitEnd
  BY <1>25, SMT DEF CommitEnd, Core1At
<1>26. CASE TaskFault
  BY <1>26, SMT DEF TaskFault
<1>27. CASE AppFault
  BY <1>27, SMT DEF AppFault
<1>28. CASE FirmwareFault
  BY <1>28, SMT DEF FirmwareFault
<1>29. CASE TickBegins
  BY <1>29, SMT DEF TickBegins
<1>30. CASE TickTask
  BY <1>30, SMT DEF TickTask, Core1At
<1>31. CASE TickNoTask
  BY <1>31, SMT DEF TickNoTask, Core1At
<1>32. CASE TickForces
  BY <1>32, SMT DEF TickForces, StopRequested
<1>33. CASE TickReturns
  BY <1>33, SMT DEF TickReturns
<1>34. CASE Post
  BY <1>34, SMT DEF Post, AtPoll
<1>35. CASE StopApp
  BY <1>35, SMT DEF StopApp, AtPoll
<1>36. CASE Lease
  BY <1>36, SMT DEF Lease, AtPoll
<1>37. CASE FaultSeen
  BY <1>37, SMT DEF FaultSeen, AtPoll
<1>38. CASE Enqueue
  BY <1>38, SMT DEF Enqueue, AtPoll
<1>39. CASE CloseStream
  BY <1>39, SMT DEF CloseStream, AtPoll
<1>40. CASE Harvest
  BY <1>40, SMT DEF Harvest, AtPoll, NoOp
<1>41. CASE HarvestTask
  BY <1>41, SMT DEF HarvestTask, AtPoll
<1>42. CASE WatchdogFires
  BY <1>42, SMT DEF WatchdogFires, Core0At, Silent1
<1>43. CASE WatchdogPublish
  BY <1>43, SMT DEF WatchdogPublish, Core0At, PublishFaulted
<1>44. CASE WatchdogRestart
  BY <1>44, SMT DEF WatchdogRestart, Core0At, Restarted1
<1>45. CASE WatchdogTeardown
  <2>1. CASE pc0 = "wend"
    BY <1>45, <2>1, SMT DEF WatchdogTeardown, Core0At, Stutter, ReleaseOwner,
         Unbound
  <2>2. CASE pc0 = "wrelease"
    BY <1>45, <2>2, SMT DEF WatchdogTeardown, Core0At, Stutter, ReleaseOwner,
         Unbound
  <2>3. CASE pc0 = "wunbound"
    <3>1. Unbound
      BY <1>45, <2>3, SMT DEF WatchdogTeardown, Core0At
    <3>2. pc0' = "poll" /\ pc1' = pc1 /\ ctx' = ctx
      BY <1>45, <2>3, SMT DEF WatchdogTeardown, Core0At
    <3>3. UNCHANGED <<state, running, faulted, gen, loaded, arena, reset, slot, restartReq>>
      BY <3>1, UnboundKeeps
    <3> QED BY <2>3, <3>2, <3>3, SMT
  <2>4. pc0 = "wend" \/ pc0 = "wrelease" \/ pc0 = "wunbound"
    BY <1>45, Zenon DEF WatchdogTeardown, Core0At
  <2> HIDE DEF HostInv
  <2> QED BY <2>1, <2>2, <2>3, <2>4
<1>46. CASE ServeRestart
  BY <1>46, SMT DEF ServeRestart
<1>47. CASE RestartTeardown
  <2>1. CASE pc0 = "rpublish"
    BY <1>47, <2>1, SMT DEF RestartTeardown, Core0At, PublishFaulted, Stutter,
         ReleaseOwner, Unbound
  <2>2. CASE pc0 = "rend"
    BY <1>47, <2>2, SMT DEF RestartTeardown, Core0At, PublishFaulted, Stutter,
         ReleaseOwner, Unbound
  <2>3. CASE pc0 = "rrelease"
    BY <1>47, <2>3, SMT DEF RestartTeardown, Core0At, PublishFaulted, Stutter,
         ReleaseOwner, Unbound
  <2>4. CASE pc0 = "runbound"
    <3>1. Unbound
      BY <1>47, <2>4, SMT DEF RestartTeardown, Core0At
    <3>2. pc0' = "rrestart" /\ pc1' = pc1 /\ ctx' = ctx
      BY <1>47, <2>4, SMT DEF RestartTeardown, Core0At
    <3>3. UNCHANGED <<state, running, faulted, gen, loaded, arena, reset, slot, restartReq>>
      BY <3>1, UnboundKeeps
    <3> QED BY <2>4, <3>2, <3>3, SMT
  <2>5. pc0 = "rpublish" \/ pc0 = "rend" \/ pc0 = "rrelease" \/ pc0 = "runbound"
    BY <1>47, Zenon DEF RestartTeardown, Core0At
  <2> HIDE DEF HostInv
  <2> QED BY <2>1, <2>2, <2>3, <2>4, <2>5
<1>48. CASE PoisonSessions
  BY <1>48, SMT DEF PoisonSessions, Core0At
<1>49. CASE ColdRestart
  BY <1>49, SMT DEF ColdRestart, Core0At, Restarted1
<1>50. CASE ResetWaited
  BY <1>50, SMT DEF ResetWaited, Core0At, Unanswering, Silent1
<1>51. CASE Quiesced
  BY <1>51, SMT DEF Quiesced, Core0At, Unanswering, Silent1
<1>52. CASE ResetBegins
  BY <1>52, SMT DEF ResetBegins
<1>53. CASE UNCHANGED vars
  BY <1>53, SMT DEF vars, life, mem, ops, tasks
<1> HIDE DEF HostInv
<1> QED BY <1>1, <1>2, <1>3, <1>4, <1>5, <1>6, <1>7, <1>8, <1>9, <1>10, <1>11,
       <1>12, <1>13, <1>14, <1>15, <1>16, <1>17, <1>18, <1>19, <1>20, <1>21,
       <1>22, <1>23, <1>24, <1>25, <1>26, <1>27, <1>28, <1>29, <1>30, <1>31,
       <1>32, <1>33, <1>34, <1>35, <1>36, <1>37, <1>38, <1>39, <1>40, <1>41,
       <1>42, <1>43, <1>44, <1>45, <1>46, <1>47, <1>48, <1>49, <1>50, <1>51,
       <1>52, <1>53 DEF Next, Worker1, Run1, Tick1, Mailbox0, Recover0

(* Only the end of the worker's hook acknowledges a reset.                 *)
LEMMA OnlyAck ==
  ASSUME [Next]_vars, reset'.ack, ~reset.ack PROVE HookAck
<1> USE DEF vars, life, mem, ops, tasks
<1>1. CASE Worker1
  BY <1>1, SMTT(30) DEF Worker1, HookReset, HookAck, PollNothing, LoadBegin,
       LoadChunk, LoadEnd, Start, HookStop, HookStart, HookDone, WorkerTask,
       WorkerIdle, TaskDone, CancelStart, DropArena, Core1At, NoOp, Polling,
       Done, StopRequested
<1>2. CASE Run1
  BY <1>2, SMTT(30) DEF Run1, StartFailed, RunApp, StartEntered, ForceStop,
       Exit, ExitFaulted, ExitEnd, ExitPublish, ExitRelease, Core1At, Done,
       DropArena, PublishFaulted, Stutter, ReleaseOwner, Unbound
<1>3. CASE AppMoves \/ CommitBegin \/ CommitEnd
  BY <1>3, SMTT(30) DEF AppMoves, CommitBegin, Core1At, CommitEnd
<1>4. CASE TaskFault \/ AppFault \/ FirmwareFault
  BY <1>4, SMTT(30) DEF TaskFault, AppFault, FirmwareFault
<1>5. CASE Tick1
  BY <1>5, SMTT(30) DEF Tick1, TickTask, TickNoTask, Core1At
<1>6. CASE TickBegins
  BY <1>6, SMTT(30) DEF TickBegins
<1>7. CASE TickForces
  BY <1>7, SMTT(30) DEF TickForces, StopRequested
<1>8. CASE TickReturns
  BY <1>8, SMTT(30) DEF TickReturns
<1>9. CASE Mailbox0 \/ Harvest \/ HarvestTask
  BY <1>9, SMTT(30) DEF Mailbox0, Post, StopApp, Lease, FaultSeen, Enqueue,
       CloseStream, AtPoll, Harvest, NoOp, HarvestTask
<1>10. CASE Recover0
  BY <1>10, SMTT(30) DEF Recover0, WatchdogFires, WatchdogPublish,
       WatchdogRestart, WatchdogTeardown, ServeRestart, RestartTeardown,
       PoisonSessions, ColdRestart, ResetWaited, Quiesced, Core0At, Silent1,
       PublishFaulted, Restarted1, Stutter, ReleaseOwner, Unbound, Unanswering
<1>11. CASE ResetBegins
  BY <1>11, SMTT(30) DEF ResetBegins
<1>12. CASE UNCHANGED vars
  BY <1>12, Zenon DEF vars
<1> QED BY <1>1, <1>2, <1>3, <1>4, <1>5, <1>6, <1>7, <1>8, <1>9, <1>10, <1>11,
       <1>12 DEF Next

LEMMA HostInvariant ==
  ASSUME ~Wakes, ~CommitLost PROVE Spec => [](TypeInv /\ HostInv)
<1>1. TypeInv /\ HostInv /\ [Next]_vars => (TypeInv /\ HostInv)'
  BY TypeStep, HostStep
<1> QED BY TypeInit, HostInit, <1>1, PTL DEF Spec

----------------------------------------------------------------------------
(* A slot claimed by core 1 is being executed by core 1.                   *)
THEOREM ClaimsExecuted ==
  ASSUME ~Wakes, ~CommitLost PROVE Spec => []ClaimIsExecuted
<1>1. HostInv => ClaimIsExecuted  BY DEF HostInv
<1> QED BY HostInvariant, <1>1, PTL

(* Core 1 and core 0 are never both inside the teardown.                   *)
THEOREM TeardownExclusive == ASSUME ~Wakes, ~CommitLost PROVE Spec => []OneTeardown
<1>1. HostInv => OneTeardown
  BY SMT DEF HostInv, Restarting, Watching, OneTeardown, Restarted, Teardown,
       Watchdog, Restart
<1> QED BY HostInvariant, <1>1, PTL

(* Whoever executes in the app has its arena, and outside a teardown the   *)
(* pool holds an arena for the app that is loading or running and no other.*)
THEOREM ArenaHeld == ASSUME ~Wakes, ~CommitLost PROVE Spec => []ArenaFollowsApp
<1>1. TypeInv /\ HostInv => ArenaFollowsApp
  <2> SUFFICES ASSUME TypeInv, HostInv PROVE ArenaFollowsApp  OBVIOUS
  <2> USE DEF TypeInv, TypeOK, HostInv, Restarting, Watching, Unwinding, Where,
        Resting, Alive, Loading, Dead, Claimed, Restarted, HasArena, Core1, Core0,
        AppCode, Tick, Teardown, Watchdog, Restart
  <2>1. CASE pc0 \in Watchdog
    BY <2>1, SMT DEF ArenaFollowsApp
  <2>2. CASE pc0 \in Restart
    BY <2>2, SMT DEF ArenaFollowsApp
  <2>3. CASE pc0 \notin Watchdog \cup Restart
    BY <2>3, SMT DEF ArenaFollowsApp
  <2> QED BY <2>1, <2>2, <2>3
<1> QED BY HostInvariant, <1>1, PTL

(* When core 1 acknowledges a reset nothing of the app is left.            *)
THEOREM ResetIsClean == ASSUME ~Wakes, ~CommitLost PROVE Spec => ResetClean
<1>1. ASSUME TypeInv, HostInv, [Next]_vars, reset'.ack, ~reset.ack
      PROVE  arena' = {} /\ ~running' /\ state' = "IDLE" /\ defer'.st = "IDLE"
             /\ ~startPending'
  <2>1. HookAck
    BY <1>1, OnlyAck
  <2>2. Dead
    BY <1>1, <2>1, SMT DEF HostInv, Resetting, Where, HookAck, Core1At,
         TypeInv, TypeOK, Core0
  <2> QED BY <2>1, <2>2, SMT DEF HookAck, Dead, DropArena, NoOp, life, mem
<1>2. TypeInv /\ HostInv /\ [Next]_vars =>
        [reset'.ack /\ ~reset.ack => arena' = {} /\ ~running' /\ state' = "IDLE"
           /\ defer'.st = "IDLE" /\ ~startPending']_vars
  BY <1>1
<1> QED BY HostInvariant, <1>2, PTL DEF Spec, ResetClean
=============================================================================
