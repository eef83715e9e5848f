# ZZ9000OS: TLA+ models of the two-core firmware

ZZ9000OS is the bare-metal firmware of the ZZ9000, a graphics, network, USB
and coprocessor card for the Amiga. It runs on the two Cortex-A9 cores of a
Zynq: **core 0** runs the main loop that answers the 68k's bus cycles, drives
every device and dispatches requests; **core 1** is a worker that executes
long jobs. This directory models how the two cores share work and memory, and
how that sharing survives faults, timeouts and resets of the Amiga.

Source paths below are relative to `ZZ9000_proto.sdk/ZZ9000OS/src/`.

## 1. Inventory

| Component | State | Operations | Interacts with | Hard parts | What makes it correct |
|---|---|---|---|---|---|
| Task queue (`scheduler.c`) | 16 descriptors, a state word each, an enqueue cursor | enqueue, claim_any, claim_short, complete, fail, harvest, release, init | both cores | lock-free claims, cursor wrap | one owner per claim |
| Two-core scheduler (`scheduler_arm.c`) | request/acknowledge words of `taskq_shared_t`, watchdog | poll (harvest, restart, drain), quiesce, clean, reclaim, worker loop | queue, mailbox, core 1 | every wait may time out; faults at any time | nothing lost, nothing run twice, nothing waits for ever |
| Core 1 faults and restart (`core2.c`) | `core1_fault`, park words | record_fault, park, cold restart | scheduler, module host | a handler that runs for milliseconds beside core 0 | a claim is never orphaned |
| SDK mailbox (`sdk_mailbox.c`) | request and completion rings, lifetime number, session tables | dispatch, post_deferred, init | 68k drivers, scheduler | completions of an earlier lifetime, full rings | at most one completion, in its own lifetime |
| Amiga reset (`main.c`) | `mgl_reset_posted` and locals | begin_amiga_reset, handle_amiga_reset, reset_poll, fwup_wait_idle | everything above | ordering of teardown against running tasks | no late write, no two owners of the SD card |
| MiniGL module host (`zzm_minigl_host.c`) | registered worker, scenes | register, tick, reset, abort, on_core1_fault | core 1 worker | reset handshake against abort | reset is acknowledged or aborted |
| Firmware update (`fw_update.c`) | open file, target, backup and discard files, status, job marker | OPEN, WRITE, CLOSE, RESTORE, ABORT, stage, retire, forget | internal jobs, SD card, main loop | power loss between renames, faults and ABORTs inside a command | target or backup always on the card, all or nothing, each command answered once |
| Card pool (`card_pool.c`) | ranges, blocks, owners | alloc, free, release_where, lend, take back | both cores, Amiga reset | window moved between Amiga and ARM while core 1 works | no overlap, one owner of the window, exact accounts |
| SMP locks (`sdk_smp_lock*.c`) | spin word, owner, depth, saved IRQ state | acquire, try, release, reset | every allocator, both cores | recursion, IRQs, a holder that faults or is reset | exclusion, never orphaned |
| Surface allocator (`surface_allocator.c`) | sorted block table, byte count | alloc_aligned, alloc_range, reserve, free, stats | P96, SDK buffers, applications | unsigned gaps, windows, alignment | no overlap, first fit exact |
| ARM applications (`zzapp_*.c`) | life-cycle state, running and faulted words, arena owner, one deferred operation | load, start, tick, stop, exit, fault, watchdog, reset | core 1 worker, scheduler, pool, timer IRQ | two cores that may both stop the app, a tick inside an API call, watchdog restart beside scheduler tasks | memory never reclaimed while in use and never lost, one teardown, a stop always stops |
| Audio fabric (`audio_fabric*.c`) | slots with lease, converter, staging ring and its cursors, fill frontier | acquire, release, poll, and in the audio IRQ tick, catch-up, retire, fill, revoke | AX DMA ring, a producer on the 68k | an IRQ inside the main loop's conversion, cursors near 2^32, a producer that dies | periods staged once and in order, credited when played, dead leases freed |
| Overlay scheduler (`overlay_schedule.h`) | queued and in-flight compose jobs | submit, complete, vsync, reset | internal jobs | job lost with the queue | one compose at a time |
| USB proxy (`usb_proxy*.c`) | transfer slots, periodic ring, port reset | submit, poll, cancel | EHCI driver | cancel against completion | a slot completes once |
| Ethernet (`ethernet.c`) | backlog, TX ring, IRQ throttle | receive, consume, transmit | 68k driver | interrupts against main loop | frames in order |
| Module loader (`zzm_*.c`), sessions (`sdk_*_stream.c`), decode tracker | tables | open, close, reclaim | core 1 | reclaim after faults | no leak, no double free |
| Graphics, codecs, config, SD, drivers, BSP, RTL | – | – | – | arithmetic and registers | not modelled |

`PROJECT.json` lists every component with its status and, under `hazards`,
what in this code is hard to test, line by line.

## 2. Modules

| Module | Models |
|---|---|
| `TaskQueue` | `scheduler.c`: the descriptor table and its operations |
| `Scheduler` | both cores around it: `scheduler_arm.c`, the fault and restart part of `core2.c`, the deferred path of `sdk_mailbox.c`, the reset path of `main.c`, the MiniGL worker and the FWUP marker as the scheduler sees them; the properties |
| `DeferredCompletion` | abstract: what the mailbox promises a client |
| `SchedulerRefinement` | the refinement mapping from `Scheduler` to it |
| `CardPool` | `card_pool.c` and the steps of `handle_amiga_reset` that move the Fast-RAM window |
| `SmpLock` | one lock of `sdk_smp_lock.c`, store by store, with the resets after faults |
| `SurfaceAllocator` | `surface_allocator.c` |
| `FwUpdate` | `fw_update.c` as its FatFs calls, with the main loop's staging, core 1, resets and power losses |
| `AppRuntime` | `zzapp_host.c`, the deferred operations of `zzapp_services.c`, the arena of `zzapp_loader.c`, with the worker loop, fault handler and restarts around them |
| `LeasePreconvert` | a converting lease: `audio_fabric_lease.c` and the retire and fill of `audio_fabric.c` |
| `MCScheduler`, `MCCardPool`, `MCFwUpdate` | instances TLC runs; the other modules are run as they are |
| `SchedulerProofs`, `SchedulerJobProofs` | theorems about the scheduler, the second on top of the first and with its refinement |
| `CardPoolProofs`, `SmpLockProofs`, `SurfaceAllocatorProofs`, `FwUpdateProofs`, `AppRuntimeProofs`, `LeasePreconvertProofs` | theorems about the modules they are named for |

### How state and actions correspond to the code

`pc0` and `pc1` say where each core is; a label is a place where the other
core's stores can become visible before the next one of this core. `sh` is
`taskq_shared_t` word by word (without the queue and the counters kept for
observability), `wd` the watchdog with `g_core1_started`, `gl` the MiniGL
worker with `mgl_reset_posted`. `ret` holds core 0's return addresses, since
the poll, the quiesce and the cold restart are each called from several
places. `cause`, `born` and `answered` are history variables that only
properties and the refinement mapping read.

* **Core 1** (`scheduler_core1_worker`): `loop` is the top, where requests to
  reclaim, clean and park are served; `pick` is the decision (reset before
  task before tick before sleep); `claimed`, `run`, `ran` surround
  `core1_current_slot` and `scheduler_run_slot`; `tick` is the module's
  service tick. `record_fault` is `fault` (slot read, messages printed),
  `failed` (slot failed, no restart requested yet), `faulted` (waiting to be
  parked) or `hang`.
* **Core 0, poll** (`scheduler_core0_poll`): `harvest`, `restart`, `drain`,
  `drainrun`. One action per outcome of a harvested slot.
* **Core 0, restart** (`core1_cold_restart`): `park`, `parkwait`, `held`.
* **Core 0, quiesce**: `quiesce` (the wait), `qeval` (the second test),
  `qinit` (queue cleared), `qdone`.
* **Core 0, Amiga reset**: `glposted`, `fwup`, `fwupforget`, `lent`, `clean`,
  `cleanwait`, `takeback`, then the quiesce of `sdk_mailbox_init`,
  `teardown`, `reclaim`, `reclaimwait`, `glphase`, `glabort`.

### The memory modules

* **`CardPool`** counts 64 KB pages, the unit every request is rounded to.
  The address-sorted array is the set of its records, since every function
  keeps it sorted and looks at it only in address order; a function is one
  step, because it holds the pool's lock throughout. The classes other
  than FIRMWARE and APP differ only in their limits, so `MEDIA` stands for all
  of them. `pc` walks `handle_amiga_reset`: `enter`, `lent` (quiesce),
  `take_back`, `reload` (the configuration file may have changed), `gate`,
  `modules`, `release`, `lend`. Allocation and release by either core may
  happen between any two of these steps. `core1` is the block a task of core
  1 works in; `Scheduler` shows why the quiesce, or the cold restart after a
  clean that does not answer, leaves no task running, and here that is one
  step. `board` distinguishes Zorro II, a Zorro III bitstream that cannot
  advertise the RAM, and one that can.
* **`SmpLock`** is the opposite: every load and store that the other core can
  see is a step, at the label named for it, because the point is what a fault
  or a reset does in the middle. `ldrex`/`strex` is one step. Core 1 may fault
  anywhere in its own code, inside the section it locked too (`torn` records
  that it has); `core1_cold_restart` may hit it at any label, since core 0
  decides on it by a timeout. `nest` and `before` are what the callers know: acquires not
  yet released, and the IRQ state they came with.
* **`SurfaceAllocator`** counts granules of 256 bytes. The table is a sequence;
  the loops of the bisection and of the windowed walk are recursive functions
  (`Bisection`, `Walk`) over the loop's variables, the other walk stops at the
  first block that satisfies its test, and an unsigned difference is one
  modulo `Word`. A call that
  fails changes nothing and is not a step. Requests the code rejects at once
  (zero, not a power of two, larger than a word) are not issued.

The operations of the two allocators are single steps because of what
`SmpLock` shows of the lock they hold. One gap remains between the modules: a cold restart may kill core 1 inside such a section and leave the
table half written (`PROJECT.json`, hazards).

### Firmware update, applications, leases

* **`FwUpdate`**: the card is a function from the few names one target uses
  (target, backup, temporary, discard) to what the file holds; each FatFs call
  is a step and may fail. `job.at` walks the command on core 1, `main` the
  main loop that stages, enqueues, takes the result and publishes the status.
  The client writes commands as the updater does, and may ABORT at any time.
  `Fault` is `record_fault` with the slot failed, `PowerLoss` ends in the
  boot's clean-up of discard files. In `Scheduler` the same job is only a
  marker; here the rest of the scheduler is only "queued, running, finished".
* **`AppRuntime`**: `pc1` is where core 1 is: `worker`, `hook`, `claim`,
  `task` in the worker loop, `run1`, `run2` and `exit1` to `exit4` in
  `run_app`, `app`, `masked` (IRQs off), `api`, `commit` in the app, `t1`,
  `t2`, `ttask`, `t3` in a service tick, `publish` to `unbound` in
  `force_stop`, `hung` or `parked` after a fault. `ctx` is what a tick
  interrupted. `pc0` is `poll` or a step of core 0's own teardown: by the
  watchdog (`wpublish` and so on), by a restart request (`rpublish` and so
  on), or the wait and quiesce of an Amiga reset. Every store that the other
  core tests is a step. An image is reduced to the generation that owns its
  arena, a task to a slot of its own, an audio stream to where its decoder is.
* **`LeasePreconvert`** counts periods. A staging slot, the converter's
  history and the poll's snapshot each hold the number of a source period,
  or `Lost` when they are not what comes next. `poll` is the main loop in
  `audio_fabric_lease_poll` with its snapshot and the words it shares with
  the IRQ; `isr` the IRQ's progress through tick, finish, catch-up, retire and
  fill. The IRQ may begin at any step of the poll that does not mask it, and
  finds the DMA any number of periods further on. Source cursors are counted
  from the credited one, so that playing for ever is a finite graph; the two
  staging cursors are kept modulo `Word`, which stands for 2^32 and like it
  is no multiple of the ring.

### Abstractions

* A bounded wait of core 0 ends when its condition holds, or by its timeout;
  the timeout is only possible when core 1 is *stalled* (`Stalled1`: inside
  task, module or handler code, or hung) or cannot serve the request. All
  other things core 1 does take microseconds against waits of 10 ms to 3 s.
  Which of them outlasts a wait is left open.
* A scan of the table is one step; the header of `TaskQueue` argues why.
  Where an action merges two stores its comment says why nobody can tell.
* `WFE` is an idle step: every writer of what the loop tests issues `SEV`,
  which is latched.
* Task bodies are opaque: they dirty L1 (`dirty1`), may fault, may end. The
  opcode-to-class table is a free choice of class; the mailbox's choice
  between deferring and answering inline is free whenever both are possible.
* Of the internal jobs, `FWUP` and `ZZM_LOAD` are modelled; video compose, AX
  refill and background close follow the same path without a marker that
  core 0 waits on. A FWUP command executed inline (core 1 absent) touches
  no scheduler state.
* After a reset and after a MiniGL abort the main loop reaches
  `scheduler_core0_poll` before it accepts a request, so these steps lead to
  `harvest`. A rebooting 68k needs seconds to load its drivers, so
  `AmigaBoots` waits until the MiniGL reset, bounded by 50 ms, is settled.
  An Amiga held in reset consumes no completion.
* In `Scheduler` the `zzapp_*` hooks return without effect; with an
  application running, `AppRuntime` has them and reduces the scheduler to one
  slot. That the Amiga reset's other steps meet a running app is in neither:
  the reset waits for the app first.
* `AppRuntime` has no clock. An age limit may run out at any moment; core 1
  is *silent* for core 0's 2 s watchdog while it can take no tick.
* Cache maintenance is reduced to whether core 1's L1 holds dirty task data.
  When the watchdog has disabled core 1, `scheduler_core1_clean_dcache`
  returns at once and nothing cleans that cache; `TakeBackClean` therefore
  speaks of a core 1 in service.

## 3. Runs

The scheduler's runs use `MCScheduler`. Two descriptors are enough for a queue with a
head and a tail, for both cores to hold a slot at once and for the cursor to
wrap; a ring with room for one completion is full half of the time; two
generations make "earlier lifetime" and "the one before" different; a fault
threshold of 2 (3 in the firmware) lets the watchdog both restart core 1 and
give it up within a few faults. `MaxGen` bounds the resets, `MaxJobs` the
internal jobs, the size of `Reqs` the client requests. Request ids are
symmetric in the safety runs; the liveness runs use no symmetry.

| Run | States | Shows |
|---|---|---|
| `scheduler_tasks` | 1.3 M | two requests and a FWUP job, task faults, watchdog, two resets: the mailbox's promise (refinement), one owner per claim, no late write, no request dropped, nothing stranded in the fallback, clean take-back, one owner of the SD card |
| `scheduler_minigl` | 4.9 M | with the module's ticks, faults and reset handshake: types, markers have jobs |
| `scheduler_jobs` | 0.6 M | every request is answered or its lifetime ends, and every internal job's marker comes down |
| `scheduler_wedge` | 0.2 M | core 0 returns to its main loop with core 1 wedged for ever |

The memory modules:

| Run | States | Shows |
|---|---|---|
| `card_pool` | 0.32 M | two permanent and three window pages, a table of four blocks, owners of all three kinds, every board: no overlap, right placement, one owner of the window, exact accounts, queries and first fit, FIRMWARE blocks survive |
| `smp_lock` | 12 k | nesting to depth 3, faults of core 1 anywhere in its own code, restarts anywhere: exclusion always; owner and depth right, never orphaned and IRQ discipline until core 1 faults inside the section |
| `surface_allocator` | 11 k | twelve granules, four blocks: both first fits exact; table sorted, bisection and statistics exact (`TableExact`) |

Updates, applications, leases:

| Run | States | Shows |
|---|---|---|
| `fw_update` | 0.76 M | one target, any sequence of commands with failing calls, faults, ABORTs, resets and power losses: a file of the target is always on the card, nothing torn is installed, CLOSE and RESTORE do all or nothing, the status is of the last command, every command is answered |
| `app_runtime` | 0.12 M | two loads, one Amiga reset: the arena follows the app, one teardown, a claimed task is being executed, the reset is acknowledged clean, a stop stops, an operation is answered |
| `lease_preconvert` | 9.6 M | a staging ring of 6, a DMA ring of 4, a word of 13 periods: staged in order, queued and credited exactly |
| `lease_liveness` | 0.45 M | a dead producer's slot comes free; a live one's ring is drained |

Two loads are what it takes for a late step of one app's teardown to meet the
next app; one reset meets every state of an app, and its end meets the
second. A staging ring of 6 over a DMA ring of 4 keeps the code's relations (at least twice
what is ahead of the DMA, a replay window of one DMA ring) and the cursors wrap
and are rebased every few periods; a source ring of 7 in the safety run lets
several whole periods wait. `Timeout` is 2 interrupts instead of 100, and
`Budget`, the periods converted in one call of the poll, 1: every further one repeats the
loop from its head, where the interrupt may land anyway.

Four blocks of one or two pages give a gap between two blocks with another
block elsewhere, a full table with pages left, and a full range with rows left;
the window is larger than the permanent range, so the second range is searched
in earnest. A depth of 3 has an acquire that is neither the first nor
the last. The instances are closed: no step is cut off but by `MaxBlocks`,
`MaxSize` and `MaxDepth`. `QueriesExact`, `FirstFitComplete`, `FirstFitExact`
and `StatsExact` compare the code's arithmetic with definitions that look at
each page or granule.

In `smp_lock` deadlock is not checked: a core 0 that lost its owner word waits
for itself, which is the finding below. Deadlock is checked in all other
passing runs. Each property has a mutant in
`PROJECT.json`: a plausible slip in the code that breaks it.

**Fairness.** `FairSpec`: weak fairness of each core (both execute all the
time, and in this run every task, tick and handler ends), of the client
consuming completions, and strong fairness of the ends of two waits
(`FwupTimeout`, `QuiesceWaitEnd`) whose condition can come and go while core 1
works: the code counts iterations, so the wait ends however often the
condition changed. `WedgeSpec` drops the assumption that core 1's task,
module and handler code ends and that the client consumes anything.

In `fw_update`, the command in hand, core 1 and the main loop each go on, and a
command the main loop could queue is queued in the end. In `app_runtime`, core 1 executes unless it is
hung or parked and core 0's loop polls; strong fairness stands for elapsed
time: ticks keep coming, some of them outside the commit window, and the grace
of a stop or the limit of a silent app does run out. In `lease_liveness` the
audio IRQ comes every period and returns, the main loop runs between two of
them, most reads of the control line succeed, and a producer that lives
unpauses when it sees ACTIVE.

**Exclusions.** Three switches are off in the passing runs, because with them
on the code does not keep the properties; each is described below.
`RebaseRace`: an interrupt between the poll's computation of its rebase and
the masked stores. `Wakes`: a core 1 that took no tick for 2 s was only slow.
`CommitLost`: core 1 is lost inside the commit window of a host-visible
allocation. Also, a producer pauses only once its lease is live.

### Disagreements between the code and its comments

`PROJECT.json` lists these as findings. `finding_lease_rebase` is one of the
project's runs; the others are reproduced with the configuration named, by
`tlc -config <cfg> <module>`.

* `finding_lease_rebase` (`FindingLeaseRebase.cfg`, `LeasePreconvert`): the
  poll computes its rebase of the staging cursors with IRQs on. An interrupt
  that catches up in between rebases them itself; the poll then subtracts a
  second time, the cursors wrap, and since 2^32 is no multiple of the ring the
  position in it jumps ("IRQ-safe so the ISR never sees the two words
  mid-adjustment", `audio_fabric_lease.c`).
* `FindingAppStreams.cfg`, `AppRuntime`: the app watchdog cold-restarts core 1
  and so frees the decoders it holds, but does not poison the sessions that
  use them, as the other caller does ("so core 0 never destroys against
  reclaimed memory", `scheduler_arm.c`).
* `AppRuntime` with `CommitLost = TRUE`: the flag of the commit window
  survives the restart, and no stop, reset or limit stops a later app.
* `AppRuntime` with `Wakes = TRUE`: a task that runs for 2 s inside an
  interrupt tick has a healthy core 1 cold-restarted, and its slot stays
  CLAIMED for ever.
* `FindingStaleRestart.cfg`, `MCScheduler`: a restart request that the reset
  path has already served by its own cold restart stays set; the next poll
  restarts the healthy worker and counts a fault ("Only a faulted or stuck
  worker is cold-restarted", `scheduler.h`).
* `FindingHang.cfg`, `MCScheduler`: a module fault outside a task hangs core
  1; core 0 notices, prints, and never resets it ("hang until core 0 notices
  core1_fault.code and resets the core", `core2.c`).
* `FindingLockReset.cfg`, `SmpLock`: `sdk_smp_lock_reset` frees the spin word
  before the owner and the depth. When core 1's fault handler calls it, core 0
  may take the lock in between and has its own owner and depth erased: its
  release then does nothing, or its next nested acquire waits for itself ("CPU
  id of holder, -1 when free", `sdk_smp_lock.h`). The cold restart resets the
  lock with core 1 stopped and has no such window, as `smp_lock` shows.
* `FindingSurfaceAlign.cfg`, `SurfaceAllocator`: with an alignment above 256
  bytes `surface_allocator_alloc_aligned` may return an address inside a live
  or reserved block, because the unsigned gap wraps when the aligned candidate
  is past the next block ("so no client allocator may hand it out",
  `surface_allocator.h`). The passing run uses the natural alignment there;
  `alloc_range` has the missing test and is checked at every alignment.
* `FindingSharedBackup.cfg`, `MCFwUpdate`: two targets that differ only in
  their extension share a backup file; RESTORE of one brings back the other.

The models also show, without a run of their own (`PROJECT.json`, hazards):

* the quiesce tests `minigl_in_flight` twice, and an idle MiniGL worker's tick
  in between has a healthy core 1 restarted;
* a cold restart inside a tick leaves `minigl_in_flight` set with nothing
  executing, so that every later quiesce waits its full bound;
* `fwup_wait_idle` may give up on a job that has finished, because the harvest
  stops at an earlier completion the ring has no room for.

None of the three breaks a property of the passing runs: the restart orphans
no claim, the waits end, and the SD card keeps one owner.

## 4. Proofs

### Scheduler

Proved with TLAPS for every table size, ring size, fault threshold, bound and
set of requests, from the `ASSUME`s in `TaskQueue` and `Scheduler` (positive
sizes, request ids distinct from internal jobs) and nothing else:

| Theorem | States |
|---|---|
| `TypeCorrect` | `Spec => []TypeOK` |
| `Invariant` | `Spec => []IInv` |
| `OneOwner` | `Spec => []ClaimHasOneOwner` |
| `LateWriteExcluded` | `Spec => []NoLateWrite` |
| `FallbackComplete` | `Spec => []NothingStranded` |
| `NoRequestDropped` | `Spec => []PendingIsQueued` |
| `MarkersRetire` | `Spec => []MarkerHasJob` |
| `StorageExclusive` | `Spec => []StorageHasOneOwner`, if no request is named `"FWUP"` |
| `TakenBackClean` | `Spec => []TakeBackClean` |
| `KeepsPromise` | `Spec => MailboxPromise` |

None of these is inductive. `IInv` is what the first of them need, in five
parts:

* `ControlInv`: core 0's return labels agree with where it is, and the Amiga
  is held in reset wherever the reset path can be.
* `EmptyInv`: nothing is QUEUED or CLAIMED from the quiesce's `taskq_init` to
  the Amiga's boot, nor while core 1 is out of service outside the drain.
  This is why a healthy worker cannot start a task of the old lifetime during
  the teardown.
* `RequestInv`: a restart request comes from a core 1 that stopped with its
  slot already failed, or is left over from a reset that emptied the table.
  Core 0 decides on a restart several steps before it holds core 1, so the
  reason has to be carried along to the step that would orphan a claim.
* `CurrentInv`: `core1_current_slot` names the task core 1 runs, so a fault
  fails the right slot. After some restarts the word is stale; that is
  harmless because a fault outside a task needs a MiniGL tick, a tick needs a
  registered worker, and a worker is registered only by a task that ran since
  the restart and reset the word.
* `OwnerInv`: a slot a core works on is CLAIMED and of the current lifetime,
  or core 1 is cut off: the quiesce has cleared the table and is restarting
  it. Every QUEUED or CLAIMED slot is of the current lifetime.

The proof has one lemma per group of actions (core 1, poll, cold restart,
quiesce, reset, client), one step per action. Each part of `IInv`, and of the
invariants below, was model-checked before it was proved.

`SchedulerJobProofs` adds the correspondence the other safety properties rest
on. A slot is *live* if it is not FREE and stamped with this lifetime; a
request or marker is *owed* if it was accepted in this lifetime and is not
answered, or is up. `JobsInv` says that live slots and what is owed are in
one-to-one correspondence wherever the table is *kept*, which is everywhere but
between a reset's first quiesce and `sdk_mailbox_init`: the quiesce empties the
table while requests of the ending lifetime are still owed, and the new
generation ends the debt. `PastInv` (no stamp is of a lifetime to come) makes
the new generation start with nothing live and nothing owed. `StorageInv` says
that the wait for the firmware updater leaves no FWUP task to run, by its
marker or by the quiesce after a timeout; `CleanInv` that a clean core 1 has
answered is still clean, because with the table empty it starts no task.

It also maps each step of the code to a step of
`DeferredCompletion`. Dispatch accepts or answers a new request, the client
consumes, `sdk_mailbox_init` drops what is pending, and a harvest answers what
is pending: that its request was not answered before, by an inline path, an
earlier harvest or an earlier lifetime, is `JobsInv`. Every other step leaves
every fate and the ring as they are.

### Card pool

For every layout of the two ranges, every set of owners, class limit, table
size and request size, from `BoundsAssumption` and `OwnersAssumption`:
`TypeCorrect`, `NeverHandedOutTwice` (`BlocksDisjoint`), `AlwaysPlaced`
(`BlocksPlaced`), `WindowHasOneOwner` (`WindowExclusive`), `FirmwareKept`
(the action property `FirmwareSurvives`), `AccountingStaysExact`
(`AccountingExact`), `FirstFitMissesNothing` (`FirstFitComplete`) and
`QueriesAreExact` (`QueriesExact`).

`IInv` is `TypeOK`, `BlocksDisjoint`, `BlocksPlaced` and two more parts.
Disjointness needs placement: a gap is measured only against blocks that start
in its range, so a block of the permanent range that ran into the window would
be missed. `ResetInv` ties the labels of the reset handler to gate,
configuration and range: the gate is closed before the window is taken back,
the window is closed from then to the lending, and the two reads of the
configuration around the module reset agree. `TaskInv` says that a task of
core 1 works in the window only while the window is lent.

The accounts rest on a second invariant, `AccountInv`: the table is finite and
what each class has been charged is the number of pages in its blocks. That
number is the cardinality of a set of (block, page) pairs, so that entering a
block or removing any set of them, as the releases and the take-back do, is
one union or difference of finite sets. The first fit and the queries follow
from the two invariants without being inductive. Below a free run of pages
the highest candidate of `find_gap` (the start of the range or the end of a
block) has the whole run after it; the pages in no block are those of the
range less those of the disjoint blocks in it.

### SMP lock

For every nesting depth: `Exclusive` (`MutualExclusion`), faults inside the
section included; and, until such a fault, `HolderKept` (`HolderUndisturbed`),
`NotOrphaned` (`NeverOrphaned`) and `IrqsBalanced` (`IrqDiscipline`). `IInv` adds the word's
account of the section (`WordInv`: a core that has taken the lock implies the
word is set, except core 1 in the handler, which gives it back), the callers'
bound (`NestInv`), that the depth counts the acquires of a core no reset
disturbs (`UndisturbedInv`), and, until core 1 faults inside the section, the exact
owner, depth and IRQ state at every label (`QuietInv`). Exclusion holds even in the finding's trace: what breaks there
is the owner word, not the spin word.

### Surface allocator

For every heap, word size, table size and request size, from
`BoundsAssumption`, and for `surface_allocator_alloc_aligned` at its natural
alignment (`Aligns = {1}`; above it `FindingSurfaceAlign.cfg` shows that
blocks overlap), `surface_allocator_alloc_range` at any: `SurfaceInvariant`
(`IInv`), `FirstFitIsExact` (`FirstFitExact`), `TableStaysExact`
(`TableExact`) and `BlocksStayApart` (`BlocksApart`).

`IInv` says that the table is a sorted sequence of blocks, apart and inside
the heap, and that `used` is the number of granules they cover. It is
inductive, but only because every search returns a place where a block fits,
so the searches come first. `GapStart` and `GapEnd` are the free runs between
neighbours: a run is free exactly when it lies in one (`GapFree`,
`FreeInGap`), and so the unsigned differences of the code never wrap and
`LargestFree` is the longest run.

`Bisection` and `Walk` are recursive functions, which have a value only if
there is a function that satisfies them. `BisectExists` and `WalkExists`
build one, by length of the bounds and by row of the table. `BisectFinds`
then shows by the shortest bounds for which it would fail that the bisection
ends where every block before starts below the address and none after does;
`WalkFinds`, by the last row, that the windowed walk ends at the lowest place
above everything it passed over, or with a candidate that fails the final
test of the window. An alignment that leaves the word is among its cases.

### Firmware update

For every set of targets, contents and chunks, from `PathsDistinct` (targets,
backups, discard slots and the temporary file are different names), `ChunksNat` and `NoneIsNoContent`: `TypeCorrect`, `NothingTorn`
(`NoTornFile`), `LatestAnswered` (`AnswerIsLatest`), `WholeOrNot` (the action
property `AllOrNothing`) and, if no two targets share a backup (`OwnBackups`,
which `FindingSharedBackup.cfg` violates), `NeverLost` (`NeverWithout`).

The work is in carrying what a command has done so far from one FatFs call to
the next, with a fault, an ABORT, a reset or a power loss possible after each.
`LabelInv` ties the label of the command to the command and to what core 1 is
doing; `OpenInv` says that an open transfer has its temporary file;
`StageInv` that a command's bytes are staged before the client reuses the
buffer; `LatestInv` that register, job and answer between them hold at most one
command that is the client's latest; `TornInv` that no torn temporary file
meets a WRITE or a CLOSE; `MovesInv` how many renames of a commit or a restore
have been done and what target, backup and discard held before.

### Applications

For every number of loads and resets: `TypeCorrect`, whatever the switches;
and, with `Wakes` and `CommitLost` off (with either on the code does not keep
them, see above), `ClaimsExecuted` (`ClaimIsExecuted`), `TeardownExclusive`
(`OneTeardown`), `ArenaHeld` (`ArenaFollowsApp`) and `ResetIsClean`
(`ResetClean`).

`HostInv` says where each core can be given where the other is. `Restarting`:
a restart is only ever requested by a core 1 that has parked. `Resetting`:
a reset core 0 no longer waits for never meets core 0's own recovery.
`Watching`: from the watchdog's first step to its restart core 1 is lost, and
afterwards in the worker loop with no app to run. `Unwinding`: how far core 0's
teardown for a parked core 1 has come. `Where`: while core 0 is not
recovering, core 1's place tells what the app has of state, flags and arena.
`TickContext` ties a tick to what it interrupted.

### Leases

For every ring, transmit ring, word size, capacity, preroll, budget and
timeout that the assumption `Sizes` allows, and if no interrupt lands between
the poll's computation of its rebase and the masked stores (`RebaseRace` off;
the code does not exclude it, which is the finding `finding_lease_rebase`):
`LeaseInvariant` (`PInv`), `LeaseTypes` (`TypeOK`), `AlwaysStagedInOrder`
(`StagedInOrder`) and `AlwaysQueueExact` (`QueueExact`).

`StagedInOrder` speaks of the slots between the two cursors, modulo the word
and then modulo the ring. `PInv` removes the first: by `Cursors` no cursor
runs ahead of the other by more than the runway, and whoever takes one past
the limit rebases both, so neither wraps. `Ring` says which source period
each slot holds, including those behind the playback cursor that are not yet
credited, because an underrun replays them. A rebase subtracts a whole number
of rings and so moves no period to another slot (`ModRound`); two periods less
than a ring apart never share one (`ModApart`). `Queue` says the same of the
periods handed to the DMA. `Converter` says which period the filter's history
expects next: in the shared converter, in the poll's snapshot and in output
the poll has not published, which an interrupt may have overtaken.
`Views` and `Where` are what a poll suspended at each label still relies on.

### Only model-checked

The temporal properties under fairness (`lease_liveness` and those of the
other runs): neither liveness nor ENABLED is within the proof system's reach.
Every safety property of a passing run is a theorem above. The passing runs
and the theorems make the same assumptions about the environment
(`RebaseRace`, `Wakes` and `CommitLost` off, no shared backup, `Aligns = {1}`),
each with the finding that shows what breaks without it.

Induction enters only over numbers, as the least element of a set of natural
numbers (`LeastNat`): the provers cannot instantiate the library's induction
theorems, but a set of counterexamples has a least one.

## 5. Plan

What is left, most important first.

1. `Mailbox`: the request and completion rings with wrap-around, doorbell and
   batch limits; composed with `Scheduler` through `ring`.
2. The audio fabric beyond one converting lease: the stream pump and its
   restart beside a lease that goes live, the rebuild of queued periods after
   a detach, epochs over several grants.
3. The pool's table as an array under `SmpLock`, with a kill of core 1 inside
   the move; the decode tracker that reclaims what it held.
4. `OverlaySchedule`, `UsbProxy`, `EthernetRings`: small machines of their
   own, sharing no state.
5. Proofs: that `CardPool` is what its array under `SmpLock` implements (with
   item 3); the invariants of the modules of items 1, 2 and 4.

## 6. Not modelled

Rendering, codecs, audio arithmetic, configuration parsing, device registers,
the RTL, the board support package and vendored libraries: no concurrency or
protocol of their own that this scale of checking says anything about.
`PROJECT.json` gives the reason part by part.
