------------------------------- MODULE FwUpdate -------------------------------
(***************************************************************************)
(* The firmware-file push of fw_update.c and its job plumbing in main.c:   *)
(* the Amiga pushes a file over the Zorro registers into a temporary file  *)
(* on the SD card, CLOSE commits it over the target and keeps the previous *)
(* file as a backup, RESTORE promotes the backup.  The main loop on core 0 *)
(* stages a command and queues it on core 1; core 1 runs it FatFs call by  *)
(* FatFs call, may fault in the middle, and the power may go at any time.  *)
(* Each FatFs call is one step and may fail without effect.                *)
(***************************************************************************)
EXTENDS Naturals, FiniteSets

CONSTANTS Target,     \* names the client pushes
          Backup,     \* backup files
          BackupOf,   \* make_backup_path: the backup file of each target
          Discard,    \* ZZFWUP.DEL and the numbered discard slots
          Temp,       \* ZZFWUP.TMP
          BadName,    \* a name validate_name rejects
          None,
          Push,       \* identities of pushed contents
          Chunks      \* bound: chunks a transfer may grow to

Path == Target \cup Backup \cup Discard \cup {Temp}

ASSUME PathsDistinct ==
  /\ BackupOf \in [Target -> Backup]
  /\ Target \cap Backup = {} /\ (Target \cup Backup) \cap Discard = {}
  /\ Temp \notin Target \cup Backup \cup Discard
  /\ BadName \notin Target
  /\ None \notin Path \cup {BadName}

ASSUME ChunksNat == Chunks \in Nat

(* What a file holds: the push it came from, for which target, how many    *)
(* chunks, and whether some of its bytes are not the client's.             *)
Content == [of : Target, push : Push, n : 0..Chunks, bad : BOOLEAN]
ASSUME NoneIsNoContent == None \notin Content
Op == {"OPEN", "WRITE", "CLOSE", "ABORT", "RESTORE"}
Code == {"OK", "ERR_NAME", "ERR_OPEN", "ERR_WRITE", "ERR_CLOSE", "ERR_STATE",
         "ERR_NO_BACKUP", "ERR_RESTORE", "ERR_UNKNOWN"}

VARIABLES
  card,    \* the SD card: Path -> content or None
  open,    \* fwup_open_flag
  path,    \* fwup_path
  job,     \* the staged job and the state of its task
  core1,   \* core 1 is in service
  answer,  \* fwup_job_done with its result
  reg,     \* fwup_pending, its command, fwup_staged, fwup_status, end of pass
  buf,     \* the shared buffer holds the bytes of a command not yet staged
  client,  \* what the client believes of its transfer
  before   \* history: target and backup as the job found them

vars == <<card, open, path, job, core1, answer, reg, buf, client, before>>

NoJob == [op |-> "ABORT", arg |-> None, own |-> TRUE, state |-> "none", on |-> "core1",
          at |-> "start", res |-> "OK", disc |-> None, had |-> FALSE, undone |-> TRUE,
          bad |-> FALSE]
NoVersions == [live |-> None, bak |-> None]
NoAnswer == [done |-> FALSE, op |-> "ABORT", res |-> "OK", own |-> TRUE]
IdleReg == [pending |-> FALSE, staged |-> FALSE, op |-> "ABORT", arg |-> None,
            status |-> "OK", own |-> TRUE, passed |-> TRUE]

Labels == {"start", "unlinkold", "check", "create", "setpath", "commit", "backup",
           "install", "unlive", "unbackup", "clear", "promote", "unpromote",
           "unlink", "end"}

(* The card's files are typed, the job's words are values of their sets.   *)
TypeOK ==
  /\ card \in [Path -> Content \cup {None}]
  /\ open \in BOOLEAN
  /\ path \in Target \cup {None}
  /\ job \in [op : Op, arg : Target \cup {BadName, None}, own : BOOLEAN,
              state : {"none", "queued", "running", "complete", "failed"},
              on : {"core0", "core1"}, at : Labels, res : Code,
              disc : Discard \cup {None}, had : BOOLEAN, undone : BOOLEAN,
              bad : BOOLEAN]
  /\ core1 \in BOOLEAN
  /\ answer \in [done : BOOLEAN, op : Op, res : Code, own : BOOLEAN]
  /\ reg \in [pending : BOOLEAN, staged : BOOLEAN, op : Op,
              arg : Target \cup {BadName, None}, status : Code \cup {"BUSY"},
              own : BOOLEAN, passed : BOOLEAN]
  /\ buf \in BOOLEAN
  /\ client \in {"idle", "open", "spoiled"}
  /\ before \in [live : Content \cup {None}, bak : Content \cup {None}]

(* A card prepared on another machine: some targets, no backups yet.       *)
Init ==
  /\ \E files \in SUBSET Target : \E id \in [files -> Push] :
       /\ \A p, q \in files : p # q => id[p] # id[q]
       /\ card = [p \in Path |->
            IF p \in files
            THEN [of |-> p, push |-> id[p], n |-> Chunks, bad |-> FALSE]
            ELSE None]
  /\ open = FALSE /\ path = None /\ job = NoJob /\ core1 = TRUE
  /\ answer = NoAnswer /\ reg = IdleReg /\ buf = FALSE /\ client = "idle"
  /\ before = [live |-> None, bak |-> None]

-----------------------------------------------------------------------------
(* FatFs, as far as fw_update.c depends on it.                             *)
Exists(p) == card[p] # None

(* f_rename refuses a target name that exists.                             *)
CanRename(a, b) == Exists(a) /\ ~Exists(b)
Renamed(a, b) == [card EXCEPT ![a] = None, ![b] = card[a]]

Running == job.state = "running"
fw_update_busy == job.on = "core1" /\ job.state # "none"

(* The command goes on at label l, or ends with result r.                  *)
Goto(l) == job' = [job EXCEPT !.at = l]
Finish(r) == job' = [job EXCEPT !.at = "end", !.res = r]
JobOnly == UNCHANGED <<card, open, path>>
Others == UNCHANGED <<core1, answer, reg, buf, client, before>>

(* The push identities that no file of the card has.                       *)
FreshPush == {v \in Push : \A p \in Path : Exists(p) => card[p].push # v}

-----------------------------------------------------------------------------
(* fw_update_open                                                          *)
OpenStart ==
  /\ Running /\ job.op = "OPEN" /\ job.at = "start"
  /\ IF open \/ path # None
     THEN open' = FALSE /\ Goto("unlinkold")            \* close_silent
     ELSE UNCHANGED open /\ Goto("check")
  /\ before' = NoVersions
  /\ UNCHANGED <<card, path, core1, answer, reg, buf, client>>

(* f_unlink of the prior temporary file, its result ignored.               *)
OpenUnlinkPrior ==
  /\ Running /\ job.at = "unlinkold"
  /\ \/ card' = [card EXCEPT ![Temp] = None]
     \/ UNCHANGED card
  /\ path' = None
  /\ Goto("check")
  /\ UNCHANGED open /\ Others

(* validate_name, f_mkdir, f_stat of the target, f_unlink of a stale temp. *)
OpenCheck ==
  /\ Running /\ job.at = "check"
  /\ \/ job.arg \notin Target /\ Finish("ERR_NAME") /\ JobOnly
     \/ job.arg \in Target /\ Finish("ERR_OPEN") /\ JobOnly
     \/ /\ job.arg \in Target
        /\ card' = [card EXCEPT ![Temp] = None]
        /\ Goto("create")
        /\ UNCHANGED <<open, path>>
  /\ Others

OpenCreate ==
  /\ Running /\ job.at = "create"
  /\ \/ Finish("ERR_OPEN") /\ JobOnly
     \/ /\ FreshPush # {}
        /\ card' = [card EXCEPT ![Temp] = [of |-> job.arg, n |-> 0, bad |-> FALSE,
                                           push |-> CHOOSE v \in FreshPush : TRUE]]
        /\ open' = TRUE
        /\ Goto("setpath")
        /\ UNCHANGED path
  /\ Others

OpenSetPath ==
  /\ Running /\ job.at = "setpath"
  /\ path' = job.arg
  /\ Finish("OK")
  /\ UNCHANGED <<card, open>> /\ Others

(* fw_update_write: a failed f_write may have stored part of the chunk.    *)
Write ==
  /\ Running /\ job.op = "WRITE" /\ job.at = "start"
  /\ \/ ~open /\ Finish("ERR_STATE") /\ UNCHANGED card
     \/ /\ open /\ card[Temp].n < Chunks
        /\ card' = [card EXCEPT ![Temp].n = @ + 1, ![Temp].bad = @ \/ job.bad]
        /\ Finish("OK")
     \/ /\ open
        /\ card' = [card EXCEPT ![Temp].bad = TRUE]
        /\ Finish("ERR_WRITE")
  /\ before' = NoVersions
  /\ UNCHANGED <<open, path, core1, answer, reg, buf, client>>

-----------------------------------------------------------------------------
Versions(t) == [live |-> card[t], bak |-> card[BackupOf[t]]]

(* fw_update_close: f_sync and f_close always both run.                    *)
Close ==
  /\ Running /\ job.op = "CLOSE" /\ job.at = "start"
  /\ before' = IF path # None THEN Versions(path) ELSE NoVersions
  /\ open' = FALSE
  /\ \/ ~open /\ Finish("ERR_STATE")
     \/ open /\ Finish("ERR_CLOSE")
     \/ open /\ Goto("commit")
  /\ UNCHANGED <<card, path, core1, answer, reg, buf, client>>

(* commit_temp_file, to the rename that moves an older backup aside: no    *)
(* backup path for an empty target, a failed f_stat, no free discard slot  *)
(* (reserve_discard_path) and a failed rename all end the command.         *)
CommitDisplace ==
  /\ Running /\ job.at = "commit"
  /\ \/ Finish("ERR_CLOSE") /\ JobOnly
     \/ path # None /\ ~Exists(path) /\ Goto("install") /\ JobOnly
     \/ path # None /\ Exists(path) /\ ~Exists(BackupOf[path]) /\ Goto("backup") /\ JobOnly
     \/ /\ path # None /\ Exists(path) /\ Exists(BackupOf[path])
        /\ \E d \in Discard :
             /\ CanRename(BackupOf[path], d)
             /\ card' = Renamed(BackupOf[path], d)
             /\ job' = [job EXCEPT !.at = "backup", !.disc = d]
        /\ UNCHANGED <<open, path>>
  /\ Others

CommitBackup ==
  /\ Running /\ job.at = "backup"
  /\ \/ /\ CanRename(path, BackupOf[path])
        /\ card' = Renamed(path, BackupOf[path])
        /\ job' = [job EXCEPT !.at = "install", !.had = TRUE]
        /\ UNCHANGED <<open, path>>
     \/ Goto("unbackup") /\ JobOnly
  /\ Others

CommitInstall ==
  /\ Running /\ job.at = "install"
  /\ \/ /\ CanRename(Temp, path)
        /\ card' = Renamed(Temp, path)
        /\ Goto("clear")
        /\ UNCHANGED <<open, path>>
     \/ Goto("unlive") /\ JobOnly
  /\ Others

(* Mutant: a failed install leaves the target moved aside.                 *)
NoUnlive ==
  /\ Running /\ job.at = "unlive"
  /\ Goto("unbackup")
  /\ JobOnly /\ Others

(* The two roll-back renames; each may fail, and is only logged.           *)
CommitUnlive ==
  /\ Running /\ job.at = "unlive"
  /\ \/ ~job.had /\ Goto("unbackup") /\ JobOnly
     \/ /\ job.had /\ CanRename(BackupOf[path], path)
        /\ card' = Renamed(BackupOf[path], path)
        /\ Goto("unbackup")
        /\ UNCHANGED <<open, path>>
     \/ job.had /\ job' = [job EXCEPT !.at = "unbackup", !.undone = FALSE] /\ JobOnly
  /\ Others

CommitUnbackup ==
  /\ Running /\ job.at = "unbackup"
  /\ \/ job.disc = None /\ Finish("ERR_CLOSE") /\ JobOnly
     \/ /\ job.disc # None /\ CanRename(job.disc, BackupOf[path])
        /\ card' = Renamed(job.disc, BackupOf[path])
        /\ Finish("ERR_CLOSE")
        /\ UNCHANGED <<open, path>>
     \/ /\ job.disc # None
        /\ job' = [job EXCEPT !.at = "end", !.res = "ERR_CLOSE", !.undone = FALSE]
        /\ JobOnly
  /\ Others

CloseClear ==
  /\ Running /\ job.at = "clear"
  /\ path' = None
  /\ Finish("OK")
  /\ UNCHANGED <<card, open>> /\ Others

(* Mutant: the active file is displaced before the backup is known to exist. *)
RestoreUnchecked ==
  /\ Running /\ job.op = "RESTORE" /\ job.at = "start"
  /\ ~open /\ path = None /\ job.arg \in Target
  /\ before' = Versions(job.arg)
  /\ \/ Finish("ERR_RESTORE") /\ UNCHANGED card
     \/ \E d \in Discard :
          /\ CanRename(job.arg, d)
          /\ card' = Renamed(job.arg, d)
          /\ job' = [job EXCEPT !.at = "promote", !.disc = d]
  /\ UNCHANGED <<open, path, core1, answer, reg, buf, client>>

(* fw_update_restore: checks, then the active file moves to a discard slot *)
(* and the backup takes its name; a failed promotion is rolled back.       *)
Restore ==
  /\ Running /\ job.op = "RESTORE" /\ job.at = "start"
  /\ before' = IF job.arg \in Target THEN Versions(job.arg) ELSE NoVersions
  /\ \/ (open \/ path # None) /\ Finish("ERR_STATE") /\ UNCHANGED card
     \/ ~open /\ path = None /\ job.arg \notin Target /\ Finish("ERR_NAME") /\ UNCHANGED card
     \/ /\ ~open /\ path = None /\ job.arg \in Target
        /\ \/ Finish("ERR_OPEN") /\ UNCHANGED card
           \/ ~Exists(BackupOf[job.arg]) /\ Finish("ERR_NO_BACKUP") /\ UNCHANGED card
           \/ /\ Exists(BackupOf[job.arg])
              /\ \/ Finish("ERR_RESTORE") /\ UNCHANGED card
                 \/ ~Exists(job.arg) /\ Goto("promote") /\ UNCHANGED card
                 \/ \E d \in Discard :
                      /\ CanRename(job.arg, d)
                      /\ card' = Renamed(job.arg, d)
                      /\ job' = [job EXCEPT !.at = "promote", !.disc = d]
  /\ UNCHANGED <<open, path, core1, answer, reg, buf, client>>

RestorePromote ==
  /\ Running /\ job.at = "promote"
  /\ \/ /\ CanRename(BackupOf[job.arg], job.arg)
        /\ card' = Renamed(BackupOf[job.arg], job.arg)
        /\ Finish("OK")
     \/ Goto("unpromote") /\ UNCHANGED card
  /\ UNCHANGED <<open, path>> /\ Others

RestoreUnpromote ==
  /\ Running /\ job.at = "unpromote"
  /\ \/ job.disc = None /\ Finish("ERR_RESTORE") /\ UNCHANGED card
     \/ /\ job.disc # None /\ CanRename(job.disc, job.arg)
        /\ card' = Renamed(job.disc, job.arg)
        /\ Finish("ERR_RESTORE")
     \/ /\ job.disc # None
        /\ job' = [job EXCEPT !.at = "end", !.res = "ERR_RESTORE", !.undone = FALSE]
        /\ UNCHANGED card
  /\ UNCHANGED <<open, path>> /\ Others

(* fw_update_abort                                                         *)
Abort ==
  /\ Running /\ job.op = "ABORT" /\ job.at = "start"
  /\ open' = FALSE
  /\ IF ~open /\ path = None THEN Finish("OK") ELSE Goto("unlink")
  /\ before' = NoVersions
  /\ UNCHANGED <<card, path, core1, answer, reg, buf, client>>

AbortUnlink ==
  /\ Running /\ job.at = "unlink"
  /\ \/ path # None /\ card' = [card EXCEPT ![Temp] = None]
     \/ UNCHANGED card
  /\ path' = None
  /\ Finish("OK")
  /\ UNCHANGED open /\ Others

-----------------------------------------------------------------------------
(* The task of the job on core 1 (TASKQ_OP_FWUP): claimed and run; its     *)
(* result goes into the task's payload.                                    *)
Claim ==
  /\ core1 /\ job.on = "core1" /\ job.state = "queued"
  /\ job' = [job EXCEPT !.state = "running"]
  /\ JobOnly /\ Others

Complete ==
  /\ job.on = "core1" /\ Running /\ job.at = "end"
  /\ job' = [job EXCEPT !.state = "complete"]
  /\ JobOnly /\ Others

(* record_fault fails the task; a write may be cut in the middle.  The     *)
(* watchdog may have had enough of core 1.                                 *)
Fault ==
  /\ job.on = "core1" /\ Running
  /\ job' = [job EXCEPT !.state = "failed"]
  /\ card' = IF open /\ job.op = "WRITE" /\ job.at = "start"
             THEN [card EXCEPT ![Temp].bad = TRUE] ELSE card
  /\ core1' \in {core1, FALSE}
  /\ UNCHANGED <<open, path, answer, reg, buf, client, before>>

(* The single-core fallback fails a LONG task that is still queued.        *)
DrainFail ==
  /\ ~core1 /\ job.on = "core1" /\ job.state = "queued"
  /\ job' = [job EXCEPT !.state = "failed"]
  /\ JobOnly /\ Others

(* Mutant: a faulted job retires with its payload, which is still zero.    *)
FailureIsZero(o) == "OK"

(* fw_update_retire_failed: the command's own error.                       *)
FailureOf(o) == CASE o = "OPEN" -> "ERR_OPEN" [] o = "WRITE" -> "ERR_WRITE"
                  [] o = "CLOSE" -> "ERR_CLOSE" [] o = "RESTORE" -> "ERR_RESTORE"
                  [] OTHER -> "ERR_UNKNOWN"

(* Mutant: only a task that completed retires its job.                     *)
RetireComplete ==
  /\ job.on = "core1" /\ job.state = "complete"
  /\ answer' = [done |-> TRUE, op |-> job.op, own |-> job.own, res |-> job.res]
  /\ job' = NoJob
  /\ before' = NoVersions
  /\ JobOnly /\ UNCHANGED <<core1, reg, buf, client>>

(* scheduler_core0_poll harvests the task: fw_update_retire.               *)
Retire ==
  /\ job.on = "core1" /\ job.state \in {"complete", "failed"}
  /\ answer' = [done |-> TRUE, op |-> job.op, own |-> job.own,
                res |-> IF job.state = "complete" THEN job.res ELSE FailureOf(job.op)]
  /\ job' = NoJob
  /\ before' = NoVersions
  /\ JobOnly /\ UNCHANGED <<core1, reg, buf, client>>

(* Core 1 is given up over other work, between two jobs.                   *)
GiveUpCore1 ==
  /\ core1 /\ ~(fw_update_busy /\ job.state # "queued")
  /\ core1' = FALSE
  /\ JobOnly /\ UNCHANGED <<job, answer, reg, buf, client, before>>

-----------------------------------------------------------------------------
(* fwup_publish, and what the client makes of an answer to its command.    *)
Published(res, own) == [reg EXCEPT !.status = res, !.own = own]
ClientSees(op, res) ==
  IF op \in {"OPEN", "WRITE"}
  THEN IF res = "OK" THEN "open" ELSE IF op = "OPEN" THEN "idle" ELSE "spoiled"
  ELSE "idle"

InLoop == ~(Running /\ job.on = "core0")

(* Mutant: the result of a superseded job is published too.                *)
PublishAnyResult ==
  /\ InLoop /\ answer.done
  /\ answer' = NoAnswer
  /\ reg' = Published(answer.res, answer.own)
  /\ client' = ClientSees(answer.op, answer.res)
  /\ JobOnly /\ UNCHANGED <<job, core1, buf, before>>

(* One main-loop pass.  First the result of a retired job: superseded by a *)
(* command written meanwhile, it is dropped.  Then the pending command:    *)
(* staged once, queued if a task slot is free, run inline without core 1,  *)
(* or kept for the next pass.                                              *)
TakeResult ==
  /\ InLoop /\ answer.done
  /\ answer' = NoAnswer
  /\ IF reg.pending
     THEN UNCHANGED <<reg, client>>
     ELSE /\ reg' = Published(answer.res, answer.own)
          /\ client' = ClientSees(answer.op, answer.res)
  /\ JobOnly /\ UNCHANGED <<job, core1, buf, before>>

(* fw_update_stage: the bytes come from the shared buffer as it is now.    *)
fw_update_stage ==
  {[NoJob EXCEPT !.op = reg.op, !.arg = a, !.bad = ~buf] :
     a \in IF reg.op \in {"OPEN", "RESTORE"}
           THEN IF buf THEN {reg.arg} ELSE Target \cup {BadName} ELSE {None}}

Stage ==
  /\ InLoop /\ ~answer.done /\ reg.pending /\ ~fw_update_busy /\ ~reg.staged
  /\ job' \in fw_update_stage
  /\ reg' = [reg EXCEPT !.staged = TRUE]
  /\ buf' = FALSE
  /\ JobOnly /\ UNCHANGED <<core1, answer, client, before>>

(* sdk_mailbox_enqueue_internal found a slot.                              *)
Enqueue ==
  /\ InLoop /\ ~answer.done /\ reg.pending /\ reg.staged /\ ~fw_update_busy
  /\ core1
  /\ job' = [job EXCEPT !.state = "queued", !.on = "core1"]
  /\ answer' = NoAnswer
  /\ reg' = [reg EXCEPT !.pending = FALSE, !.staged = FALSE, !.passed = TRUE,
                        !.op = "ABORT", !.arg = None]
  /\ JobOnly /\ UNCHANGED <<core1, buf, client, before>>

RunInline ==
  /\ InLoop /\ ~answer.done /\ reg.pending /\ reg.staged /\ ~fw_update_busy
  /\ ~core1
  /\ job' = [job EXCEPT !.state = "running", !.on = "core0"]
  /\ JobOnly /\ Others

InlineDone ==
  /\ Running /\ job.on = "core0" /\ job.at = "end"
  /\ reg' = [Published(job.res, job.own) EXCEPT
                !.pending = FALSE, !.staged = FALSE, !.passed = TRUE,
                !.op = "ABORT", !.arg = None]
  /\ client' = ClientSees(job.op, job.res)
  /\ job' = NoJob
  /\ before' = NoVersions
  /\ JobOnly /\ UNCHANGED <<core1, answer, buf>>

(* The pass ends with nothing to queue, behind a running job, or with the  *)
(* task slots full; the Zorro request loop comes next.                     *)
PassEnd ==
  /\ InLoop /\ ~answer.done /\ ~reg.passed
  /\ reg.pending => fw_update_busy \/ (reg.staged /\ core1)
  /\ reg' = [reg EXCEPT !.passed = TRUE]
  /\ JobOnly /\ UNCHANGED <<job, core1, answer, buf, client, before>>

-----------------------------------------------------------------------------
(* Zorro requests, one per pass.  A client stages bytes and writes         *)
(* REG_ZZ_FWUP_CMD; it may give up on a BUSY status and send ABORT, whose  *)
(* own answer it then waits for.                                           *)
InRequest == InLoop /\ reg.passed

MayWrite(o) ==
  /\ reg.status = "BUSY" => o = "ABORT" /\ client # "spoiled"
  /\ o = "WRITE" => client = "open" /\ (Exists(Temp) => card[Temp].n < Chunks)
  /\ o = "CLOSE" => client = "open"
  /\ o = "OPEN" => FreshPush # {}

WriteCmd ==
  /\ InRequest
  /\ \E o \in Op, a \in Target \cup {BadName} :
       /\ MayWrite(o)
       /\ reg' = [reg EXCEPT !.pending = TRUE, !.staged = FALSE, !.status = "BUSY",
                             !.op = o, !.arg = a, !.passed = FALSE]
       /\ buf' = TRUE
       /\ client' = IF reg.status = "BUSY" THEN "spoiled" ELSE client
  /\ job' = [job EXCEPT !.own = FALSE]
  /\ answer' = [answer EXCEPT !.own = FALSE]
  /\ JobOnly /\ UNCHANGED <<core1, before>>

(* Another driver (zzsd, the USB proxy) reuses the shared buffer.          *)
ReuseBuffer ==
  /\ InRequest /\ buf
  /\ buf' = FALSE
  /\ reg' = [reg EXCEPT !.passed = FALSE]
  /\ JobOnly /\ UNCHANGED <<job, core1, answer, client, before>>

-----------------------------------------------------------------------------
(* Amiga reset: fwup_wait_idle gives the job 3 s, sdk_mailbox_init stops   *)
(* core 1 and forgets the job, finished or stuck, and                      *)
(* reset_storage_request_state drops the partial file (fw_update_reset).   *)
(* While core 0 waits the main loop stands and the job takes its own steps,*)
(* so the reset is one step.                                               *)
AmigaReset ==
  /\ InLoop
  /\ job' = NoJob /\ answer' = NoAnswer
  /\ open' = FALSE /\ path' = None
  /\ \/ (open \/ path # None) /\ card' = [card EXCEPT ![Temp] = None]
     \/ UNCHANGED card
  /\ reg' = IdleReg /\ client' = "idle" /\ buf' = FALSE
  /\ before' = NoVersions
  /\ UNCHANGED core1

(* Power loss at any step; at boot init_storage_services deletes the       *)
(* discard files (fw_update_cleanup_backups), each unless it fails.        *)
PowerLoss ==
  /\ \E kept \in SUBSET Discard :
       card' = [p \in Path |-> IF p \in Discard \ kept THEN None ELSE card[p]]
  /\ open' = FALSE /\ path' = None /\ job' = NoJob /\ core1' = TRUE
  /\ answer' = NoAnswer /\ reg' = IdleReg /\ buf' = FALSE /\ client' = "idle"
  /\ before' = NoVersions

Command == \/ OpenStart \/ OpenUnlinkPrior \/ OpenCheck \/ OpenCreate \/ OpenSetPath
           \/ Write \/ Close \/ CommitDisplace \/ CommitBackup \/ CommitInstall
           \/ CommitUnlive \/ CommitUnbackup \/ CloseClear \/ Restore
           \/ RestorePromote \/ RestoreUnpromote \/ Abort \/ AbortUnlink
Core1 == Claim \/ Complete
MainLoop == \/ DrainFail \/ Retire \/ TakeResult \/ Stage \/ Enqueue \/ RunInline
            \/ InlineDone \/ PassEnd
Environment == Fault \/ GiveUpCore1 \/ WriteCmd \/ ReuseBuffer \/ AmigaReset \/ PowerLoss

Next == Command \/ Core1 \/ MainLoop \/ Environment
Spec == Init /\ [][Next]_vars
FairSpec == Spec /\ WF_vars(Command) /\ WF_vars(Core1) /\ WF_vars(MainLoop)
                 /\ WF_vars(Enqueue)

-----------------------------------------------------------------------------
(* The client never loses a file it has: whatever command, fault or power  *)
(* loss comes, a target that is on the card stays there or in its backup.  *)
OnCard(t) == Exists(t) \/ Exists(BackupOf[t])
NeverWithout == [][\A t \in Target : OnCard(t) => OnCard(t)']_vars

(* Nothing is installed that the client did not have written whole: a      *)
(* chunk whose WRITE failed, faulted or was given up never reaches the     *)
(* target or its backup, because the client hears of it before it CLOSEs.  *)
NoTornFile == \A p \in Target \cup Backup \cup Discard : Exists(p) => ~card[p].bad

(* A file under a target's name was pushed for that target: RESTORE brings *)
(* back that target's saved backup (fw_update.h:39).                       *)
RestoredIsOwn == \A t \in Target : Exists(t) => card[t].of = t

(* CLOSE and RESTORE are all or nothing unless a roll-back itself fails: a  *)
(* replaced file becomes the backup (the older backup survives where there *)
(* was nothing to replace), a restored backup becomes the file, and a      *)
(* command that fails leaves both as it found them.                        *)
AllOrNothing ==
  /\ (Running /\ job.at = "clear") =>
       card[BackupOf[path]] = IF before.live = None THEN before.bak ELSE before.live
  /\ \A t \in Target :
       (Running /\ job.at = "end" /\ job.undone /\ before # NoVersions
          /\ t = IF job.op = "RESTORE" THEN job.arg ELSE path)
         => Versions(t) = IF job.res = "OK" THEN [live |-> before.bak, bak |-> None]
                                            ELSE before

(* The status the client reads is of the last command it wrote.            *)
AnswerIsLatest == reg.status # "BUSY" => reg.own

(* Every command is answered.                                              *)
Answered == reg.status = "BUSY" ~> reg.status # "BUSY"
=============================================================================
