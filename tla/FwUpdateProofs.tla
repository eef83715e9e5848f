-------------------------- MODULE FwUpdateProofs ---------------------------
(***************************************************************************)
(* Proofs about FwUpdate, for every set of files, pushes and chunks.  The  *)
(* client's file is kept by every single rename.  That nothing torn is     *)
(* installed rests on the protocol: the client has at most one latest      *)
(* command, its bytes are staged before the buffer is reused, and a        *)
(* command that would keep a torn temporary file is never written.         *)
(***************************************************************************)
EXTENDS FwUpdate, TLAPS

JobType == [op : Op, arg : Target \cup {BadName, None}, own : BOOLEAN,
            state : {"none", "queued", "running", "complete", "failed"},
            on : {"core0", "core1"}, at : Labels, res : Code,
            disc : Discard \cup {None}, had : BOOLEAN, undone : BOOLEAN,
            bad : BOOLEAN]
AnswerType == [done : BOOLEAN, op : Op, res : Code, own : BOOLEAN]
RegType == [pending : BOOLEAN, staged : BOOLEAN, op : Op,
            arg : Target \cup {BadName, None}, status : Code \cup {"BUSY"},
            own : BOOLEAN, passed : BOOLEAN]
CardType == [Path -> Content \cup {None}]
OtherTypes == /\ open \in BOOLEAN /\ path \in Target \cup {None} /\ core1 \in BOOLEAN
              /\ buf \in BOOLEAN /\ client \in {"idle", "open", "spoiled"}
BeforeType == [live : Content \cup {None}, bak : Content \cup {None}]
Typed == /\ card \in CardType /\ job \in JobType /\ answer \in AnswerType
         /\ reg \in RegType /\ OtherTypes /\ before \in BeforeType

----------------------------------------------------------------------------
Taken == job.state # "none"
TempWhole == Exists(Temp) => ~card[Temp].bad
AtStart == job.state = "queued" \/ (Running /\ job.at = "start")

(* An open transfer has its temporary file; no command opens or closes it  *)
(* but at its own steps.                                                   *)
OpenInv ==
  /\ open => Exists(Temp)
  /\ job.at \notin {"start", "setpath", "end"} => ~open
  /\ job.at = "setpath" => Exists(Temp)

(* A label belongs to its command, and a commit or a restore has a target. *)
LabelInv ==
  /\ ~Running /\ job.state # "complete" /\ job.state # "failed" => job.at = "start"
  /\ job.at \in {"unlinkold", "check", "create", "setpath"} => job.op = "OPEN"
  /\ job.at = "setpath" => job.arg \in Target
  /\ job.at = "create" => job.arg \in Target
  /\ job.at \in {"commit", "backup", "install", "unlive", "unbackup", "clear"} =>
       job.op = "CLOSE"
  /\ job.at \in {"backup", "install", "unlive", "unbackup", "clear"} => path \in Target
  /\ job.at \in {"promote", "unpromote"} => job.op = "RESTORE" /\ job.arg \in Target
  /\ job.at = "unlink" => job.op = "ABORT"

(* The register, the job and the answer: at most one command is the        *)
(* client's latest, and it is where its status says.                       *)
LatestInv ==
  /\ reg.staged => reg.pending /\ job.own /\ ~fw_update_busy
  /\ Taken /\ job.on = "core0" => reg.staged /\ Running
  /\ ~reg.pending /\ Taken => job.own
  /\ ~reg.pending /\ answer.done => answer.own
  /\ reg.status # "BUSY" => reg.own /\ ~reg.pending /\ ~Taken /\ ~answer.done
  /\ Taken => ~answer.done
  /\ (fw_update_busy \/ answer.done) /\ reg.pending =>
       reg.op = "ABORT" /\ client = "spoiled"

(* The bytes of a command are staged before the buffer is reused.          *)
StageInv ==
  /\ reg.pending /\ reg.op # "ABORT" /\ ~reg.staged => buf /\ ~reg.passed
  /\ reg.staged => job.op = reg.op
  /\ job.op = "WRITE" => ~job.bad

(* No torn temporary file meets a command that would keep it.              *)
TornInv ==
  /\ NoTornFile
  /\ client = "open" /\ reg.status # "BUSY" => TempWhole
  /\ reg.pending /\ ~Taken /\ reg.op \in {"WRITE", "CLOSE"} => TempWhole
  /\ Taken /\ job.op = "CLOSE" => TempWhole
  /\ Taken /\ job.op = "WRITE" /\ AtStart => TempWhole
  /\ job.at = "setpath" => TempWhole
  /\ job.op \in {"OPEN", "WRITE"} /\ job.at = "end" /\ job.res = "OK"
       /\ job.state \in {"running", "complete"} => TempWhole
  /\ answer.done /\ answer.op \in {"OPEN", "WRITE"} /\ answer.res = "OK" => TempWhole
  /\ job.state = "complete" => job.at = "end"

ProtocolInv == LabelInv /\ OpenInv /\ LatestInv /\ StageInv /\ TornInv
FwInv == Typed /\ ProtocolInv

(* What NeverWithout says of a step, and what it needs of the names: a     *)
(* backup file is the backup of one target.                                *)
Kept == \A t \in Target : OnCard(t) => OnCard(t)'
OwnBackups == \A t, u \in Target : BackupOf[t] = BackupOf[u] => t = u

----------------------------------------------------------------------------
(* Lemmas about single updates.                                            *)
(* A rename moves a content, so the card keeps its type.                   *)
LEMMA RenamedType ==
  ASSUME NEW a \in Path, NEW b \in Path, a # b, card \in CardType
  PROVE  Renamed(a, b) \in CardType
  BY SMT DEF Renamed, CardType

(* What a rename leaves under each name.                                   *)
LEMMA RenamedValue ==
  ASSUME NEW a \in Path, NEW b \in Path, a # b, card \in CardType, NEW p \in Path
  PROVE  Renamed(a, b)[p] = IF p = b THEN card[a] ELSE IF p = a THEN None ELSE card[p]
  BY SMT DEF Renamed, CardType

(* A staged job takes its argument from the register or the fixed names.   *)
LEMMA StageArg ==
  ASSUME NEW j \in fw_update_stage, reg.arg \in Target \cup {BadName, None}
  PROVE  \E a \in Target \cup {BadName, None} :
           j = [NoJob EXCEPT !.op = reg.op, !.arg = a, !.bad = ~buf]
  BY Zenon DEF fw_update_stage

(* Publishing a status keeps the type of the register.                     *)
LEMMA RegAnswered ==
  ASSUME NEW r \in RegType, NEW c \in Code, NEW o \in BOOLEAN
  PROVE  [r EXCEPT !.status = c, !.own = o] \in RegType
  BY Zenon DEF RegType

(* What a step can do to the temporary file.                               *)
Opened == [of |-> job.arg, n |-> 0, bad |-> FALSE, push |-> CHOOSE v \in FreshPush : TRUE]
Grown == card' = [card EXCEPT ![Temp].n = @ + 1, ![Temp].bad = @ \/ job.bad]
Torn == card' = [card EXCEPT ![Temp].bad = TRUE]
RestKept == \A p \in Path \ {Temp} : card'[p] = card[p]

(* Writing one content to the temporary file.                              *)
LEMMA TempSet ==
  ASSUME card \in CardType, NEW c \in Content, card' = [card EXCEPT ![Temp] = c]
  PROVE  card' \in CardType /\ card'[Temp] = c /\ RestKept
  BY SMT DEF CardType, Path, RestKept

(* The file a successful OPEN creates is whole.                            *)
LEMMA OpenedType ==
  ASSUME FwInv, FreshPush # {}, Running, job.at = "create"
  PROVE  Opened \in Content /\ Opened.bad = FALSE /\ Opened # None
<1>1. (CHOOSE v \in FreshPush : TRUE) \in Push
  BY DEF FreshPush
<1>2. job.arg \in Target
  BY DEF FwInv, ProtocolInv, LabelInv
<1>3. 0 \in 0..Chunks
  BY ChunksNat, SMT
<1>4. Opened \in Content
  BY <1>1, <1>2, <1>3, Zenon DEF Opened, Content
<1>5. Opened.bad = FALSE
  BY Zenon DEF Opened
<1> QED BY <1>4, <1>5, NoneIsNoContent

(* A torn write leaves a temporary file, marked as such.                   *)
LEMMA TempTorn ==
  ASSUME card \in CardType, Exists(Temp), Torn
  PROVE  card' \in CardType /\ Exists(Temp)' /\ RestKept
<1>1. card[Temp] \in Content
  BY SMT DEF CardType, Path, Exists
<1>2. [card[Temp] EXCEPT !.bad = TRUE] \in Content
  BY <1>1, Zenon DEF Content
<1>3. card' = [card EXCEPT ![Temp] = [card[Temp] EXCEPT !.bad = TRUE]]
  BY Zenon DEF Torn
<1> QED BY <1>2, <1>3, TempSet, NoneIsNoContent DEF Exists

(* A chunk appended whole keeps a whole file whole.                        *)
LEMMA TempGrown ==
  ASSUME card \in CardType, Exists(Temp), card[Temp].n < Chunks, job.bad \in BOOLEAN, Grown
  PROVE  /\ card' \in CardType /\ Exists(Temp)' /\ RestKept
         /\ ~card[Temp].bad /\ ~job.bad => ~card'[Temp].bad
<1> DEFINE c == [card[Temp] EXCEPT !.n = card[Temp].n + 1, !.bad = card[Temp].bad \/ job.bad]
<1>1. card[Temp] \in Content
  BY SMT DEF CardType, Path, Exists
<1>2. card[Temp].n + 1 \in 0..Chunks
  BY <1>1, ChunksNat, SMT DEF Content
<1>3. c \in Content /\ (~card[Temp].bad /\ ~job.bad => ~c.bad)
  BY <1>1, <1>2, Zenon DEF Content
<1>4. card' = [card EXCEPT ![Temp] = c]
  BY Zenon DEF Grown
<1> HIDE DEF c
<1> QED BY <1>3, <1>4, TempSet, NoneIsNoContent DEF Exists

----------------------------------------------------------------------------
(* Types.                                                                  *)

(* The job stays a record of its type: every step moves it with Goto,      *)
(* Finish or one like them.                                                *)
LEMMA JobTyped == ASSUME FwInv, [Next]_vars PROVE job' \in JobType
<1>1. CASE OpenStart
  <2>1. CASE Goto("unlinkold")
    BY <2>1, Zenon DEF FwInv, Typed, JobType, Goto, Finish, Labels, Code
  <2>2. CASE Goto("check")
    BY <2>2, Zenon DEF FwInv, Typed, JobType, Goto, Finish, Labels, Code
  <2> QED BY <1>1, <2>1, <2>2, Zenon DEF OpenStart
<1>2. CASE OpenUnlinkPrior
  BY <1>2, Zenon DEF FwInv, Typed, JobType, Goto, Finish, Labels, Code,
       OpenUnlinkPrior
<1>3. CASE OpenCheck
  <2>1. CASE Finish("ERR_NAME")
    BY <2>1, Zenon DEF FwInv, Typed, JobType, Goto, Finish, Labels, Code
  <2>2. CASE Finish("ERR_OPEN")
    BY <2>2, Zenon DEF FwInv, Typed, JobType, Goto, Finish, Labels, Code
  <2>3. CASE Goto("create")
    BY <2>3, Zenon DEF FwInv, Typed, JobType, Goto, Finish, Labels, Code
  <2> QED BY <1>3, <2>1, <2>2, <2>3, Zenon DEF OpenCheck
<1>4. CASE OpenCreate
  <2>1. CASE Finish("ERR_OPEN")
    BY <2>1, Zenon DEF FwInv, Typed, JobType, Goto, Finish, Labels, Code
  <2>2. CASE Goto("setpath")
    BY <2>2, Zenon DEF FwInv, Typed, JobType, Goto, Finish, Labels, Code
  <2> QED BY <1>4, <2>1, <2>2, Zenon DEF OpenCreate
<1>5. CASE OpenSetPath
  BY <1>5, Zenon DEF FwInv, Typed, JobType, Goto, Finish, Labels, Code,
       OpenSetPath
<1>6. CASE Write
  <2>1. CASE Finish("ERR_STATE")
    BY <2>1, Zenon DEF FwInv, Typed, JobType, Goto, Finish, Labels, Code
  <2>2. CASE Finish("OK")
    BY <2>2, Zenon DEF FwInv, Typed, JobType, Goto, Finish, Labels, Code
  <2>3. CASE Finish("ERR_WRITE")
    BY <2>3, Zenon DEF FwInv, Typed, JobType, Goto, Finish, Labels, Code
  <2> QED BY <1>6, <2>1, <2>2, <2>3, Zenon DEF Write
<1>7. CASE Close
  <2>1. CASE Finish("ERR_STATE")
    BY <2>1, Zenon DEF FwInv, Typed, JobType, Goto, Finish, Labels, Code
  <2>2. CASE Finish("ERR_CLOSE")
    BY <2>2, Zenon DEF FwInv, Typed, JobType, Goto, Finish, Labels, Code
  <2>3. CASE Goto("commit")
    BY <2>3, Zenon DEF FwInv, Typed, JobType, Goto, Finish, Labels, Code
  <2> QED BY <1>7, <2>1, <2>2, <2>3, Zenon DEF Close
<1>8. CASE CommitDisplace
  <2>1. CASE Finish("ERR_CLOSE")
    BY <2>1, Zenon DEF FwInv, Typed, JobType, Goto, Finish, Labels, Code
  <2>2. CASE Goto("install")
    BY <2>2, Zenon DEF FwInv, Typed, JobType, Goto, Finish, Labels, Code
  <2>3. CASE Goto("backup")
    BY <2>3, Zenon DEF FwInv, Typed, JobType, Goto, Finish, Labels, Code
  <2>4. CASE \E d \in Discard : job' = [job EXCEPT !.at = "backup", !.disc = d]
    BY <2>4, ZenonT(40) DEF FwInv, Typed, JobType, Goto, Finish, Labels, Code
  <2> QED BY <1>8, <2>1, <2>2, <2>3, <2>4, Zenon DEF CommitDisplace
<1>9. CASE CommitBackup
  BY <1>9, ZenonT(40) DEF FwInv, Typed, JobType, Goto, Finish, Labels, Code,
       CommitBackup
<1>10. CASE CommitInstall
  BY <1>10, ZenonT(40) DEF FwInv, Typed, JobType, Goto, Finish, Labels, Code,
       CommitInstall
<1>11. CASE CommitUnlive
  BY <1>11, ZenonT(40) DEF FwInv, Typed, JobType, Goto, Finish, Labels, Code,
       CommitUnlive
<1>12. CASE CommitUnbackup
  <2>1. CASE Finish("ERR_CLOSE")
    BY <2>1, Zenon DEF FwInv, Typed, JobType, Goto, Finish, Labels, Code
  <2>2. CASE job' = [job EXCEPT !.at = "end", !.res = "ERR_CLOSE", !.undone = FALSE]
    BY <2>2, Zenon DEF FwInv, Typed, JobType, Goto, Finish, Labels, Code
  <2> QED BY <1>12, <2>1, <2>2, Zenon DEF CommitUnbackup
<1>13. CASE CloseClear
  BY <1>13, Zenon DEF FwInv, Typed, JobType, Goto, Finish, Labels, Code,
       CloseClear
<1>14. CASE Restore
  <2>1. ASSUME NEW r \in Code, Finish(r) PROVE job' \in JobType
    BY <2>1, Zenon DEF FwInv, Typed, JobType, Finish, Labels
  <2>2. CASE Goto("promote")
    BY <2>2, Zenon DEF FwInv, Typed, JobType, Goto, Finish, Labels, Code
  <2>3. CASE \E d \in Discard : job' = [job EXCEPT !.at = "promote", !.disc = d]
    BY <2>3, ZenonT(40) DEF FwInv, Typed, JobType, Goto, Finish, Labels, Code
  <2> QED BY <1>14, <2>1, <2>2, <2>3, Zenon DEF Restore, Code
<1>15. CASE RestorePromote
  <2>1. CASE Finish("OK")
    BY <2>1, Zenon DEF FwInv, Typed, JobType, Goto, Finish, Labels, Code
  <2>2. CASE Goto("unpromote")
    BY <2>2, Zenon DEF FwInv, Typed, JobType, Goto, Finish, Labels, Code
  <2> QED BY <1>15, <2>1, <2>2, Zenon DEF RestorePromote
<1>16. CASE RestoreUnpromote
  <2>1. CASE Finish("ERR_RESTORE")
    BY <2>1, Zenon DEF FwInv, Typed, JobType, Goto, Finish, Labels, Code
  <2>2. CASE job' = [job EXCEPT !.at = "end", !.res = "ERR_RESTORE", !.undone = FALSE]
    BY <2>2, Zenon DEF FwInv, Typed, JobType, Goto, Finish, Labels, Code
  <2> QED BY <1>16, <2>1, <2>2, Zenon DEF RestoreUnpromote
<1>17. CASE Abort
  <2>1. CASE Finish("OK")
    BY <2>1, Zenon DEF FwInv, Typed, JobType, Goto, Finish, Labels, Code
  <2>2. CASE Goto("unlink")
    BY <2>2, Zenon DEF FwInv, Typed, JobType, Goto, Finish, Labels, Code
  <2> QED BY <1>17, <2>1, <2>2, Zenon DEF Abort
<1>18. CASE AbortUnlink
  BY <1>18, Zenon DEF FwInv, Typed, JobType, Goto, Finish, Labels, Code,
       AbortUnlink
<1>19. CASE Claim
  BY <1>19, Zenon DEF FwInv, Typed, JobType, RegType, NoJob, fw_update_stage,
       JobOnly, Others, Labels, Code, Op, Claim
<1>20. CASE Complete
  BY <1>20, Zenon DEF FwInv, Typed, JobType, RegType, NoJob, fw_update_stage,
       JobOnly, Others, Labels, Code, Op, Complete
<1>21. CASE Fault
  BY <1>21, Zenon DEF FwInv, Typed, JobType, RegType, NoJob, fw_update_stage,
       JobOnly, Others, Labels, Code, Op, Fault
<1>22. CASE DrainFail
  BY <1>22, Zenon DEF FwInv, Typed, JobType, RegType, NoJob, fw_update_stage,
       JobOnly, Others, Labels, Code, Op, DrainFail
<1>23. CASE Retire
  BY <1>23, Zenon DEF FwInv, Typed, JobType, RegType, NoJob, fw_update_stage,
       JobOnly, Others, Labels, Code, Op, Retire
<1>24. CASE TakeResult
  <2>1. job' = job
    BY <1>24, SMT DEF TakeResult
  <2> QED BY <2>1 DEF FwInv, Typed
<1>25. CASE Stage
  <2>1. job' \in fw_update_stage /\ reg.arg \in Target \cup {BadName, None}
    BY <1>25, Zenon DEF Stage, FwInv, Typed, RegType
  <2>3. PICK a \in Target \cup {BadName, None} :
          job' = [NoJob EXCEPT !.op = reg.op, !.arg = a, !.bad = ~buf]
    BY <2>1, StageArg
  <2>2. reg.op \in Op
    BY SMT DEF FwInv, Typed, RegType
  <2> QED BY <2>2, <2>3, ZenonT(40) DEF NoJob, JobType, Labels, Code, FwInv, Typed,
        OtherTypes
<1>26. CASE Enqueue
  BY <1>26, Zenon DEF FwInv, Typed, JobType, RegType, NoJob, fw_update_stage,
       JobOnly, Others, Labels, Code, Op, Enqueue
<1>27. CASE RunInline
  BY <1>27, Zenon DEF FwInv, Typed, JobType, RegType, NoJob, fw_update_stage,
       JobOnly, Others, Labels, Code, Op, RunInline
<1>28. CASE InlineDone
  BY <1>28, Zenon DEF FwInv, Typed, JobType, RegType, NoJob, fw_update_stage,
       JobOnly, Others, Labels, Code, Op, InlineDone
<1>29. CASE PassEnd
  <2>1. job' = job
    BY <1>29, SMT DEF PassEnd
  <2> QED BY <2>1 DEF FwInv, Typed
<1>30. CASE GiveUpCore1
  <2>1. job' = job
    BY <1>30, SMT DEF GiveUpCore1
  <2> QED BY <2>1 DEF FwInv, Typed
<1>31. CASE WriteCmd
  BY <1>31, Zenon DEF FwInv, Typed, JobType, RegType, NoJob, fw_update_stage,
       JobOnly, Others, Labels, Code, Op, WriteCmd
<1>32. CASE ReuseBuffer
  <2>1. job' = job
    BY <1>32, SMT DEF ReuseBuffer
  <2> QED BY <2>1 DEF FwInv, Typed
<1>33. CASE AmigaReset
  BY <1>33, Zenon DEF FwInv, Typed, JobType, RegType, NoJob, fw_update_stage,
       JobOnly, Others, Labels, Code, Op, AmigaReset
<1>34. CASE PowerLoss
  BY <1>34, Zenon DEF FwInv, Typed, JobType, RegType, NoJob, fw_update_stage,
       JobOnly, Others, Labels, Code, Op, PowerLoss
<1>35. CASE UNCHANGED vars
  BY <1>35, Zenon DEF vars, FwInv, Typed
<1> QED BY <1>1, <1>2, <1>3, <1>4, <1>5, <1>6, <1>7, <1>8, <1>9, <1>10, <1>11,
       <1>12, <1>13, <1>14, <1>15, <1>16, <1>17, <1>18, <1>19, <1>20, <1>21,
       <1>22, <1>23, <1>24, <1>25, <1>26, <1>27, <1>28, <1>29, <1>30, <1>31,
       <1>32, <1>33, <1>34, <1>35 DEF Next, Command, Core1, MainLoop,
       Environment

(* So does the answer taken from the finished job.                         *)
LEMMA AnswerTyped == ASSUME FwInv, [Next]_vars PROVE answer' \in AnswerType
<1>1. CASE OpenStart
  BY PathsDistinct, <1>1, Zenon DEF FwInv, Typed, AnswerType, JobType,
       FailureOf, NoAnswer, Op, Code, JobOnly, Others, OpenStart
<1>2. CASE OpenUnlinkPrior
  BY PathsDistinct, <1>2, Zenon DEF FwInv, Typed, AnswerType, JobType,
       FailureOf, NoAnswer, Op, Code, JobOnly, Others, OpenUnlinkPrior
<1>3. CASE OpenCheck
  BY PathsDistinct, <1>3, Zenon DEF FwInv, Typed, AnswerType, JobType,
       FailureOf, NoAnswer, Op, Code, JobOnly, Others, OpenCheck
<1>4. CASE OpenCreate
  BY PathsDistinct, <1>4, Zenon DEF FwInv, Typed, AnswerType, JobType,
       FailureOf, NoAnswer, Op, Code, JobOnly, Others, OpenCreate
<1>5. CASE OpenSetPath
  BY PathsDistinct, <1>5, Zenon DEF FwInv, Typed, AnswerType, JobType,
       FailureOf, NoAnswer, Op, Code, JobOnly, Others, OpenSetPath
<1>6. CASE Write
  BY PathsDistinct, <1>6, Zenon DEF FwInv, Typed, AnswerType, JobType,
       FailureOf, NoAnswer, Op, Code, JobOnly, Others, Write
<1>7. CASE Close
  BY PathsDistinct, <1>7, Zenon DEF FwInv, Typed, AnswerType, JobType,
       FailureOf, NoAnswer, Op, Code, JobOnly, Others, Close
<1>8. CASE CommitDisplace
  BY PathsDistinct, <1>8, Zenon DEF FwInv, Typed, AnswerType, JobType,
       FailureOf, NoAnswer, Op, Code, JobOnly, Others, CommitDisplace
<1>9. CASE CommitBackup
  BY PathsDistinct, <1>9, Zenon DEF FwInv, Typed, AnswerType, JobType,
       FailureOf, NoAnswer, Op, Code, JobOnly, Others, CommitBackup
<1>10. CASE CommitInstall
  BY PathsDistinct, <1>10, Zenon DEF FwInv, Typed, AnswerType, JobType,
       FailureOf, NoAnswer, Op, Code, JobOnly, Others, CommitInstall
<1>11. CASE CommitUnlive
  BY PathsDistinct, <1>11, Zenon DEF FwInv, Typed, AnswerType, JobType,
       FailureOf, NoAnswer, Op, Code, JobOnly, Others, CommitUnlive
<1>12. CASE CommitUnbackup
  BY PathsDistinct, <1>12, Zenon DEF FwInv, Typed, AnswerType, JobType,
       FailureOf, NoAnswer, Op, Code, JobOnly, Others, CommitUnbackup
<1>13. CASE CloseClear
  BY PathsDistinct, <1>13, Zenon DEF FwInv, Typed, AnswerType, JobType,
       FailureOf, NoAnswer, Op, Code, JobOnly, Others, CloseClear
<1>14. CASE Restore
  BY PathsDistinct, <1>14, Zenon DEF FwInv, Typed, AnswerType, JobType,
       FailureOf, NoAnswer, Op, Code, JobOnly, Others, Restore
<1>15. CASE RestorePromote
  BY PathsDistinct, <1>15, Zenon DEF FwInv, Typed, AnswerType, JobType,
       FailureOf, NoAnswer, Op, Code, JobOnly, Others, RestorePromote
<1>16. CASE RestoreUnpromote
  BY PathsDistinct, <1>16, Zenon DEF FwInv, Typed, AnswerType, JobType,
       FailureOf, NoAnswer, Op, Code, JobOnly, Others, RestoreUnpromote
<1>17. CASE Abort
  BY PathsDistinct, <1>17, Zenon DEF FwInv, Typed, AnswerType, JobType,
       FailureOf, NoAnswer, Op, Code, JobOnly, Others, Abort
<1>18. CASE AbortUnlink
  BY PathsDistinct, <1>18, Zenon DEF FwInv, Typed, AnswerType, JobType,
       FailureOf, NoAnswer, Op, Code, JobOnly, Others, AbortUnlink
<1>19. CASE Claim
  BY PathsDistinct, <1>19, Zenon DEF FwInv, Typed, AnswerType, JobType,
       FailureOf, NoAnswer, Op, Code, JobOnly, Others, Claim
<1>20. CASE Complete
  BY PathsDistinct, <1>20, Zenon DEF FwInv, Typed, AnswerType, JobType,
       FailureOf, NoAnswer, Op, Code, JobOnly, Others, Complete
<1>21. CASE Fault
  BY PathsDistinct, <1>21, Zenon DEF FwInv, Typed, AnswerType, JobType,
       FailureOf, NoAnswer, Op, Code, JobOnly, Others, Fault
<1>22. CASE DrainFail
  BY PathsDistinct, <1>22, Zenon DEF FwInv, Typed, AnswerType, JobType,
       FailureOf, NoAnswer, Op, Code, JobOnly, Others, DrainFail
<1>23. CASE Retire
  BY PathsDistinct, <1>23, Zenon DEF FwInv, Typed, AnswerType, JobType,
       FailureOf, NoAnswer, Op, Code, JobOnly, Others, Retire
<1>24. CASE TakeResult
  BY PathsDistinct, <1>24, Zenon DEF FwInv, Typed, AnswerType, JobType,
       FailureOf, NoAnswer, Op, Code, JobOnly, Others, TakeResult
<1>25. CASE Stage
  BY PathsDistinct, <1>25, Zenon DEF FwInv, Typed, AnswerType, JobType,
       FailureOf, NoAnswer, Op, Code, JobOnly, Others, Stage
<1>26. CASE Enqueue
  BY PathsDistinct, <1>26, Zenon DEF FwInv, Typed, AnswerType, JobType,
       FailureOf, NoAnswer, Op, Code, JobOnly, Others, Enqueue
<1>27. CASE RunInline
  BY PathsDistinct, <1>27, Zenon DEF FwInv, Typed, AnswerType, JobType,
       FailureOf, NoAnswer, Op, Code, JobOnly, Others, RunInline
<1>28. CASE InlineDone
  BY PathsDistinct, <1>28, Zenon DEF FwInv, Typed, AnswerType, JobType,
       FailureOf, NoAnswer, Op, Code, JobOnly, Others, InlineDone
<1>29. CASE PassEnd
  BY PathsDistinct, <1>29, Zenon DEF FwInv, Typed, AnswerType, JobType,
       FailureOf, NoAnswer, Op, Code, JobOnly, Others, PassEnd
<1>30. CASE GiveUpCore1
  BY PathsDistinct, <1>30, Zenon DEF FwInv, Typed, AnswerType, JobType,
       FailureOf, NoAnswer, Op, Code, JobOnly, Others, GiveUpCore1
<1>31. CASE WriteCmd
  BY PathsDistinct, <1>31, Zenon DEF FwInv, Typed, AnswerType, JobType,
       FailureOf, NoAnswer, Op, Code, JobOnly, Others, WriteCmd
<1>32. CASE ReuseBuffer
  BY PathsDistinct, <1>32, Zenon DEF FwInv, Typed, AnswerType, JobType,
       FailureOf, NoAnswer, Op, Code, JobOnly, Others, ReuseBuffer
<1>33. CASE AmigaReset
  BY PathsDistinct, <1>33, Zenon DEF FwInv, Typed, AnswerType, JobType,
       FailureOf, NoAnswer, Op, Code, JobOnly, Others, AmigaReset
<1>34. CASE PowerLoss
  BY PathsDistinct, <1>34, Zenon DEF FwInv, Typed, AnswerType, JobType,
       FailureOf, NoAnswer, Op, Code, JobOnly, Others, PowerLoss
<1>35. CASE UNCHANGED vars
  BY <1>35, Zenon DEF vars, FwInv, Typed
<1> QED BY <1>1, <1>2, <1>3, <1>4, <1>5, <1>6, <1>7, <1>8, <1>9, <1>10, <1>11,
       <1>12, <1>13, <1>14, <1>15, <1>16, <1>17, <1>18, <1>19, <1>20, <1>21,
       <1>22, <1>23, <1>24, <1>25, <1>26, <1>27, <1>28, <1>29, <1>30, <1>31,
       <1>32, <1>33, <1>34, <1>35 DEF Next, Command, Core1, MainLoop,
       Environment

(* The transfer, core 1, the buffer and the client.                        *)
LEMMA PlaceTyped == ASSUME FwInv, [Next]_vars PROVE OtherTypes'
<1>1. CASE OpenStart
  BY PathsDistinct, <1>1, Zenon DEF FwInv, Typed, OtherTypes, ProtocolInv,
       LabelInv, ClientSees, JobOnly, Others, OpenStart
<1>2. CASE OpenUnlinkPrior
  BY PathsDistinct, <1>2, Zenon DEF FwInv, Typed, OtherTypes, ProtocolInv,
       LabelInv, ClientSees, JobOnly, Others, OpenUnlinkPrior
<1>3. CASE OpenCheck
  BY PathsDistinct, <1>3, Zenon DEF FwInv, Typed, OtherTypes, ProtocolInv,
       LabelInv, ClientSees, JobOnly, Others, OpenCheck
<1>4. CASE OpenCreate
  BY PathsDistinct, <1>4, Zenon DEF FwInv, Typed, OtherTypes, ProtocolInv,
       LabelInv, ClientSees, JobOnly, Others, OpenCreate
<1>5. CASE OpenSetPath
  BY PathsDistinct, <1>5, Zenon DEF FwInv, Typed, OtherTypes, ProtocolInv,
       LabelInv, ClientSees, JobOnly, Others, OpenSetPath
<1>6. CASE Write
  BY PathsDistinct, <1>6, Zenon DEF FwInv, Typed, OtherTypes, ProtocolInv,
       LabelInv, ClientSees, JobOnly, Others, Write
<1>7. CASE Close
  BY PathsDistinct, <1>7, Zenon DEF FwInv, Typed, OtherTypes, ProtocolInv,
       LabelInv, ClientSees, JobOnly, Others, Close
<1>8. CASE CommitDisplace
  BY PathsDistinct, <1>8, Zenon DEF FwInv, Typed, OtherTypes, ProtocolInv,
       LabelInv, ClientSees, JobOnly, Others, CommitDisplace
<1>9. CASE CommitBackup
  BY PathsDistinct, <1>9, Zenon DEF FwInv, Typed, OtherTypes, ProtocolInv,
       LabelInv, ClientSees, JobOnly, Others, CommitBackup
<1>10. CASE CommitInstall
  BY PathsDistinct, <1>10, Zenon DEF FwInv, Typed, OtherTypes, ProtocolInv,
       LabelInv, ClientSees, JobOnly, Others, CommitInstall
<1>11. CASE CommitUnlive
  BY PathsDistinct, <1>11, Zenon DEF FwInv, Typed, OtherTypes, ProtocolInv,
       LabelInv, ClientSees, JobOnly, Others, CommitUnlive
<1>12. CASE CommitUnbackup
  BY PathsDistinct, <1>12, Zenon DEF FwInv, Typed, OtherTypes, ProtocolInv,
       LabelInv, ClientSees, JobOnly, Others, CommitUnbackup
<1>13. CASE CloseClear
  BY PathsDistinct, <1>13, Zenon DEF FwInv, Typed, OtherTypes, ProtocolInv,
       LabelInv, ClientSees, JobOnly, Others, CloseClear
<1>14. CASE Restore
  BY PathsDistinct, <1>14, Zenon DEF FwInv, Typed, OtherTypes, ProtocolInv,
       LabelInv, ClientSees, JobOnly, Others, Restore
<1>15. CASE RestorePromote
  BY PathsDistinct, <1>15, Zenon DEF FwInv, Typed, OtherTypes, ProtocolInv,
       LabelInv, ClientSees, JobOnly, Others, RestorePromote
<1>16. CASE RestoreUnpromote
  BY PathsDistinct, <1>16, Zenon DEF FwInv, Typed, OtherTypes, ProtocolInv,
       LabelInv, ClientSees, JobOnly, Others, RestoreUnpromote
<1>17. CASE Abort
  BY PathsDistinct, <1>17, Zenon DEF FwInv, Typed, OtherTypes, ProtocolInv,
       LabelInv, ClientSees, JobOnly, Others, Abort
<1>18. CASE AbortUnlink
  BY PathsDistinct, <1>18, Zenon DEF FwInv, Typed, OtherTypes, ProtocolInv,
       LabelInv, ClientSees, JobOnly, Others, AbortUnlink
<1>19. CASE Claim
  BY PathsDistinct, <1>19, Zenon DEF FwInv, Typed, OtherTypes, ProtocolInv,
       LabelInv, ClientSees, JobOnly, Others, Claim
<1>20. CASE Complete
  BY PathsDistinct, <1>20, Zenon DEF FwInv, Typed, OtherTypes, ProtocolInv,
       LabelInv, ClientSees, JobOnly, Others, Complete
<1>21. CASE Fault
  BY PathsDistinct, <1>21, Zenon DEF FwInv, Typed, OtherTypes, ProtocolInv,
       LabelInv, ClientSees, JobOnly, Others, Fault
<1>22. CASE DrainFail
  BY PathsDistinct, <1>22, Zenon DEF FwInv, Typed, OtherTypes, ProtocolInv,
       LabelInv, ClientSees, JobOnly, Others, DrainFail
<1>23. CASE Retire
  BY PathsDistinct, <1>23, Zenon DEF FwInv, Typed, OtherTypes, ProtocolInv,
       LabelInv, ClientSees, JobOnly, Others, Retire
<1>24. CASE TakeResult
  BY PathsDistinct, <1>24, Zenon DEF FwInv, Typed, OtherTypes, ProtocolInv,
       LabelInv, ClientSees, JobOnly, Others, TakeResult
<1>25. CASE Stage
  BY PathsDistinct, <1>25, Zenon DEF FwInv, Typed, OtherTypes, ProtocolInv,
       LabelInv, ClientSees, JobOnly, Others, Stage
<1>26. CASE Enqueue
  BY PathsDistinct, <1>26, Zenon DEF FwInv, Typed, OtherTypes, ProtocolInv,
       LabelInv, ClientSees, JobOnly, Others, Enqueue
<1>27. CASE RunInline
  BY PathsDistinct, <1>27, Zenon DEF FwInv, Typed, OtherTypes, ProtocolInv,
       LabelInv, ClientSees, JobOnly, Others, RunInline
<1>28. CASE InlineDone
  BY PathsDistinct, <1>28, Zenon DEF FwInv, Typed, OtherTypes, ProtocolInv,
       LabelInv, ClientSees, JobOnly, Others, InlineDone
<1>29. CASE PassEnd
  BY PathsDistinct, <1>29, Zenon DEF FwInv, Typed, OtherTypes, ProtocolInv,
       LabelInv, ClientSees, JobOnly, Others, PassEnd
<1>30. CASE GiveUpCore1
  BY PathsDistinct, <1>30, Zenon DEF FwInv, Typed, OtherTypes, ProtocolInv,
       LabelInv, ClientSees, JobOnly, Others, GiveUpCore1
<1>31. CASE WriteCmd
  BY PathsDistinct, <1>31, Zenon DEF FwInv, Typed, OtherTypes, ProtocolInv,
       LabelInv, ClientSees, JobOnly, Others, WriteCmd
<1>32. CASE ReuseBuffer
  BY PathsDistinct, <1>32, Zenon DEF FwInv, Typed, OtherTypes, ProtocolInv,
       LabelInv, ClientSees, JobOnly, Others, ReuseBuffer
<1>33. CASE AmigaReset
  BY PathsDistinct, <1>33, Zenon DEF FwInv, Typed, OtherTypes, ProtocolInv,
       LabelInv, ClientSees, JobOnly, Others, AmigaReset
<1>34. CASE PowerLoss
  BY PathsDistinct, <1>34, Zenon DEF FwInv, Typed, OtherTypes, ProtocolInv,
       LabelInv, ClientSees, JobOnly, Others, PowerLoss
<1>35. CASE UNCHANGED vars
  BY <1>35, Zenon DEF vars, FwInv, Typed, OtherTypes
<1> QED BY <1>1, <1>2, <1>3, <1>4, <1>5, <1>6, <1>7, <1>8, <1>9, <1>10, <1>11,
       <1>12, <1>13, <1>14, <1>15, <1>16, <1>17, <1>18, <1>19, <1>20, <1>21,
       <1>22, <1>23, <1>24, <1>25, <1>26, <1>27, <1>28, <1>29, <1>30, <1>31,
       <1>32, <1>33, <1>34, <1>35 DEF Next, Command, Core1, MainLoop,
       Environment

(* What was on the card when a CLOSE or a RESTORE began.                   *)
LEMMA BeforeTyped == ASSUME FwInv, [Next]_vars PROVE before' \in BeforeType
<1>1. CASE OpenStart
  BY PathsDistinct, <1>1, Zenon DEF FwInv, Typed, BeforeType, OtherTypes,
       JobType, Versions, NoVersions, CardType, Path, JobOnly, Others,
       OpenStart
<1>2. CASE OpenUnlinkPrior
  BY PathsDistinct, <1>2, Zenon DEF FwInv, Typed, BeforeType, OtherTypes,
       JobType, Versions, NoVersions, CardType, Path, JobOnly, Others,
       OpenUnlinkPrior
<1>3. CASE OpenCheck
  BY PathsDistinct, <1>3, Zenon DEF FwInv, Typed, BeforeType, OtherTypes,
       JobType, Versions, NoVersions, CardType, Path, JobOnly, Others,
       OpenCheck
<1>4. CASE OpenCreate
  BY PathsDistinct, <1>4, Zenon DEF FwInv, Typed, BeforeType, OtherTypes,
       JobType, Versions, NoVersions, CardType, Path, JobOnly, Others,
       OpenCreate
<1>5. CASE OpenSetPath
  BY PathsDistinct, <1>5, Zenon DEF FwInv, Typed, BeforeType, OtherTypes,
       JobType, Versions, NoVersions, CardType, Path, JobOnly, Others,
       OpenSetPath
<1>6. CASE Write
  BY PathsDistinct, <1>6, Zenon DEF FwInv, Typed, BeforeType, OtherTypes,
       JobType, Versions, NoVersions, CardType, Path, JobOnly, Others, Write
<1>7. CASE Close
  BY PathsDistinct, <1>7, Zenon DEF FwInv, Typed, BeforeType, OtherTypes,
       JobType, Versions, NoVersions, CardType, Path, JobOnly, Others, Close
<1>8. CASE CommitDisplace
  BY PathsDistinct, <1>8, Zenon DEF FwInv, Typed, BeforeType, OtherTypes,
       JobType, Versions, NoVersions, CardType, Path, JobOnly, Others,
       CommitDisplace
<1>9. CASE CommitBackup
  BY PathsDistinct, <1>9, Zenon DEF FwInv, Typed, BeforeType, OtherTypes,
       JobType, Versions, NoVersions, CardType, Path, JobOnly, Others,
       CommitBackup
<1>10. CASE CommitInstall
  BY PathsDistinct, <1>10, Zenon DEF FwInv, Typed, BeforeType, OtherTypes,
       JobType, Versions, NoVersions, CardType, Path, JobOnly, Others,
       CommitInstall
<1>11. CASE CommitUnlive
  BY PathsDistinct, <1>11, Zenon DEF FwInv, Typed, BeforeType, OtherTypes,
       JobType, Versions, NoVersions, CardType, Path, JobOnly, Others,
       CommitUnlive
<1>12. CASE CommitUnbackup
  BY PathsDistinct, <1>12, Zenon DEF FwInv, Typed, BeforeType, OtherTypes,
       JobType, Versions, NoVersions, CardType, Path, JobOnly, Others,
       CommitUnbackup
<1>13. CASE CloseClear
  BY PathsDistinct, <1>13, Zenon DEF FwInv, Typed, BeforeType, OtherTypes,
       JobType, Versions, NoVersions, CardType, Path, JobOnly, Others,
       CloseClear
<1>14. CASE Restore
  BY PathsDistinct, <1>14, Zenon DEF FwInv, Typed, BeforeType, OtherTypes,
       JobType, Versions, NoVersions, CardType, Path, JobOnly, Others, Restore
<1>15. CASE RestorePromote
  BY PathsDistinct, <1>15, Zenon DEF FwInv, Typed, BeforeType, OtherTypes,
       JobType, Versions, NoVersions, CardType, Path, JobOnly, Others,
       RestorePromote
<1>16. CASE RestoreUnpromote
  BY PathsDistinct, <1>16, Zenon DEF FwInv, Typed, BeforeType, OtherTypes,
       JobType, Versions, NoVersions, CardType, Path, JobOnly, Others,
       RestoreUnpromote
<1>17. CASE Abort
  BY PathsDistinct, <1>17, Zenon DEF FwInv, Typed, BeforeType, OtherTypes,
       JobType, Versions, NoVersions, CardType, Path, JobOnly, Others, Abort
<1>18. CASE AbortUnlink
  BY PathsDistinct, <1>18, Zenon DEF FwInv, Typed, BeforeType, OtherTypes,
       JobType, Versions, NoVersions, CardType, Path, JobOnly, Others,
       AbortUnlink
<1>19. CASE Claim
  BY PathsDistinct, <1>19, Zenon DEF FwInv, Typed, BeforeType, OtherTypes,
       JobType, Versions, NoVersions, CardType, Path, JobOnly, Others, Claim
<1>20. CASE Complete
  BY PathsDistinct, <1>20, Zenon DEF FwInv, Typed, BeforeType, OtherTypes,
       JobType, Versions, NoVersions, CardType, Path, JobOnly, Others,
       Complete
<1>21. CASE Fault
  BY PathsDistinct, <1>21, Zenon DEF FwInv, Typed, BeforeType, OtherTypes,
       JobType, Versions, NoVersions, CardType, Path, JobOnly, Others, Fault
<1>22. CASE DrainFail
  BY PathsDistinct, <1>22, Zenon DEF FwInv, Typed, BeforeType, OtherTypes,
       JobType, Versions, NoVersions, CardType, Path, JobOnly, Others,
       DrainFail
<1>23. CASE Retire
  BY PathsDistinct, <1>23, Zenon DEF FwInv, Typed, BeforeType, OtherTypes,
       JobType, Versions, NoVersions, CardType, Path, JobOnly, Others, Retire
<1>24. CASE TakeResult
  BY PathsDistinct, <1>24, Zenon DEF FwInv, Typed, BeforeType, OtherTypes,
       JobType, Versions, NoVersions, CardType, Path, JobOnly, Others,
       TakeResult
<1>25. CASE Stage
  BY PathsDistinct, <1>25, Zenon DEF FwInv, Typed, BeforeType, OtherTypes,
       JobType, Versions, NoVersions, CardType, Path, JobOnly, Others, Stage
<1>26. CASE Enqueue
  BY PathsDistinct, <1>26, Zenon DEF FwInv, Typed, BeforeType, OtherTypes,
       JobType, Versions, NoVersions, CardType, Path, JobOnly, Others, Enqueue
<1>27. CASE RunInline
  BY PathsDistinct, <1>27, Zenon DEF FwInv, Typed, BeforeType, OtherTypes,
       JobType, Versions, NoVersions, CardType, Path, JobOnly, Others,
       RunInline
<1>28. CASE InlineDone
  BY PathsDistinct, <1>28, Zenon DEF FwInv, Typed, BeforeType, OtherTypes,
       JobType, Versions, NoVersions, CardType, Path, JobOnly, Others,
       InlineDone
<1>29. CASE PassEnd
  BY PathsDistinct, <1>29, Zenon DEF FwInv, Typed, BeforeType, OtherTypes,
       JobType, Versions, NoVersions, CardType, Path, JobOnly, Others, PassEnd
<1>30. CASE GiveUpCore1
  BY PathsDistinct, <1>30, Zenon DEF FwInv, Typed, BeforeType, OtherTypes,
       JobType, Versions, NoVersions, CardType, Path, JobOnly, Others,
       GiveUpCore1
<1>31. CASE WriteCmd
  BY PathsDistinct, <1>31, Zenon DEF FwInv, Typed, BeforeType, OtherTypes,
       JobType, Versions, NoVersions, CardType, Path, JobOnly, Others,
       WriteCmd
<1>32. CASE ReuseBuffer
  BY PathsDistinct, <1>32, Zenon DEF FwInv, Typed, BeforeType, OtherTypes,
       JobType, Versions, NoVersions, CardType, Path, JobOnly, Others,
       ReuseBuffer
<1>33. CASE AmigaReset
  BY PathsDistinct, <1>33, Zenon DEF FwInv, Typed, BeforeType, OtherTypes,
       JobType, Versions, NoVersions, CardType, Path, JobOnly, Others,
       AmigaReset
<1>34. CASE PowerLoss
  BY PathsDistinct, <1>34, Zenon DEF FwInv, Typed, BeforeType, OtherTypes,
       JobType, Versions, NoVersions, CardType, Path, JobOnly, Others,
       PowerLoss
<1>35. CASE UNCHANGED vars
  BY <1>35, Zenon DEF vars, FwInv, Typed
<1> QED BY <1>1, <1>2, <1>3, <1>4, <1>5, <1>6, <1>7, <1>8, <1>9, <1>10, <1>11,
       <1>12, <1>13, <1>14, <1>15, <1>16, <1>17, <1>18, <1>19, <1>20, <1>21,
       <1>22, <1>23, <1>24, <1>25, <1>26, <1>27, <1>28, <1>29, <1>30, <1>31,
       <1>32, <1>33, <1>34, <1>35 DEF Next, Command, Core1, MainLoop,
       Environment

(* The command register and its status.                                    *)
LEMMA RegTyped == ASSUME FwInv, [Next]_vars PROVE reg' \in RegType
<1>1. CASE OpenStart
  <2>1. reg' = reg
    BY <1>1, Zenon DEF JobOnly, Others, OpenStart
  <2> QED BY <2>1 DEF FwInv, Typed
<1>2. CASE OpenUnlinkPrior
  <2>1. reg' = reg
    BY <1>2, Zenon DEF JobOnly, Others, OpenUnlinkPrior
  <2> QED BY <2>1 DEF FwInv, Typed
<1>3. CASE OpenCheck
  <2>1. reg' = reg
    BY <1>3, Zenon DEF JobOnly, Others, OpenCheck
  <2> QED BY <2>1 DEF FwInv, Typed
<1>4. CASE OpenCreate
  <2>1. reg' = reg
    BY <1>4, Zenon DEF JobOnly, Others, OpenCreate
  <2> QED BY <2>1 DEF FwInv, Typed
<1>5. CASE OpenSetPath
  <2>1. reg' = reg
    BY <1>5, Zenon DEF JobOnly, Others, OpenSetPath
  <2> QED BY <2>1 DEF FwInv, Typed
<1>6. CASE Write
  <2>1. reg' = reg
    BY <1>6, Zenon DEF JobOnly, Others, Write
  <2> QED BY <2>1 DEF FwInv, Typed
<1>7. CASE Close
  <2>1. reg' = reg
    BY <1>7, Zenon DEF JobOnly, Others, Close
  <2> QED BY <2>1 DEF FwInv, Typed
<1>8. CASE CommitDisplace
  <2>1. reg' = reg
    BY <1>8, Zenon DEF JobOnly, Others, CommitDisplace
  <2> QED BY <2>1 DEF FwInv, Typed
<1>9. CASE CommitBackup
  <2>1. reg' = reg
    BY <1>9, Zenon DEF JobOnly, Others, CommitBackup
  <2> QED BY <2>1 DEF FwInv, Typed
<1>10. CASE CommitInstall
  <2>1. reg' = reg
    BY <1>10, Zenon DEF JobOnly, Others, CommitInstall
  <2> QED BY <2>1 DEF FwInv, Typed
<1>11. CASE CommitUnlive
  <2>1. reg' = reg
    BY <1>11, Zenon DEF JobOnly, Others, CommitUnlive
  <2> QED BY <2>1 DEF FwInv, Typed
<1>12. CASE CommitUnbackup
  <2>1. reg' = reg
    BY <1>12, Zenon DEF JobOnly, Others, CommitUnbackup
  <2> QED BY <2>1 DEF FwInv, Typed
<1>13. CASE CloseClear
  <2>1. reg' = reg
    BY <1>13, Zenon DEF JobOnly, Others, CloseClear
  <2> QED BY <2>1 DEF FwInv, Typed
<1>14. CASE Restore
  <2>1. reg' = reg
    BY <1>14, Zenon DEF JobOnly, Others, Restore
  <2> QED BY <2>1 DEF FwInv, Typed
<1>15. CASE RestorePromote
  <2>1. reg' = reg
    BY <1>15, Zenon DEF JobOnly, Others, RestorePromote
  <2> QED BY <2>1 DEF FwInv, Typed
<1>16. CASE RestoreUnpromote
  <2>1. reg' = reg
    BY <1>16, Zenon DEF JobOnly, Others, RestoreUnpromote
  <2> QED BY <2>1 DEF FwInv, Typed
<1>17. CASE Abort
  <2>1. reg' = reg
    BY <1>17, Zenon DEF JobOnly, Others, Abort
  <2> QED BY <2>1 DEF FwInv, Typed
<1>18. CASE AbortUnlink
  <2>1. reg' = reg
    BY <1>18, Zenon DEF JobOnly, Others, AbortUnlink
  <2> QED BY <2>1 DEF FwInv, Typed
<1>19. CASE Claim
  <2>1. reg' = reg
    BY <1>19, Zenon DEF JobOnly, Others, Claim
  <2> QED BY <2>1 DEF FwInv, Typed
<1>20. CASE Complete
  <2>1. reg' = reg
    BY <1>20, Zenon DEF JobOnly, Others, Complete
  <2> QED BY <2>1 DEF FwInv, Typed
<1>21. CASE Fault
  <2>1. reg' = reg
    BY <1>21, Zenon DEF JobOnly, Others, Fault
  <2> QED BY <2>1 DEF FwInv, Typed
<1>22. CASE DrainFail
  <2>1. reg' = reg
    BY <1>22, Zenon DEF JobOnly, Others, DrainFail
  <2> QED BY <2>1 DEF FwInv, Typed
<1>23. CASE Retire
  <2>1. reg' = reg
    BY <1>23, Zenon DEF JobOnly, Others, Retire
  <2> QED BY <2>1 DEF FwInv, Typed
<1>24. CASE TakeResult
  <2>1. reg' = reg \/ reg' = [reg EXCEPT !.status = answer.res, !.own = answer.own]
    BY <1>24, Zenon DEF TakeResult, Published
  <2>2. answer.res \in Code /\ answer.own \in BOOLEAN
    BY Zenon DEF FwInv, Typed, AnswerType
  <2> QED BY <2>1, <2>2, RegAnswered, ZenonT(40) DEF FwInv, Typed
<1>25. CASE Stage
  BY <1>25, Zenon DEF FwInv, Typed, RegType, AnswerType, JobType, Published,
       IdleReg, Op, Code, JobOnly, Others, Stage
<1>26. CASE Enqueue
  BY <1>26, Zenon DEF FwInv, Typed, RegType, AnswerType, JobType, Published,
       IdleReg, Op, Code, JobOnly, Others, Enqueue
<1>27. CASE RunInline
  BY <1>27, ZenonT(40) DEF FwInv, Typed, RegType, AnswerType, JobType, Published,
       IdleReg, Op, Code, JobOnly, Others, RunInline
<1>28. CASE InlineDone
  BY <1>28, Zenon DEF FwInv, Typed, RegType, AnswerType, JobType, Published,
       IdleReg, Op, Code, JobOnly, Others, InlineDone
<1>29. CASE PassEnd
  BY <1>29, Zenon DEF FwInv, Typed, RegType, AnswerType, JobType, Published,
       IdleReg, Op, Code, JobOnly, Others, PassEnd
<1>30. CASE GiveUpCore1
  <2>1. reg' = reg
    BY <1>30, Zenon DEF JobOnly, Others, GiveUpCore1
  <2> QED BY <2>1 DEF FwInv, Typed
<1>31. CASE WriteCmd
  <2>1. PICK o \in Op, a \in Target \cup {BadName} :
          reg' = [reg EXCEPT !.pending = TRUE, !.staged = FALSE, !.status = "BUSY",
                             !.op = o, !.arg = a, !.passed = FALSE]
    BY <1>31, Zenon DEF WriteCmd
  <2> QED BY <2>1, Zenon DEF FwInv, Typed, RegType
<1>32. CASE ReuseBuffer
  BY <1>32, Zenon DEF FwInv, Typed, RegType, AnswerType, JobType, Published,
       IdleReg, Op, Code, JobOnly, Others, ReuseBuffer
<1>33. CASE AmigaReset
  BY <1>33, Zenon DEF FwInv, Typed, RegType, AnswerType, JobType, Published,
       IdleReg, Op, Code, JobOnly, Others, AmigaReset
<1>34. CASE PowerLoss
  BY <1>34, Zenon DEF FwInv, Typed, RegType, AnswerType, JobType, Published,
       IdleReg, Op, Code, JobOnly, Others, PowerLoss
<1>35. CASE UNCHANGED vars
  BY <1>35, Zenon DEF vars, FwInv, Typed
<1> QED BY <1>1, <1>2, <1>3, <1>4, <1>5, <1>6, <1>7, <1>8, <1>9, <1>10, <1>11,
       <1>12, <1>13, <1>14, <1>15, <1>16, <1>17, <1>18, <1>19, <1>20, <1>21,
       <1>22, <1>23, <1>24, <1>25, <1>26, <1>27, <1>28, <1>29, <1>30, <1>31,
       <1>32, <1>33, <1>34, <1>35 DEF Next, Command, Core1, MainLoop,
       Environment

(* The card: renames, unlinks, and the temporary file written or torn.     *)
LEMMA CardTyped == ASSUME FwInv, [Next]_vars PROVE card' \in CardType
<1>1. CASE OpenStart
  BY PathsDistinct, <1>1, Zenon DEF FwInv, Typed, CardType, Path, JobOnly,
       Others, OpenStart
<1>2. CASE OpenUnlinkPrior
  BY PathsDistinct, <1>2, Zenon DEF FwInv, Typed, CardType, Path, JobOnly,
       Others, OpenUnlinkPrior
<1>3. CASE OpenCheck
  BY PathsDistinct, <1>3, Zenon DEF FwInv, Typed, CardType, Path, JobOnly,
       Others, OpenCheck
<1>4. CASE OpenCreate
  <2>1. CASE UNCHANGED card
    BY <2>1 DEF FwInv, Typed
  <2>2. CASE FreshPush # {} /\ card' = [card EXCEPT ![Temp] = Opened]
    BY <1>4, <2>2, OpenedType, TempSet DEF FwInv, Typed, OpenCreate
  <2> QED BY <1>4, <2>1, <2>2, Zenon DEF OpenCreate, JobOnly, Opened
<1>5. CASE OpenSetPath
  BY PathsDistinct, <1>5, Zenon DEF FwInv, Typed, CardType, Path, JobOnly,
       Others, OpenSetPath
<1>6. CASE Write
  <2>1. CASE UNCHANGED card
    BY <2>1 DEF FwInv, Typed
  <2>2. CASE open /\ card[Temp].n < Chunks /\ Grown
    BY <2>2, TempGrown DEF FwInv, Typed, ProtocolInv, OpenInv, JobType
  <2>3. CASE open /\ Torn
    BY <2>3, TempTorn DEF FwInv, Typed, ProtocolInv, OpenInv, JobType
  <2> QED BY <1>6, <2>1, <2>2, <2>3, Zenon DEF Write, Grown, Torn
<1>7. CASE Close
  BY PathsDistinct, <1>7, Zenon DEF FwInv, Typed, CardType, Path, JobOnly,
       Others, Close
<1>8. CASE CommitDisplace
  <2>1. CASE UNCHANGED card
    BY <2>1 DEF FwInv, Typed
  <2>2. CASE path # None /\ \E d \in Discard : card' = Renamed(BackupOf[path], d)
    BY <2>2, PathsDistinct, RenamedType, SMT DEF FwInv, Typed, OtherTypes,
         Path
  <2> QED BY <1>8, <2>1, <2>2, Zenon DEF CommitDisplace, JobOnly
<1>9. CASE CommitBackup
  BY PathsDistinct, RenamedType, <1>9, SMT DEF FwInv, Typed, ProtocolInv,
       CardType, JobType, OtherTypes, LabelInv, OpenInv, Path, Exists,
       CanRename, JobOnly, Others, CommitBackup
<1>10. CASE CommitInstall
  BY PathsDistinct, RenamedType, <1>10, SMT DEF FwInv, Typed, ProtocolInv,
       CardType, JobType, OtherTypes, LabelInv, OpenInv, Path, Exists,
       CanRename, JobOnly, Others, CommitInstall
<1>11. CASE CommitUnlive
  BY PathsDistinct, RenamedType, <1>11, SMT DEF FwInv, Typed, ProtocolInv,
       CardType, JobType, OtherTypes, LabelInv, OpenInv, Path, Exists,
       CanRename, JobOnly, Others, CommitUnlive
<1>12. CASE CommitUnbackup
  BY PathsDistinct, RenamedType, <1>12, SMT DEF FwInv, Typed, ProtocolInv,
       CardType, JobType, OtherTypes, LabelInv, OpenInv, Path, Exists,
       CanRename, JobOnly, Others, CommitUnbackup
<1>13. CASE CloseClear
  BY PathsDistinct, <1>13, Zenon DEF FwInv, Typed, CardType, Path, JobOnly,
       Others, CloseClear
<1>14. CASE Restore
  <2>1. CASE UNCHANGED card
    BY <2>1 DEF FwInv, Typed
  <2>2. CASE job.arg \in Target /\ \E d \in Discard : card' = Renamed(job.arg, d)
    BY <2>2, PathsDistinct, RenamedType, SMT DEF FwInv, Typed, OtherTypes,
         Path
  <2> QED BY <1>14, <2>1, <2>2, Zenon DEF Restore, JobOnly
<1>15. CASE RestorePromote
  BY PathsDistinct, RenamedType, <1>15, SMT DEF FwInv, Typed, ProtocolInv,
       CardType, JobType, OtherTypes, LabelInv, OpenInv, Path, Exists,
       CanRename, JobOnly, Others, RestorePromote
<1>16. CASE RestoreUnpromote
  BY PathsDistinct, RenamedType, <1>16, SMT DEF FwInv, Typed, ProtocolInv,
       CardType, JobType, OtherTypes, LabelInv, OpenInv, Path, Exists,
       CanRename, JobOnly, Others, RestoreUnpromote
<1>17. CASE Abort
  BY PathsDistinct, <1>17, Zenon DEF FwInv, Typed, CardType, Path, JobOnly,
       Others, Abort
<1>18. CASE AbortUnlink
  BY PathsDistinct, <1>18, Zenon DEF FwInv, Typed, CardType, Path, JobOnly,
       Others, AbortUnlink
<1>19. CASE Claim
  BY PathsDistinct, <1>19, Zenon DEF FwInv, Typed, CardType, Path, JobOnly,
       Others, Claim
<1>20. CASE Complete
  BY PathsDistinct, <1>20, Zenon DEF FwInv, Typed, CardType, Path, JobOnly,
       Others, Complete
<1>21. CASE Fault
  <2>1. CASE UNCHANGED card
    BY <2>1 DEF FwInv, Typed
  <2>2. CASE open /\ Torn
    BY <2>2, TempTorn DEF FwInv, Typed, ProtocolInv, OpenInv, JobType
  <2> QED BY <1>21, <2>1, <2>2, Zenon DEF Fault, Torn
<1>22. CASE DrainFail
  BY PathsDistinct, <1>22, Zenon DEF FwInv, Typed, CardType, Path, JobOnly,
       Others, DrainFail
<1>23. CASE Retire
  BY PathsDistinct, <1>23, Zenon DEF FwInv, Typed, CardType, Path, JobOnly,
       Others, Retire
<1>24. CASE TakeResult
  BY PathsDistinct, <1>24, Zenon DEF FwInv, Typed, CardType, Path, JobOnly,
       Others, TakeResult
<1>25. CASE Stage
  BY PathsDistinct, <1>25, Zenon DEF FwInv, Typed, CardType, Path, JobOnly,
       Others, Stage
<1>26. CASE Enqueue
  BY PathsDistinct, <1>26, Zenon DEF FwInv, Typed, CardType, Path, JobOnly,
       Others, Enqueue
<1>27. CASE RunInline
  BY PathsDistinct, <1>27, Zenon DEF FwInv, Typed, CardType, Path, JobOnly,
       Others, RunInline
<1>28. CASE InlineDone
  BY PathsDistinct, <1>28, Zenon DEF FwInv, Typed, CardType, Path, JobOnly,
       Others, InlineDone
<1>29. CASE PassEnd
  BY PathsDistinct, <1>29, Zenon DEF FwInv, Typed, CardType, Path, JobOnly,
       Others, PassEnd
<1>30. CASE GiveUpCore1
  BY PathsDistinct, <1>30, Zenon DEF FwInv, Typed, CardType, Path, JobOnly,
       Others, GiveUpCore1
<1>31. CASE WriteCmd
  BY PathsDistinct, <1>31, Zenon DEF FwInv, Typed, CardType, Path, JobOnly,
       Others, WriteCmd
<1>32. CASE ReuseBuffer
  BY PathsDistinct, <1>32, Zenon DEF FwInv, Typed, CardType, Path, JobOnly,
       Others, ReuseBuffer
<1>33. CASE AmigaReset
  BY PathsDistinct, <1>33, Zenon DEF FwInv, Typed, CardType, Path, JobOnly,
       Others, AmigaReset
<1>34. CASE PowerLoss
  BY PathsDistinct, <1>34, Zenon DEF FwInv, Typed, CardType, Path, JobOnly,
       Others, PowerLoss
<1>35. CASE UNCHANGED vars
  BY <1>35, Zenon DEF vars, FwInv, Typed
<1> QED BY <1>1, <1>2, <1>3, <1>4, <1>5, <1>6, <1>7, <1>8, <1>9, <1>10, <1>11,
       <1>12, <1>13, <1>14, <1>15, <1>16, <1>17, <1>18, <1>19, <1>20, <1>21,
       <1>22, <1>23, <1>24, <1>25, <1>26, <1>27, <1>28, <1>29, <1>30, <1>31,
       <1>32, <1>33, <1>34, <1>35 DEF Next, Command, Core1, MainLoop,
       Environment

(* No step breaks the protocol: labels, latest command, staging, contents. *)
LEMMA ProtocolStep == ASSUME FwInv, [Next]_vars PROVE ProtocolInv'
<1> USE DEF ProtocolInv, FwInv, Typed, Path, LabelInv, OpenInv, LatestInv,
      StageInv, TornInv, JobType, AnswerType, RegType, CardType,
      OtherTypes, Exists, CanRename, Running, fw_update_busy, Goto,
      Finish, JobOnly, Others, Taken, TempWhole, AtStart, NoTornFile
<1>1. CASE OpenStart
  <2>0. Running /\ job.op = "OPEN" /\ job.at = "start"
        /\ UNCHANGED <<card, path, core1, answer, reg, buf, client>>
    BY <1>1, Zenon DEF OpenStart
  <2>1. CASE open' = FALSE /\ Goto("unlinkold")
    BY <2>0, <2>1, PathsDistinct, RenamedValue, SMT
  <2>2. CASE ~open /\ path = None /\ UNCHANGED open /\
            Goto("check")
    BY <2>0, <2>2, PathsDistinct, RenamedValue, SMT
  <2> HIDE DEF ProtocolInv, Goto, Finish, JobOnly, Exists, CanRename
  <2> QED BY <1>1, <2>1, <2>2, Zenon DEF OpenStart
<1>2. CASE OpenUnlinkPrior
  BY <1>2, PathsDistinct, RenamedValue, SMT DEF OpenUnlinkPrior
<1>3. CASE OpenCheck
  <2>0. Running /\ job.at = "check" /\ Others
    BY <1>3, Zenon DEF OpenCheck
  <2>1. CASE job.arg \notin Target /\ Finish("ERR_NAME") /\
            JobOnly
    BY <2>0, <2>1, PathsDistinct, RenamedValue, SMT
  <2>2. CASE job.arg \in Target /\ Finish("ERR_OPEN") /\ JobOnly
    BY <2>0, <2>2, PathsDistinct, RenamedValue, SMT
  <2>3. CASE job.arg \in Target /\ card' = [card EXCEPT ![Temp] =
            None] /\ Goto("create") /\ UNCHANGED <<open, path>>
    BY <2>0, <2>3, PathsDistinct, RenamedValue, SMT
  <2> HIDE DEF ProtocolInv, Goto, Finish, JobOnly, Exists, CanRename
  <2> QED BY <1>3, <2>1, <2>2, <2>3, Zenon DEF OpenCheck
<1>4. CASE OpenCreate
  <2>0. Running /\ job.at = "create" /\ Others
    BY <1>4, Zenon DEF OpenCreate
  <2>1. CASE Finish("ERR_OPEN") /\ JobOnly
    BY <2>0, <2>1, PathsDistinct, RenamedValue, SMT
  <2>2. CASE FreshPush # {} /\ card' = [card EXCEPT ![Temp] =
            Opened] /\ open' = TRUE /\ Goto("setpath") /\
            UNCHANGED path
    <3>1. Opened \in Content /\ Opened.bad = FALSE /\ Opened # None
      BY <2>0, <2>2, OpenedType
    <3>2. card'[Temp] = Opened /\ RestKept
      BY <2>2, <3>1, TempSet
    <3> HIDE DEF Opened
    <3> QED BY <2>0, <2>2, <3>1, <3>2, PathsDistinct, SMT DEF RestKept
  <2> HIDE DEF ProtocolInv, Goto, Finish, JobOnly, Exists, CanRename
  <2> QED BY <1>4, <2>1, <2>2, Zenon DEF OpenCreate, Opened
<1>5. CASE OpenSetPath
  BY <1>5, PathsDistinct, RenamedValue, SMT DEF OpenSetPath
<1>6. CASE Write
  <2>0. Running /\ job.op = "WRITE" /\ job.at = "start"
        /\ UNCHANGED <<open, path, core1, answer, reg, buf, client>>
    BY <1>6, Zenon DEF Write
  <2>1. CASE ~open /\ Finish("ERR_STATE") /\ UNCHANGED card
    BY <2>0, <2>1, PathsDistinct, RenamedValue, SMT
  <2>2. CASE open /\ card[Temp].n < Chunks /\ Grown /\
            Finish("OK")
    <3>1. Exists(Temp)' /\ RestKept /\ (~card[Temp].bad /\ ~job.bad => ~card'[Temp].bad)
      BY <2>2, TempGrown
    <3>2. open /\ Finish("OK")
      BY <2>2
    <3> QED BY <2>0, <3>1, <3>2, PathsDistinct, SMT DEF RestKept
  <2>3. CASE open /\ Torn /\ Finish("ERR_WRITE")
    <3>1. Exists(Temp)' /\ RestKept
      BY <2>3, TempTorn
    <3>2. open /\ Finish("ERR_WRITE")
      BY <2>3
    <3> QED BY <2>0, <3>1, <3>2, PathsDistinct, SMT DEF RestKept
  <2> HIDE DEF ProtocolInv, Goto, Finish, JobOnly, Exists, CanRename
  <2> QED BY <1>6, <2>1, <2>2, <2>3, Zenon DEF Write, Grown, Torn
<1>7. CASE Close
  <2>0. Running /\ job.op = "CLOSE" /\ job.at = "start" /\ open' = FALSE
        /\ UNCHANGED <<card, path, core1, answer, reg, buf, client>>
    BY <1>7, Zenon DEF Close
  <2>1. CASE ~open /\ Finish("ERR_STATE")
    BY <2>0, <2>1, PathsDistinct, RenamedValue, SMT
  <2>2. CASE open /\ Finish("ERR_CLOSE")
    BY <2>0, <2>2, PathsDistinct, RenamedValue, SMT
  <2>3. CASE open /\ Goto("commit")
    BY <2>0, <2>3, PathsDistinct, RenamedValue, SMT
  <2> HIDE DEF ProtocolInv, Goto, Finish, JobOnly, Exists, CanRename
  <2> QED BY <1>7, <2>1, <2>2, <2>3, Zenon DEF Close
<1>8. CASE CommitDisplace
  <2>0. Running /\ job.at = "commit" /\ Others
    BY <1>8, Zenon DEF CommitDisplace
  <2>1. CASE Finish("ERR_CLOSE") /\ JobOnly
    BY <2>0, <2>1, PathsDistinct, RenamedValue, SMT
  <2>2. CASE path # None /\ ~Exists(path) /\ Goto("install") /\
            JobOnly
    BY <2>0, <2>2, PathsDistinct, RenamedValue, SMT
  <2>3. CASE path # None /\ Exists(path) /\
            ~Exists(BackupOf[path]) /\ Goto("backup") /\ JobOnly
    BY <2>0, <2>3, PathsDistinct, RenamedValue, SMT
  <2>4. CASE (path # None /\ Exists(path) /\
            Exists(BackupOf[path]) /\ (\E d \in Discard :
            CanRename(BackupOf[path], d) /\ card' =
            Renamed(BackupOf[path], d) /\ job' = [job EXCEPT !.at
            = "backup", !.disc = d]) /\ UNCHANGED <<open, path>>)
    BY <2>0, <2>4, PathsDistinct, RenamedValue, SMTT(30)
  <2> HIDE DEF ProtocolInv, Goto, Finish, JobOnly, Exists, CanRename
  <2> QED BY <1>8, <2>1, <2>2, <2>3, <2>4, Zenon DEF CommitDisplace
<1>9. CASE CommitBackup
  <2>0. Running /\ job.at = "backup" /\ Others
    BY <1>9, Zenon DEF CommitBackup
  <2>1. CASE CanRename(path, BackupOf[path]) /\ card' =
            Renamed(path, BackupOf[path]) /\ job' = [job EXCEPT
            !.at = "install", !.had = TRUE] /\ UNCHANGED <<open,
            path>>
    BY <2>0, <2>1, PathsDistinct, RenamedValue, SMT
  <2>2. CASE Goto("unbackup") /\ JobOnly
    BY <2>0, <2>2, PathsDistinct, RenamedValue, SMT
  <2> HIDE DEF ProtocolInv, Goto, Finish, JobOnly, Exists, CanRename
  <2> QED BY <1>9, <2>1, <2>2, Zenon DEF CommitBackup
<1>10. CASE CommitInstall
  <2>0. Running /\ job.at = "install" /\ Others
    BY <1>10, Zenon DEF CommitInstall
  <2>1. CASE CanRename(Temp, path) /\ card' = Renamed(Temp, path)
            /\ Goto("clear") /\ UNCHANGED <<open, path>>
    <3>1. TornInv'
      BY <2>0, <2>1, PathsDistinct, RenamedValue, SMTT(30)
    <3>2. LabelInv' /\ OpenInv' /\ LatestInv' /\ StageInv'
      BY <2>0, <2>1, PathsDistinct, RenamedValue, SMT
    <3> HIDE DEF LabelInv, OpenInv, LatestInv, StageInv, TornInv
    <3> QED BY <3>1, <3>2
  <2>2. CASE Goto("unlive") /\ JobOnly
    BY <2>0, <2>2, PathsDistinct, RenamedValue, SMT
  <2> HIDE DEF ProtocolInv, Goto, Finish, JobOnly, Exists, CanRename
  <2> QED BY <1>10, <2>1, <2>2, Zenon DEF CommitInstall
<1>11. CASE CommitUnlive
  <2>0. Running /\ job.at = "unlive" /\ Others
    BY <1>11, Zenon DEF CommitUnlive
  <2>1. CASE ~job.had /\ Goto("unbackup") /\ JobOnly
    BY <2>0, <2>1, PathsDistinct, RenamedValue, SMT
  <2>2. CASE job.had /\ CanRename(BackupOf[path], path) /\ card' =
            Renamed(BackupOf[path], path) /\ Goto("unbackup") /\
            UNCHANGED <<open, path>>
    BY <2>0, <2>2, PathsDistinct, RenamedValue, SMT
  <2>3. CASE job.had /\ job' = [job EXCEPT !.at = "unbackup",
            !.undone = FALSE] /\ JobOnly
    BY <2>0, <2>3, PathsDistinct, RenamedValue, SMT
  <2> HIDE DEF ProtocolInv, Goto, Finish, JobOnly, Exists, CanRename
  <2> QED BY <1>11, <2>1, <2>2, <2>3, Zenon DEF CommitUnlive
<1>12. CASE CommitUnbackup
  <2>0. Running /\ job.at = "unbackup" /\ Others
    BY <1>12, Zenon DEF CommitUnbackup
  <2>1. CASE job.disc = None /\ Finish("ERR_CLOSE") /\ JobOnly
    BY <2>0, <2>1, PathsDistinct, RenamedValue, SMT
  <2>2. CASE job.disc # None /\ CanRename(job.disc,
            BackupOf[path]) /\ card' = Renamed(job.disc,
            BackupOf[path]) /\ Finish("ERR_CLOSE") /\ UNCHANGED
            <<open, path>>
    BY <2>0, <2>2, PathsDistinct, RenamedValue, SMT
  <2>3. CASE job.disc # None /\ job' = [job EXCEPT !.at = "end",
            !.res = "ERR_CLOSE", !.undone = FALSE] /\ JobOnly
    BY <2>0, <2>3, PathsDistinct, RenamedValue, SMT
  <2> HIDE DEF ProtocolInv, Goto, Finish, JobOnly, Exists, CanRename
  <2> QED BY <1>12, <2>1, <2>2, <2>3, Zenon DEF CommitUnbackup
<1>13. CASE CloseClear
  BY <1>13, PathsDistinct, RenamedValue, SMT DEF CloseClear
<1>14. CASE Restore
  <2>0. Running /\ job.op = "RESTORE" /\ job.at = "start"
        /\ UNCHANGED <<open, path, core1, answer, reg, buf, client>>
    BY <1>14, Zenon DEF Restore
  <2>1. CASE (open \/ path # None) /\ Finish("ERR_STATE") /\
            UNCHANGED card
    BY <2>0, <2>1, PathsDistinct, RenamedValue, SMT
  <2>2. CASE job.arg \notin Target /\ Finish("ERR_NAME") /\
            UNCHANGED card
    BY <2>0, <2>2, PathsDistinct, RenamedValue, SMT
  <2>3. CASE job.arg \in Target /\ Finish("ERR_OPEN") /\ UNCHANGED
            card
    BY <2>0, <2>3, PathsDistinct, RenamedValue, SMT
  <2>4. CASE job.arg \in Target /\ Finish("ERR_NO_BACKUP") /\
            UNCHANGED card
    BY <2>0, <2>4, PathsDistinct, RenamedValue, SMT
  <2>5. CASE job.arg \in Target /\ Finish("ERR_RESTORE") /\
            UNCHANGED card
    BY <2>0, <2>5, PathsDistinct, RenamedValue, SMT
  <2>6. CASE ~open /\ path = None /\ job.arg \in Target /\
            Goto("promote") /\ UNCHANGED card
    BY <2>0, <2>6, PathsDistinct, RenamedValue, SMT
  <2>7. CASE ~open /\ path = None /\ job.arg \in Target /\
            Exists(BackupOf[job.arg]) /\ (\E d \in Discard :
            CanRename(job.arg, d) /\ card' = Renamed(job.arg, d)
            /\ job' = [job EXCEPT !.at = "promote", !.disc = d])
    BY <2>0, <2>7, PathsDistinct, RenamedValue, SMT
  <2> HIDE DEF ProtocolInv, Goto, Finish, JobOnly, Exists, CanRename
  <2> QED BY <1>14, <2>1, <2>2, <2>3, <2>4, <2>5, <2>6, <2>7, Zenon DEF
         Restore
<1>15. CASE RestorePromote
  <2>0. Running /\ job.at = "promote" /\ UNCHANGED <<open, path>> /\ Others
    BY <1>15, Zenon DEF RestorePromote
  <2>1. CASE CanRename(BackupOf[job.arg], job.arg) /\ card' =
            Renamed(BackupOf[job.arg], job.arg) /\ Finish("OK")
    BY <2>0, <2>1, PathsDistinct, RenamedValue, SMT
  <2>2. CASE Goto("unpromote") /\ UNCHANGED card
    BY <2>0, <2>2, PathsDistinct, RenamedValue, SMT
  <2> HIDE DEF ProtocolInv, Goto, Finish, JobOnly, Exists, CanRename
  <2> QED BY <1>15, <2>1, <2>2, Zenon DEF RestorePromote
<1>16. CASE RestoreUnpromote
  <2>0. Running /\ job.at = "unpromote" /\ UNCHANGED <<open, path>> /\ Others
    BY <1>16, Zenon DEF RestoreUnpromote
  <2>1. CASE job.disc = None /\ Finish("ERR_RESTORE") /\ UNCHANGED
            card
    BY <2>0, <2>1, PathsDistinct, RenamedValue, SMT
  <2>2. CASE job.disc # None /\ CanRename(job.disc, job.arg) /\
            card' = Renamed(job.disc, job.arg) /\
            Finish("ERR_RESTORE")
    BY <2>0, <2>2, PathsDistinct, RenamedValue, SMTT(30)
  <2>3. CASE job.disc # None /\ job' = [job EXCEPT !.at = "end",
            !.res = "ERR_RESTORE", !.undone = FALSE] /\ UNCHANGED
            card
    BY <2>0, <2>3, PathsDistinct, RenamedValue, SMT
  <2> HIDE DEF ProtocolInv, Goto, Finish, JobOnly, Exists, CanRename
  <2> QED BY <1>16, <2>1, <2>2, <2>3, Zenon DEF RestoreUnpromote
<1>17. CASE Abort
  <2>0. Running /\ job.op = "ABORT" /\ job.at = "start" /\ open' = FALSE
        /\ UNCHANGED <<card, path, core1, answer, reg, buf, client>>
    BY <1>17, Zenon DEF Abort
  <2>1. CASE Finish("OK")
    BY <2>0, <2>1, PathsDistinct, RenamedValue, SMT
  <2>2. CASE (open \/ path # None) /\ Goto("unlink")
    BY <2>0, <2>2, PathsDistinct, RenamedValue, SMT
  <2> HIDE DEF ProtocolInv, Goto, Finish, JobOnly, Exists, CanRename
  <2> QED BY <1>17, <2>1, <2>2, Zenon DEF Abort
<1>18. CASE AbortUnlink
  BY <1>18, PathsDistinct, RenamedValue, SMT DEF AbortUnlink
<1>19. CASE Claim
  BY <1>19, PathsDistinct, RenamedValue, SMT DEF Claim
<1>20. CASE Complete
  BY <1>20, PathsDistinct, RenamedValue, SMT DEF Complete
<1>21. CASE Fault
  <2>0. job.on = "core1" /\ Running /\ job' = [job EXCEPT !.state = "failed"]
        /\ UNCHANGED <<open, path, answer, reg, buf, client>>
    BY <1>21, Zenon DEF Fault
  <2>1. CASE UNCHANGED card
    BY <2>0, <2>1, SMT
  <2>2. CASE open /\ job.op = "WRITE" /\ job.at = "start" /\ Torn
    <3>1. Exists(Temp)' /\ RestKept
      BY <2>2, TempTorn
    <3>2. open /\ job.op = "WRITE" /\ job.at = "start"
      BY <2>2
    <3> QED BY <2>0, <3>1, <3>2, PathsDistinct, SMT DEF RestKept
  <2> HIDE DEF ProtocolInv
  <2> QED BY <1>21, <2>1, <2>2, Zenon DEF Fault, Torn
<1>22. CASE DrainFail
  BY <1>22, PathsDistinct, RenamedValue, SMT DEF DrainFail
<1>23. CASE Retire
  BY <1>23, PathsDistinct, RenamedValue, SMT DEF Retire, NoVersions, NoJob,
       FailureOf
<1>24. CASE TakeResult
  <2>1. InLoop /\ answer.done /\ answer' = NoAnswer
        /\ UNCHANGED <<card, open, path, job, core1, buf, before>>
    BY <1>24, Zenon DEF TakeResult
  <2>2. CASE reg.pending /\ UNCHANGED <<reg, client>>
    BY <2>1, <2>2, SMT DEF NoAnswer
  <2>3. CASE /\ ~reg.pending /\ reg' = [reg EXCEPT !.status = answer.res, !.own = answer.own]
             /\ client' = ClientSees(answer.op, answer.res)
    BY <2>1, <2>3, SMT DEF NoAnswer, ClientSees
  <2> HIDE DEF ProtocolInv
  <2> QED BY <1>24, <2>2, <2>3, Zenon DEF TakeResult, Published
<1>25. CASE Stage
  <2>1. job' \in fw_update_stage /\ reg.arg \in Target \cup {BadName, None}
    BY <1>25, SMT DEF Stage
  <2>2. PICK a \in Target \cup {BadName, None} :
          job' = [NoJob EXCEPT !.op = reg.op, !.arg = a, !.bad = ~buf]
    BY <2>1, StageArg
  <2>3. /\ InLoop /\ ~answer.done /\ reg.pending /\ ~fw_update_busy /\ ~reg.staged
        /\ reg' = [reg EXCEPT !.staged = TRUE] /\ buf' = FALSE
        /\ UNCHANGED <<card, open, path, core1, answer, client>>
    BY <1>25, Zenon DEF Stage
  <2> QED BY <2>2, <2>3, SMT DEF NoJob, InLoop
<1>26. CASE Enqueue
  BY <1>26, PathsDistinct, RenamedValue, SMT DEF Enqueue, NoAnswer, InLoop
<1>27. CASE RunInline
  BY <1>27, PathsDistinct, RenamedValue, SMT DEF RunInline, InLoop
<1>28. CASE InlineDone
  BY <1>28, PathsDistinct, RenamedValue, SMT DEF InlineDone, NoVersions,
       NoJob, Published, ClientSees
<1>29. CASE PassEnd
  BY <1>29, PathsDistinct, RenamedValue, SMT DEF PassEnd, InLoop
<1>30. CASE GiveUpCore1
  BY <1>30, PathsDistinct, RenamedValue, SMT DEF GiveUpCore1
<1>31. CASE WriteCmd
  <2>1. TornInv'
    BY <1>31, PathsDistinct, SMT DEF WriteCmd, InRequest, MayWrite
  <2>2. LabelInv' /\ OpenInv'
    BY <1>31, PathsDistinct, SMT DEF WriteCmd, InRequest, MayWrite
  <2>3. LatestInv'
    <3>1. PICK o \in Op :
            /\ reg.status = "BUSY" => o = "ABORT"
            /\ reg'.pending /\ ~reg'.staged /\ reg'.op = o /\ reg'.status = "BUSY"
      BY <1>31, SMT DEF WriteCmd, MayWrite
    <3>2. /\ job'.state = job.state /\ job'.on = job.on /\ answer'.done = answer.done
          /\ client' = (IF reg.status = "BUSY" THEN "spoiled" ELSE client)
      BY <1>31, SMT DEF WriteCmd
    <3>3. ~(Running /\ job.on = "core0")
      BY <1>31, SMT DEF WriteCmd, InRequest, InLoop
    <3> QED BY <3>1, <3>2, <3>3, SMT
  <2>4. StageInv'
    BY <1>31, PathsDistinct, SMT DEF WriteCmd, InRequest, MayWrite
  <2> HIDE DEF LabelInv, OpenInv, LatestInv, StageInv, TornInv
  <2> QED BY <2>1, <2>2, <2>3, <2>4
<1>32. CASE ReuseBuffer
  BY <1>32, PathsDistinct, RenamedValue, SMT DEF ReuseBuffer, InRequest
<1>33. CASE AmigaReset
  BY <1>33, PathsDistinct, RenamedValue, SMT DEF AmigaReset, NoVersions,
       NoJob, NoAnswer, IdleReg, InLoop
<1>34. CASE PowerLoss
  BY <1>34, PathsDistinct, RenamedValue, SMT DEF PowerLoss, NoVersions, NoJob,
       NoAnswer, IdleReg
<1>35. CASE UNCHANGED vars
  BY <1>35, SMT DEF vars
<1> HIDE DEF ProtocolInv
<1> QED BY <1>1, <1>2, <1>3, <1>4, <1>5, <1>6, <1>7, <1>8, <1>9, <1>10, <1>11,
       <1>12, <1>13, <1>14, <1>15, <1>16, <1>17, <1>18, <1>19, <1>20, <1>21,
       <1>22, <1>23, <1>24, <1>25, <1>26, <1>27, <1>28, <1>29, <1>30, <1>31,
       <1>32, <1>33, <1>34, <1>35 DEF Next, Command, Core1, MainLoop,
       Environment

(* Every single step keeps target or backup.                               *)
LEMMA KeptStep == ASSUME OwnBackups, FwInv, [Next]_vars PROVE Kept
<1> USE DEF Kept, OwnBackups, OnCard, FwInv, Typed, Path, CardType, JobType,
      OtherTypes, ProtocolInv, OpenInv, LabelInv, Exists, CanRename,
      JobOnly, Others, Running
<1>1. CASE OpenStart
  BY <1>1, PathsDistinct, RenamedValue, SMT DEF OpenStart
<1>2. CASE OpenUnlinkPrior
  BY <1>2, PathsDistinct, RenamedValue, SMT DEF OpenUnlinkPrior
<1>3. CASE OpenCheck
  BY <1>3, PathsDistinct, RenamedValue, SMT DEF OpenCheck
<1>4. CASE OpenCreate
  <2>1. UNCHANGED card \/ RestKept
    <3>1. CASE FreshPush # {} /\ card' = [card EXCEPT ![Temp] = Opened]
      BY <1>4, <3>1, OpenedType, TempSet DEF OpenCreate
    <3> HIDE DEF RestKept
    <3> QED BY <1>4, <3>1, Zenon DEF OpenCreate, Opened
  <2> QED BY <2>1, PathsDistinct, SMT DEF RestKept
<1>5. CASE OpenSetPath
  BY <1>5, PathsDistinct, RenamedValue, SMT DEF OpenSetPath
<1>6. CASE Write
  <2>1. UNCHANGED card \/ RestKept
    <3>1. CASE open /\ card[Temp].n < Chunks /\ Grown
      BY <3>1, TempGrown
    <3>2. CASE open /\ Torn
      BY <3>2, TempTorn
    <3> QED BY <1>6, <3>1, <3>2, Zenon DEF Write, Grown, Torn
  <2> QED BY <2>1, PathsDistinct, SMT DEF RestKept
<1>7. CASE Close
  BY <1>7, PathsDistinct, RenamedValue, SMT DEF Close
<1>8. CASE CommitDisplace
  <2>1. CASE UNCHANGED card
    BY <2>1, SMT
  <2>2. CASE path # None /\ Exists(path)
          /\ \E d \in Discard : card' = Renamed(BackupOf[path], d)
    BY <2>2, PathsDistinct, RenamedValue, SMT
  <2> HIDE DEF Kept
  <2> QED BY <1>8, <2>1, <2>2, Zenon DEF CommitDisplace
<1>9. CASE CommitBackup
  BY <1>9, PathsDistinct, RenamedValue, SMT DEF CommitBackup
<1>10. CASE CommitInstall
  BY <1>10, PathsDistinct, RenamedValue, SMT DEF CommitInstall
<1>11. CASE CommitUnlive
  BY <1>11, PathsDistinct, RenamedValue, SMT DEF CommitUnlive
<1>12. CASE CommitUnbackup
  BY <1>12, PathsDistinct, RenamedValue, SMT DEF CommitUnbackup
<1>13. CASE CloseClear
  BY <1>13, PathsDistinct, RenamedValue, SMT DEF CloseClear
<1>14. CASE Restore
  <2>1. CASE UNCHANGED card
    BY <2>1, SMT
  <2>2. CASE job.arg \in Target /\ Exists(BackupOf[job.arg])
          /\ \E d \in Discard : card' = Renamed(job.arg, d)
    BY <2>2, PathsDistinct, RenamedValue, SMT
  <2> HIDE DEF Kept
  <2> QED BY <1>14, <2>1, <2>2, Zenon DEF Restore
<1>15. CASE RestorePromote
  BY <1>15, PathsDistinct, RenamedValue, SMT DEF RestorePromote
<1>16. CASE RestoreUnpromote
  BY <1>16, PathsDistinct, RenamedValue, SMT DEF RestoreUnpromote
<1>17. CASE Abort
  BY <1>17, PathsDistinct, RenamedValue, SMT DEF Abort
<1>18. CASE AbortUnlink
  BY <1>18, PathsDistinct, RenamedValue, SMT DEF AbortUnlink
<1>19. CASE Claim
  BY <1>19, PathsDistinct, RenamedValue, SMT DEF Claim
<1>20. CASE Complete
  BY <1>20, PathsDistinct, RenamedValue, SMT DEF Complete
<1>21. CASE Fault
  <2>1. UNCHANGED card \/ RestKept
    <3>1. CASE open /\ Torn
      BY <3>1, TempTorn
    <3> QED BY <1>21, <3>1, Zenon DEF Fault, Torn
  <2> QED BY <2>1, PathsDistinct, SMT DEF RestKept
<1>22. CASE DrainFail
  BY <1>22, PathsDistinct, RenamedValue, SMT DEF DrainFail
<1>23. CASE Retire
  BY <1>23, PathsDistinct, RenamedValue, SMT DEF Retire
<1>24. CASE TakeResult
  BY <1>24, PathsDistinct, RenamedValue, SMT DEF TakeResult
<1>25. CASE Stage
  BY <1>25, PathsDistinct, RenamedValue, SMT DEF Stage
<1>26. CASE Enqueue
  BY <1>26, PathsDistinct, RenamedValue, SMT DEF Enqueue
<1>27. CASE RunInline
  BY <1>27, PathsDistinct, RenamedValue, SMT DEF RunInline
<1>28. CASE InlineDone
  BY <1>28, PathsDistinct, RenamedValue, SMT DEF InlineDone
<1>29. CASE PassEnd
  BY <1>29, PathsDistinct, RenamedValue, SMT DEF PassEnd
<1>30. CASE GiveUpCore1
  BY <1>30, PathsDistinct, RenamedValue, SMT DEF GiveUpCore1
<1>31. CASE WriteCmd
  BY <1>31, PathsDistinct, RenamedValue, SMT DEF WriteCmd
<1>32. CASE ReuseBuffer
  BY <1>32, PathsDistinct, RenamedValue, SMT DEF ReuseBuffer
<1>33. CASE AmigaReset
  BY <1>33, PathsDistinct, RenamedValue, SMT DEF AmigaReset
<1>34. CASE PowerLoss
  BY <1>34, PathsDistinct, RenamedValue, SMT DEF PowerLoss
<1>35. CASE UNCHANGED vars
  BY <1>35, SMT DEF vars
<1> HIDE DEF Kept
<1> QED BY <1>1, <1>2, <1>3, <1>4, <1>5, <1>6, <1>7, <1>8, <1>9, <1>10, <1>11,
       <1>12, <1>13, <1>14, <1>15, <1>16, <1>17, <1>18, <1>19, <1>20, <1>21,
       <1>22, <1>23, <1>24, <1>25, <1>26, <1>27, <1>28, <1>29, <1>30, <1>31,
       <1>32, <1>33, <1>34, <1>35 DEF Next, Command, Core1, MainLoop,
       Environment

----------------------------------------------------------------------------
(* No torn file at the start, and nothing the client waits for.            *)
LEMMA FwInit == Init => FwInv
<1> SUFFICES ASSUME Init PROVE FwInv  OBVIOUS
<1>0. PICK files \in SUBSET Target : \E id \in [files -> Push] :
        card = [p \in Path |->
                  IF p \in files
                  THEN [of |-> p, push |-> id[p], n |-> Chunks, bad |-> FALSE]
                  ELSE None]
  BY Zenon DEF Init
<1>1. PICK id \in [files -> Push] :
        card = [p \in Path |->
                  IF p \in files
                  THEN [of |-> p, push |-> id[p], n |-> Chunks, bad |-> FALSE]
                  ELSE None]
  BY <1>0
<1>2. Chunks \in 0..Chunks
  BY ChunksNat, SMT
<1>3. \A p \in files : [of |-> p, push |-> id[p], n |-> Chunks, bad |-> FALSE] \in Content
  BY <1>2, Zenon DEF Content
<1>4. card \in CardType
  BY <1>1, <1>3, Zenon DEF CardType
<1>5. \A p \in Path : card[p] = None \/ card[p].bad = FALSE
  BY <1>1, Zenon
<1>6. card[Temp] = None
  BY <1>1, PathsDistinct, SMT DEF Path
<1>7. job = NoJob /\ answer = NoAnswer /\ reg = IdleReg /\ open = FALSE /\ path = None
      /\ core1 = TRUE /\ buf = FALSE /\ client = "idle" /\ before = NoVersions
  BY Zenon DEF Init, NoVersions
<1>8. Typed
  BY <1>4, <1>7, Zenon DEF Typed, JobType, AnswerType, RegType, OtherTypes, BeforeType,
       NoJob, NoAnswer, IdleReg, NoVersions, Op, Code, Labels
<1>9. LabelInv /\ OpenInv /\ LatestInv /\ StageInv
  BY <1>7, SMT DEF LabelInv, OpenInv, LatestInv, StageInv, NoJob, NoAnswer, IdleReg,
       Running, Taken, fw_update_busy
<1>10. TornInv
  BY <1>5, <1>6, <1>7, SMT DEF TornInv, NoTornFile, TempWhole, Exists, Path, Taken,
       NoJob, NoAnswer, IdleReg
<1> QED BY <1>8, <1>9, <1>10 DEF FwInv, ProtocolInv

(* The inductive invariant.                                                *)
LEMMA FwInvariant == Spec => []FwInv
<1>1. FwInv /\ [Next]_vars => FwInv'
  BY CardTyped, JobTyped, AnswerTyped, RegTyped, PlaceTyped, BeforeTyped, ProtocolStep
     DEF FwInv, Typed
<1> QED BY FwInit, <1>1, PTL DEF Spec

----------------------------------------------------------------------------
(* Every variable keeps its type.                                          *)
THEOREM TypeCorrect == Spec => []TypeOK
<1>1. FwInv => TypeOK
  BY Zenon DEF FwInv, Typed, TypeOK, CardType, JobType, AnswerType, RegType, OtherTypes,
       BeforeType
<1> QED BY FwInvariant, <1>1, PTL

(* A target that is on the card stays there or in its backup, through      *)
(* every command, failing call, fault, reset and power loss, provided that *)
(* no two targets share a backup file.                                     *)
THEOREM NeverLost == ASSUME OwnBackups PROVE Spec => NeverWithout
<1>1. FwInv /\ [Next]_vars => [\A t \in Target : OnCard(t) => OnCard(t)']_vars
  BY KeptStep DEF Kept
<1> QED BY FwInvariant, <1>1, PTL DEF Spec, NeverWithout

(* Nothing is installed that the client did not have written whole.        *)
THEOREM NothingTorn == Spec => []NoTornFile
<1>1. FwInv => NoTornFile
  BY DEF FwInv, ProtocolInv, TornInv
<1> QED BY FwInvariant, <1>1, PTL

(* The status the client reads is of the last command it wrote.            *)
THEOREM LatestAnswered == Spec => []AnswerIsLatest
<1>1. FwInv => AnswerIsLatest
  BY DEF FwInv, ProtocolInv, LatestInv, AnswerIsLatest
<1> QED BY FwInvariant, <1>1, PTL

----------------------------------------------------------------------------
(* What CLOSE and RESTORE have moved so far, label by label: the file and  *)
(* the backup the command found are each where the next rename, forward or *)
(* back, expects them.                                                     *)
NoBefore == before.live = None /\ before.bak = None
Unmoved == job.disc = None /\ ~job.had /\ job.undone
Intact(t) == card[t] = before.live /\ card[BackupOf[t]] = before.bak
Aside(v) == IF job.disc = None THEN v = None ELSE v # None /\ card[job.disc] = v
Displacing(p, b) ==
  /\ ~job.had /\ job.undone /\ card[p] = before.live /\ before.live # None
  /\ card[b] = None /\ Aside(before.bak)
Displaced(p, b) ==
  /\ job.undone /\ card[p] = None
  /\ IF job.had THEN card[b] = before.live /\ before.live # None /\ Aside(before.bak)
                ELSE before.live = None /\ job.disc = None /\ card[b] = before.bak
Returning(p, b) ==
  /\ card[p] = before.live
  /\ IF job.disc = None THEN card[b] = before.bak
                        ELSE card[b] = None /\ Aside(before.bak)
Promoting(p, b) ==
  /\ job.undone /\ card[p] = None /\ card[b] = before.bak /\ before.bak # None
  /\ Aside(before.live)
Promoted(t) == card[t] = before.bak /\ card[BackupOf[t]] = None
Saved(b) == card[b] = IF before.live = None THEN before.bak ELSE before.live

MovesInv ==
  /\ job.state \in {"none", "queued"} \/ (Running /\ job.at = "start") => Unmoved /\ NoBefore
  /\ Running /\ job.op \in {"OPEN", "WRITE", "ABORT"} => NoBefore
  /\ Running /\ job.at = "commit" => Unmoved /\ (path # None => Intact(path))
  /\ Running /\ job.at = "backup" => Displacing(path, BackupOf[path])
  /\ Running /\ job.at \in {"install", "unlive"} => Displaced(path, BackupOf[path])
  /\ Running /\ job.at = "unbackup" /\ job.undone => Returning(path, BackupOf[path])
  /\ Running /\ job.at = "clear" => Saved(BackupOf[path])
  /\ Running /\ job.at \in {"promote", "unpromote"} => Promoting(job.arg, BackupOf[job.arg])
  /\ Running /\ job.at = "end" /\ job.undone /\ job.op = "CLOSE" /\ path # None =>
       job.res # "OK" /\ Intact(path)
  /\ Running /\ job.at = "end" /\ job.undone /\ job.op = "RESTORE" /\ job.arg \in Target =>
       IF job.res = "OK" THEN Promoted(job.arg) ELSE Intact(job.arg)


(* No step, of any command or around it, breaks that.                      *)
LEMMA MovesStep == ASSUME FwInv, MovesInv, [Next]_vars PROVE MovesInv'
<1> USE DEF MovesInv, NoBefore, Unmoved, Intact, Aside, Displacing, Displaced,
      Returning, Promoting, Promoted, Saved, Versions, NoVersions, FwInv, Typed, Path,
      CardType, JobType, BeforeType, OtherTypes, ProtocolInv, LabelInv, Exists,
      CanRename, JobOnly, Others, Running, Goto, Finish
<1>1. CASE OpenStart
  <2>0. Running /\ job.op = "OPEN" /\ job.at = "start"
        /\ UNCHANGED <<card, path, core1, answer, reg, buf, client>>
        /\ before' = NoVersions
    BY <1>1, Zenon DEF OpenStart
  <2>1. CASE open' = FALSE /\ Goto("unlinkold")
    BY <2>0, <2>1, PathsDistinct, RenamedValue, SMT
  <2>2. CASE ~open /\ path = None /\ UNCHANGED open /\
            Goto("check")
    BY <2>0, <2>2, PathsDistinct, RenamedValue, SMT
  <2> HIDE DEF ProtocolInv, Goto, Finish, JobOnly, Exists, CanRename
  <2> QED BY <1>1, <2>1, <2>2, Zenon DEF OpenStart
<1>2. CASE OpenUnlinkPrior
  BY <1>2, PathsDistinct, RenamedValue, SMT DEF OpenUnlinkPrior
<1>3. CASE OpenCheck
  <2>0. Running /\ job.at = "check" /\ Others
    BY <1>3, Zenon DEF OpenCheck
  <2>1. CASE job.arg \notin Target /\ Finish("ERR_NAME") /\
            JobOnly
    BY <2>0, <2>1, PathsDistinct, RenamedValue, SMT
  <2>2. CASE job.arg \in Target /\ Finish("ERR_OPEN") /\ JobOnly
    BY <2>0, <2>2, PathsDistinct, RenamedValue, SMT
  <2>3. CASE job.arg \in Target /\ card' = [card EXCEPT ![Temp] =
            None] /\ Goto("create") /\ UNCHANGED <<open, path>>
    BY <2>0, <2>3, PathsDistinct, RenamedValue, SMT
  <2> HIDE DEF ProtocolInv, Goto, Finish, JobOnly, Exists, CanRename
  <2> QED BY <1>3, <2>1, <2>2, <2>3, Zenon DEF OpenCheck
<1>4. CASE OpenCreate
  <2>0. Running /\ job.at = "create" /\ Others
    BY <1>4, Zenon DEF OpenCreate
  <2>1. CASE Finish("ERR_OPEN") /\ JobOnly
    BY <2>0, <2>1, PathsDistinct, RenamedValue, SMT
  <2>2. CASE FreshPush # {} /\ card' = [card EXCEPT ![Temp] =
            Opened] /\ open' = TRUE /\ Goto("setpath") /\
            UNCHANGED path
    BY <2>0, <2>2, PathsDistinct, RenamedValue, SMT
  <2> HIDE DEF ProtocolInv, Goto, Finish, JobOnly, Exists, CanRename
  <2> QED BY <1>4, <2>1, <2>2, Zenon DEF OpenCreate, Opened
<1>5. CASE OpenSetPath
  BY <1>5, PathsDistinct, RenamedValue, SMT DEF OpenSetPath
<1>6. CASE Write
  <2>0. Running /\ job.op = "WRITE" /\ job.at = "start"
        /\ UNCHANGED <<open, path, core1, answer, reg, buf, client>>
        /\ before' = NoVersions
    BY <1>6, Zenon DEF Write
  <2>1. CASE ~open /\ Finish("ERR_STATE") /\ UNCHANGED card
    BY <2>0, <2>1, PathsDistinct, RenamedValue, SMT
  <2>2. CASE open /\ card[Temp].n < Chunks /\ Grown /\
            Finish("OK")
    BY <2>0, <2>2, PathsDistinct, RenamedValue, SMT
  <2>3. CASE open /\ Torn /\ Finish("ERR_WRITE")
    BY <2>0, <2>3, PathsDistinct, RenamedValue, SMT
  <2> HIDE DEF ProtocolInv, Goto, Finish, JobOnly, Exists, CanRename
  <2> QED BY <1>6, <2>1, <2>2, <2>3, Zenon DEF Write, Grown, Torn
<1>7. CASE Close
  <2>0. Running /\ job.op = "CLOSE" /\ job.at = "start" /\ open' = FALSE
        /\ UNCHANGED <<card, path, core1, answer, reg, buf, client>>
        /\ before' = (IF path # None THEN Versions(path) ELSE NoVersions)
    BY <1>7, Zenon DEF Close
  <2>1. CASE ~open /\ Finish("ERR_STATE")
    BY <2>0, <2>1, PathsDistinct, RenamedValue, SMT
  <2>2. CASE open /\ Finish("ERR_CLOSE")
    BY <2>0, <2>2, PathsDistinct, RenamedValue, SMT
  <2>3. CASE open /\ Goto("commit")
    BY <2>0, <2>3, PathsDistinct, RenamedValue, SMT
  <2> HIDE DEF ProtocolInv, Goto, Finish, JobOnly, Exists, CanRename
  <2> QED BY <1>7, <2>1, <2>2, <2>3, Zenon DEF Close
<1>8. CASE CommitDisplace
  <2>0. Running /\ job.at = "commit" /\ Others
    BY <1>8, Zenon DEF CommitDisplace
  <2>1. CASE Finish("ERR_CLOSE") /\ JobOnly
    BY <2>0, <2>1, PathsDistinct, RenamedValue, SMT
  <2>2. CASE path # None /\ ~Exists(path) /\ Goto("install") /\
            JobOnly
    BY <2>0, <2>2, PathsDistinct, RenamedValue, SMT
  <2>3. CASE path # None /\ Exists(path) /\
            ~Exists(BackupOf[path]) /\ Goto("backup") /\ JobOnly
    BY <2>0, <2>3, PathsDistinct, RenamedValue, SMT
  <2>4. CASE (path # None /\ Exists(path) /\
            Exists(BackupOf[path]) /\ (\E d \in Discard :
            CanRename(BackupOf[path], d) /\ card' =
            Renamed(BackupOf[path], d) /\ job' = [job EXCEPT !.at
            = "backup", !.disc = d]) /\ UNCHANGED <<open, path>>)
    BY <2>0, <2>4, PathsDistinct, RenamedValue, SMT
  <2> HIDE DEF ProtocolInv, Goto, Finish, JobOnly, Exists, CanRename
  <2> QED BY <1>8, <2>1, <2>2, <2>3, <2>4, Zenon DEF CommitDisplace
<1>9. CASE CommitBackup
  <2>0. Running /\ job.at = "backup" /\ Others
    BY <1>9, Zenon DEF CommitBackup
  <2>1. CASE CanRename(path, BackupOf[path]) /\ card' =
            Renamed(path, BackupOf[path]) /\ job' = [job EXCEPT
            !.at = "install", !.had = TRUE] /\ UNCHANGED <<open,
            path>>
    BY <2>0, <2>1, PathsDistinct, RenamedValue, SMT
  <2>2. CASE Goto("unbackup") /\ JobOnly
    BY <2>0, <2>2, PathsDistinct, RenamedValue, SMT
  <2> HIDE DEF ProtocolInv, Goto, Finish, JobOnly, Exists, CanRename
  <2> QED BY <1>9, <2>1, <2>2, Zenon DEF CommitBackup
<1>10. CASE CommitInstall
  <2>0. Running /\ job.at = "install" /\ Others
    BY <1>10, Zenon DEF CommitInstall
  <2>1. CASE CanRename(Temp, path) /\ card' = Renamed(Temp, path)
            /\ Goto("clear") /\ UNCHANGED <<open, path>>
    BY <2>0, <2>1, PathsDistinct, RenamedValue, SMT
  <2>2. CASE Goto("unlive") /\ JobOnly
    BY <2>0, <2>2, PathsDistinct, RenamedValue, SMT
  <2> HIDE DEF ProtocolInv, Goto, Finish, JobOnly, Exists, CanRename
  <2> QED BY <1>10, <2>1, <2>2, Zenon DEF CommitInstall
<1>11. CASE CommitUnlive
  <2>0. Running /\ job.at = "unlive" /\ Others
    BY <1>11, Zenon DEF CommitUnlive
  <2>1. CASE ~job.had /\ Goto("unbackup") /\ JobOnly
    BY <2>0, <2>1, PathsDistinct, RenamedValue, SMT
  <2>2. CASE job.had /\ CanRename(BackupOf[path], path) /\ card' =
            Renamed(BackupOf[path], path) /\ Goto("unbackup") /\
            UNCHANGED <<open, path>>
    BY <2>0, <2>2, PathsDistinct, RenamedValue, SMT
  <2>3. CASE job.had /\ job' = [job EXCEPT !.at = "unbackup",
            !.undone = FALSE] /\ JobOnly
    BY <2>0, <2>3, PathsDistinct, RenamedValue, SMT
  <2> HIDE DEF ProtocolInv, Goto, Finish, JobOnly, Exists, CanRename
  <2> QED BY <1>11, <2>1, <2>2, <2>3, Zenon DEF CommitUnlive
<1>12. CASE CommitUnbackup
  <2>0. Running /\ job.at = "unbackup" /\ Others
    BY <1>12, Zenon DEF CommitUnbackup
  <2>1. CASE job.disc = None /\ Finish("ERR_CLOSE") /\ JobOnly
    BY <2>0, <2>1, PathsDistinct, RenamedValue, SMT
  <2>2. CASE job.disc # None /\ CanRename(job.disc,
            BackupOf[path]) /\ card' = Renamed(job.disc,
            BackupOf[path]) /\ Finish("ERR_CLOSE") /\ UNCHANGED
            <<open, path>>
    BY <2>0, <2>2, PathsDistinct, RenamedValue, SMT
  <2>3. CASE job.disc # None /\ job' = [job EXCEPT !.at = "end",
            !.res = "ERR_CLOSE", !.undone = FALSE] /\ JobOnly
    BY <2>0, <2>3, PathsDistinct, RenamedValue, SMT
  <2> HIDE DEF ProtocolInv, Goto, Finish, JobOnly, Exists, CanRename
  <2> QED BY <1>12, <2>1, <2>2, <2>3, Zenon DEF CommitUnbackup
<1>13. CASE CloseClear
  BY <1>13, PathsDistinct, RenamedValue, SMT DEF CloseClear
<1>14. CASE Restore
  <2>0. Running /\ job.op = "RESTORE" /\ job.at = "start"
        /\ UNCHANGED <<open, path, core1, answer, reg, buf, client>>
        /\ before' = (IF job.arg \in Target THEN Versions(job.arg) ELSE NoVersions)
    BY <1>14, Zenon DEF Restore
  <2>1. CASE (open \/ path # None) /\ Finish("ERR_STATE") /\
            UNCHANGED card
    BY <2>0, <2>1, PathsDistinct, RenamedValue, SMT
  <2>2. CASE job.arg \notin Target /\ Finish("ERR_NAME") /\
            UNCHANGED card
    BY <2>0, <2>2, PathsDistinct, RenamedValue, SMT
  <2>3. CASE job.arg \in Target /\ Finish("ERR_OPEN") /\ UNCHANGED
            card
    BY <2>0, <2>3, PathsDistinct, RenamedValue, SMT
  <2>4. CASE job.arg \in Target /\ Finish("ERR_NO_BACKUP") /\
            UNCHANGED card
    BY <2>0, <2>4, PathsDistinct, RenamedValue, SMT
  <2>5. CASE job.arg \in Target /\ Finish("ERR_RESTORE") /\
            UNCHANGED card
    BY <2>0, <2>5, PathsDistinct, RenamedValue, SMT
  <2>6. CASE ~open /\ path = None /\ job.arg \in Target /\ ~Exists(job.arg)
          /\ Exists(BackupOf[job.arg]) /\ Goto("promote") /\ UNCHANGED card
    BY <2>0, <2>6, PathsDistinct, RenamedValue, SMT
  <2>7. CASE ~open /\ path = None /\ job.arg \in Target /\
            Exists(BackupOf[job.arg]) /\ (\E d \in Discard :
            CanRename(job.arg, d) /\ card' = Renamed(job.arg, d)
            /\ job' = [job EXCEPT !.at = "promote", !.disc = d])
    BY <2>0, <2>7, PathsDistinct, RenamedValue, SMT
  <2> HIDE DEF ProtocolInv, Goto, Finish, JobOnly, Exists, CanRename
  <2> QED BY <1>14, <2>1, <2>2, <2>3, <2>4, <2>5, <2>6, <2>7, Zenon DEF
         Restore
<1>15. CASE RestorePromote
  <2>0. Running /\ job.at = "promote" /\ UNCHANGED <<open, path>> /\ Others
    BY <1>15, Zenon DEF RestorePromote
  <2>1. CASE CanRename(BackupOf[job.arg], job.arg) /\ card' =
            Renamed(BackupOf[job.arg], job.arg) /\ Finish("OK")
    BY <2>0, <2>1, PathsDistinct, RenamedValue, SMT
  <2>2. CASE Goto("unpromote") /\ UNCHANGED card
    BY <2>0, <2>2, PathsDistinct, RenamedValue, SMT
  <2> HIDE DEF ProtocolInv, Goto, Finish, JobOnly, Exists, CanRename
  <2> QED BY <1>15, <2>1, <2>2, Zenon DEF RestorePromote
<1>16. CASE RestoreUnpromote
  <2>0. Running /\ job.at = "unpromote" /\ UNCHANGED <<open, path>> /\ Others
    BY <1>16, Zenon DEF RestoreUnpromote
  <2>1. CASE job.disc = None /\ Finish("ERR_RESTORE") /\ UNCHANGED
            card
    BY <2>0, <2>1, PathsDistinct, RenamedValue, SMT
  <2>2. CASE job.disc # None /\ CanRename(job.disc, job.arg) /\
            card' = Renamed(job.disc, job.arg) /\
            Finish("ERR_RESTORE")
    BY <2>0, <2>2, PathsDistinct, RenamedValue, SMT
  <2>3. CASE job.disc # None /\ job' = [job EXCEPT !.at = "end",
            !.res = "ERR_RESTORE", !.undone = FALSE] /\ UNCHANGED
            card
    BY <2>0, <2>3, PathsDistinct, RenamedValue, SMT
  <2> HIDE DEF ProtocolInv, Goto, Finish, JobOnly, Exists, CanRename
  <2> QED BY <1>16, <2>1, <2>2, <2>3, Zenon DEF RestoreUnpromote
<1>17. CASE Abort
  <2>0. Running /\ job.op = "ABORT" /\ job.at = "start" /\ open' = FALSE
        /\ UNCHANGED <<card, path, core1, answer, reg, buf, client>>
        /\ before' = NoVersions
    BY <1>17, Zenon DEF Abort
  <2>1. CASE Finish("OK")
    BY <2>0, <2>1, PathsDistinct, RenamedValue, SMT
  <2>2. CASE (open \/ path # None) /\ Goto("unlink")
    BY <2>0, <2>2, PathsDistinct, RenamedValue, SMT
  <2> HIDE DEF ProtocolInv, Goto, Finish, JobOnly, Exists, CanRename
  <2> QED BY <1>17, <2>1, <2>2, Zenon DEF Abort
<1>18. CASE AbortUnlink
  BY <1>18, PathsDistinct, RenamedValue, SMT DEF AbortUnlink
<1>19. CASE Claim
  BY <1>19, PathsDistinct, RenamedValue, SMT DEF Claim
<1>20. CASE Complete
  BY <1>20, PathsDistinct, RenamedValue, SMT DEF Complete
<1>21. CASE Fault
  <2>1. job' = [job EXCEPT !.state = "failed"]
    BY <1>21, Zenon DEF Fault
  <2> QED BY <2>1, SMT
<1>22. CASE DrainFail
  BY <1>22, PathsDistinct, RenamedValue, SMT DEF DrainFail
<1>23. CASE Retire
  BY <1>23, PathsDistinct, RenamedValue, SMT DEF Retire, NoVersions, NoJob,
       FailureOf
<1>24. CASE TakeResult
  BY <1>24, SMT DEF TakeResult
<1>25. CASE Stage
  <2>1. job' \in fw_update_stage /\ reg.arg \in Target \cup {BadName, None}
    BY <1>25, SMT DEF Stage, RegType
  <2>2. PICK a \in Target \cup {BadName, None} :
          job' = [NoJob EXCEPT !.op = reg.op, !.arg = a, !.bad = ~buf]
    BY <2>1, StageArg
  <2>3. job.state = "none" /\ UNCHANGED before
    BY <1>25, SMT DEF Stage, LatestInv, Taken, fw_update_busy, InLoop
  <2> QED BY <2>2, <2>3, SMT DEF NoJob
<1>26. CASE Enqueue
  BY <1>26, SMT DEF Enqueue, LatestInv, Taken, fw_update_busy, InLoop
<1>27. CASE RunInline
  BY <1>27, SMT DEF RunInline, LatestInv, Taken, fw_update_busy, InLoop
<1>28. CASE InlineDone
  BY <1>28, PathsDistinct, RenamedValue, SMT DEF InlineDone, NoVersions,
       NoJob, Published, ClientSees
<1>29. CASE PassEnd
  BY <1>29, PathsDistinct, RenamedValue, SMT DEF PassEnd, InLoop
<1>30. CASE GiveUpCore1
  BY <1>30, PathsDistinct, RenamedValue, SMT DEF GiveUpCore1
<1>31. CASE WriteCmd
  BY <1>31, SMT DEF WriteCmd
<1>32. CASE ReuseBuffer
  BY <1>32, PathsDistinct, RenamedValue, SMT DEF ReuseBuffer, InRequest
<1>33. CASE AmigaReset
  BY <1>33, PathsDistinct, RenamedValue, SMT DEF AmigaReset, NoVersions,
       NoJob, NoAnswer, IdleReg, InLoop
<1>34. CASE PowerLoss
  BY <1>34, PathsDistinct, RenamedValue, SMT DEF PowerLoss, NoVersions, NoJob,
       NoAnswer, IdleReg
<1>35. CASE UNCHANGED vars
  BY <1>35, SMT DEF vars
<1> HIDE DEF MovesInv
<1> QED BY <1>1, <1>2, <1>3, <1>4, <1>5, <1>6, <1>7, <1>8, <1>9, <1>10, <1>11,
       <1>12, <1>13, <1>14, <1>15, <1>16, <1>17, <1>18, <1>19, <1>20, <1>21,
       <1>22, <1>23, <1>24, <1>25, <1>26, <1>27, <1>28, <1>29, <1>30, <1>31,
       <1>32, <1>33, <1>34, <1>35 DEF Next, Command, Core1, MainLoop,
       Environment

(* Nothing has moved when there is no job.                                 *)
LEMMA MovesInit == Init => MovesInv
  BY SMT DEF Init, MovesInv, NoJob, Running, Unmoved, NoBefore

(* A command that replaces or restores a file has done so entirely, or     *)
(* left the file and its backup as it found them.                          *)
THEOREM WholeOrNot == Spec => []AllOrNothing
<1>1. FwInv /\ MovesInv /\ [Next]_vars => MovesInv'
  BY MovesStep
<1>2. FwInv /\ MovesInv => AllOrNothing
  <2> SUFFICES ASSUME FwInv, MovesInv PROVE AllOrNothing  OBVIOUS
  <2>1. Running /\ job.at = "clear" => 
          card[BackupOf[path]] = IF before.live = None THEN before.bak ELSE before.live
    BY Zenon DEF MovesInv, Saved
  <2>2. ASSUME NEW t \in Target, Running, job.at = "end", job.undone, before # NoVersions,
               t = IF job.op = "RESTORE" THEN job.arg ELSE path
        PROVE  Versions(t) = IF job.res = "OK" THEN [live |-> before.bak, bak |-> None]
                                                ELSE before
    <3>1. before = [live |-> before.live, bak |-> before.bak]
      BY Zenon DEF FwInv, Typed, BeforeType
    <3>2. CASE job.op = "RESTORE"
      <4>1. IF job.res = "OK" THEN Promoted(t) ELSE Intact(t)
        BY <2>2, <3>2, Zenon DEF MovesInv
      <4> QED BY <3>1, <4>1, Zenon DEF Promoted, Intact, Versions
    <3>3. CASE job.op = "CLOSE"
      <4>1. path # None
        BY <2>2, <3>3, PathsDistinct, SMT DEF Path
      <4>2. job.res # "OK" /\ Intact(t)
        BY <2>2, <3>3, <4>1, SMT DEF MovesInv
      <4> QED BY <3>1, <4>2, Zenon DEF Intact, Versions
    <3>4. CASE job.op \in {"OPEN", "WRITE", "ABORT"}
      <4>1. NoBefore
        BY <2>2, <3>4, Zenon DEF MovesInv
      <4> QED BY <2>2, <3>1, <4>1, Zenon DEF NoBefore, NoVersions
    <3> QED BY <3>2, <3>3, <3>4, SMT DEF FwInv, Typed, JobType, Op
  <2> QED BY <2>1, <2>2, Zenon DEF AllOrNothing
<1> QED BY FwInvariant, MovesInit, <1>1, <1>2, PTL DEF Spec
=============================================================================
