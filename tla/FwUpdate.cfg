SPECIFICATION FairSpec
CONSTANTS
  t1 = t1 t2 = t2 b1 = b1 b2 = b2 d1 = d1 v1 = v1 v2 = v2 v3 = v3
  Target = {t1}
  Backup = {b1}
  Discard = {d1}
  Temp = Temp
  BadName = BadName
  None = None
  BackupOf <- MCBackupOf
  Push = {v1, v2, v3}
  Chunks = 1
INVARIANTS  AllOrNothing AnswerIsLatest
PROPERTIES NeverWithout Answered
