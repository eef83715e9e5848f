\* Core 1 may fault anywhere, be restarted anywhere; both cores nest.
\* No deadlock check: after a fault inside the section core 0 may wait for
\* itself, see FindingLockReset.cfg.
SPECIFICATION Spec
CONSTANT
  MaxDepth = 3
INVARIANTS
  MutualExclusion
  HolderUndisturbed
  NeverOrphaned
  IrqDiscipline
CHECK_DEADLOCK FALSE
