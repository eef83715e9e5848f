\* Twelve granules; alloc_aligned at its natural
\* alignment, alloc_range at every alignment.
SPECIFICATION Spec
CONSTANTS
  Base = 4
  End = 16
  Word = 64
  MaxBlocks = 4
  MaxSize = 3
  Aligns = {1}
  RangeAligns = {1, 2, 4}
INVARIANTS
  FirstFitExact
  TableExact
