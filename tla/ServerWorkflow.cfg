SPECIFICATION Spec
CONSTANTS
  MaxRuns = 2
  MaxBoundaries = 2
  MaxLate = 1
  Nodes = {n1, n2}
SYMMETRY Symmetry
CHECK_DEADLOCK FALSE
INVARIANTS
  ToldIsTrue
  TakenWorkNotRepeated
  CheckpointNotOverwritten
