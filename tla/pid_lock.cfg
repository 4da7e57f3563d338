SPECIFICATION Spec
CONSTANTS
  Process = {p1, p2, p3}
  Inode = {n1, n2, n3, n4}
  None = None
  MaxCrashes = 2
INVARIANTS
  OverlapOnlyByRemoval
SYMMETRY Symmetric
