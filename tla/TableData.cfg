\* m_data, the GUI thread's copy and the task's new snapshot can be three blocks; the fourth is spare.
CONSTANTS
  Blocks = {b1, b2, b3, b4}
  b1 = b1
  b2 = b2
  b3 = b3
  b4 = b4
  Null = Null
SYMMETRY BlockSymmetry
SPECIFICATION Spec
INVARIANTS
  TypeOK
  OnlyOverlapCorrupts
  ExactCounts
  CopyIsWhole
  SortedBeforeShared
  DataInv
PROPERTIES
  ImplementsCell
