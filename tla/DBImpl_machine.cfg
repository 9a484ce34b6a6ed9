CONSTANTS
  w1 = w1 w2 = w2 w3 = w3
  a = a b = b c = c d = d
  Writers = {w1, w2}
  Ops = {a, b}
  SyncOps = {b}
  NullOps = {}
  NoOp = NoOp
  Free = Free
  WriteBuffer = 0
  L0Trigger = 2
  L0Slowdown = 0
  L0Stop = 2
  MaxOpens = 3
  MaxFaults = 2
  MaxSuspends = 1
  MaxOutputs = 0
  MachineCrashes = TRUE
SPECIFICATION Spec
CHECK_DEADLOCK FALSE
SYMMETRY WriterSymmetry
INVARIANTS SyncedWritesSurviveUnlessTorn AckedReadable SequenceOrder
PROPERTY ImplementsStore
