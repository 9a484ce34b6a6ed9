CONSTANTS
  w1 = w1 w2 = w2 w3 = w3
  a = a b = b c = c d = d
  Writers = {w1, w2}
  Ops = {a, b, c}
  SyncOps = {b}
  NullOps = {}
  NoOp = NoOp
  Free = Free
  WriteBuffer = 0
  L0Trigger = 1
  L0Slowdown = 1
  L0Stop = 2
  MaxOpens = 2
  MaxFaults = 0
  MaxSuspends = 0
  MaxOutputs = 1
  MachineCrashes = FALSE
SPECIFICATION Spec
CHECK_DEADLOCK FALSE
SYMMETRY WriterSymmetry
INVARIANTS NoAckedWriteLost
PROPERTY NewLogIsNew
