SPECIFICATION Spec
CONSTANTS
  p1 = p1
  p2 = p2
  g1 = g1
  g2 = g2
  Proc = {p1, p2}
  Goal = {g1, g2}
  IterationMax = 2
  MaxCases = 2
  MaxOptions = 1
  MaxPackets = 2
  MaxTrouble = 1
CONSTRAINT Small
INVARIANT UpdateLeavesTheGate
