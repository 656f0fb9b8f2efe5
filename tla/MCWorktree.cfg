SPECIFICATION FairSpec
CONSTANTS
  b1 = b1
  t1 = t1
  p1 = p1
  p2 = p2
  Task = {t1, t2}
  Branch = {b1, b2}
  Work = {w1}
  Proc = {p1, p2}
  MaxTrouble = 1
  None = None
CONSTRAINT Overlaps
INVARIANTS TypeOK NoWorkLost StoreMatchesGit
PROPERTY WorktreesCanBeFinished
CHECK_DEADLOCK FALSE
