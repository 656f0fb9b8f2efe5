SPECIFICATION FairSpec
CONSTANTS
  Task = {1, 2, 3, 4}
  Phases = 3
  ok = ok
  Tag = {ok}
  Workflows <- MCWorkflows
  Deps <- MCDeps
  Checkpoint <- MCCheckpoint
  UxTask = {1}
  HardUx = {}
  RequiresGrounding = {1}
  Unmade = {3}
  MaxSetbacks = 1
INVARIANTS TypeOK HardGatesBlockPlainClaims GuidanceIsSound GuidanceIsComplete NobodyIsStuck EnginesAgree ReportsAgree
PROPERTY EventuallyFinished
CHECK_DEADLOCK FALSE
