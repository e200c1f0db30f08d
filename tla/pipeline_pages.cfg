SPECIFICATION AllSpec
CONSTANTS
  TaskId = {"t1", "t2"}
  WorkerId = {"w1"}
  None = None
  Pipeline = {"p1", "p2"}
  Log <- TwoLogs
  JumpLogs <- TimedLogs
  Cap = 2
  Window = 1
  MaxPolls = 2
  MaxFaults = 1
  MaxDiffs = 1
  Words <- ThreeTasks
  MaxMoves = 1
  MaxFetches = 2
  MaxCountdown = 1
  MaxPosts = 1
  Data <- TwoAnalyses
  Tab = {"performance", "optimization", "forecast", "scheduling", "logs"}
  Positions = {3}
  MaxHeld = 2
  StepOf <- OneStage
  Moments <- OneMoment
  MaxEnds = 2
  MaxCalls = 1
INVARIANTS AllTypeOK ReplayIsOfSelected NoGaps ComputedIsTrue ShownIsOfSelected DialogDraws
PROPERTIES StepsKeepPlace CatchesUp
