CONSTANTS
  Instance = {i1, i2}
  None = None
  TTL = 6
  Beat = 3
  Delay = 1
  MaxLost = 1
  MaxCrash = 1
  MaxUnreachable = 1
  MaxHard = 1
  Limit <- MCLimit
  Call = {c1, c2, c3}
  Threshold = 3
  Probes = 2
  MaxOutages = 2
  MaxNoise = 1
  Doc = {d1, d2, d3, d4}
  MaxJobs = 3
  Document = {p1, p2}
  NoDocument = NoDocument
  MaxAttempts = 2
  MaxSubmits = 3
  MaxStops = 1
  MaxErrors = 1
  Test = {"validation", "ha"}
  First = "validation"
  Lane = {q1}
  ChaosAction = {x1}
  MaxRequests = 2
  MaxUses = 2
  MaxMishaps = 1
SPECIFICATION AllSpec
INVARIANTS AllTypeOK OneLeaderUnharmed RoundRobin JobsAccounted
PROPERTIES LeaderStays Elected Recovers JobsEnd
