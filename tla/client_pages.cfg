SPECIFICATION AllSpec
CONSTANTS
  Doc <- Docs
  Kind <- KindOf
  Pages <- PagesOf
  Recorded <- PagesOf
  MaxLoads = 2
  MaxAsk = 2
  MaxFaults = 1
  None = None
  Tab = {t1, t2}
  Name = {n1}
  MaxSignIns = 2
  MaxCalls = 1
  MaxOpen = 2
  Pipeline = {"P1", "P2"}
  Query = {"ab"}
  MaxAsks = 2
  MaxRuns = 2
  MaxSlots = 2
  MaxChanges = 1
  Posted = {p1}
  Own = {o1}
  MaxPolls = 2
  Events <- EventsOf
  MaxFetched = 2
  MaxRebuilt = 1
INVARIANTS AllTypeOK StreamingHasSource ShownExists KeptOnReload
PROPERTIES AnswersAreFinal AllSettle
