SPECIFICATION Spec
CONSTANTS
  t1 = t1
  t2 = t2
  Threads = {t1}
  None = None
  Media = {"ELECTRICAL"}
  Attrs = {"PEC"}
  Debug = {}
  HwFlags = {"LINK_DOWN"}
  LlrLimits = {TRUE}
  OpsMayFail = FALSE
  RemoveWaits = TRUE
  PollBudget = 1
  AnTries = 2
  Ops = {"start", "config", "mconfig"}
  SerialClient = TRUE
INVARIANTS RetryCanStartSerdes
