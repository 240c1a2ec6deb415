SPECIFICATION FairSpec
CONSTANTS
  t1 = t1
  t2 = t2
  Threads = {t1}
  None = None
  Media = {}
  Attrs = {"LOCAL"}
  Debug = {}
  HwFlags = {"LINK_DOWN"}
  LlrLimits = {TRUE}
  OpsMayFail = FALSE
  RemoveWaits = TRUE
  PollBudget = 1
  AnTries = 1
  Ops = {"start", "config"}
  SerialClient = TRUE
PROPERTIES FaultIsReported
