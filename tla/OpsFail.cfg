SPECIFICATION Spec
CONSTANTS
  t1 = t1
  t2 = t2
  Threads = {t1}
  None = None
  Media = {}
  Attrs = {"LOCAL"}
  Debug = {}
  HwFlags = {"DEGRADE_FAILURE"}
  LlrLimits = {TRUE, FALSE}
  OpsMayFail = TRUE
  RemoveWaits = FALSE
  PollBudget = 1
  AnTries = 1
  Ops = {"start", "stop", "cleanup", "reset", "config"}
  SerialClient = TRUE
INVARIANTS MonitorFlagsMatchLlr
