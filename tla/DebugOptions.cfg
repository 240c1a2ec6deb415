SPECIFICATION Spec
CONSTANTS
  t1 = t1
  t2 = t2
  Threads = {t1}
  None = None
  Media = {}
  Attrs = {"LOCAL"}
  Debug = {"INHIBIT_CLEANUP", "KEEP_SERDES_UP"}
  HwFlags = {"HI_SER"}
  LlrLimits = {TRUE}
  OpsMayFail = FALSE
  RemoveWaits = TRUE
  PollBudget = 1
  AnTries = 1
  Ops = {"start", "stop", "reset", "cleanup", "config"}
  SerialClient = TRUE
INVARIANTS QuietWhenDown
