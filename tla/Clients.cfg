SPECIFICATION Spec
CONSTANTS
  t1 = t1
  t2 = t2
  Threads = {t1, t2}
  None = None
  Media = {"ELECTRICAL"}
  Attrs = {"PEC"}
  Debug = {}
  HwFlags = {}
  LlrLimits = {TRUE, FALSE}
  OpsMayFail = FALSE
  RemoveWaits = TRUE
  PollBudget = 1
  AnTries = 1
  Ops = {"start", "stop", "reset", "cleanup", "config", "mconfig", "munconfig", "enable", "cancel"}
  SerialClient = TRUE
SYMMETRY Two
INVARIANTS InductiveQuiet
PROPERTIES ImplementsLifecycle
