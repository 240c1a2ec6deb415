SPECIFICATION Spec
CONSTANTS
  t1 = t1
  t2 = t2
  Threads = {t1}
  None = None
  Media = {"ELECTRICAL", "OPTICAL"}
  Attrs = {"PEC", "AOC"}
  Debug = {}
  HwFlags = {"LINK_DOWN"}
  LlrLimits = {TRUE}
  OpsMayFail = FALSE
  RemoveWaits = TRUE
  PollBudget = 1
  AnTries = 1
  Ops = {"start", "stop", "reset", "cleanup", "config", "mconfig"}
  SerialClient = TRUE
INVARIANTS
  TypeOK UpIsMonitored UpHasFecCheck SerdesOffWhenDown ErrorHasReason
  RecoveryExclusive
PROPERTIES StopCancelsRecovery PcsHeldWhileSerdesRuns
