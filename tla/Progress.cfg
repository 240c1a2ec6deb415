SPECIFICATION ProgressSpec
CONSTANTS
  t1 = t1
  t2 = t2
  Threads = {t1, t2}
  None = None
  Media = {"ELECTRICAL"}
  Attrs = {"PEC"}
  Debug = {}
  HwFlags = {}
  LlrLimits = {TRUE}
  OpsMayFail = FALSE
  RemoveWaits = TRUE
  PollBudget = 1
  AnTries = 1
  Ops = {"start", "stop", "config", "mconfig"}
  SerialClient = TRUE
  f1 = f1
  f2 = f2
  p1 = p1
  p2 = p2
  r1 = r1
  Ports = {p1}
  Rings = {r1}
  Ring <- McRing
  FwThreads = {f1, f2}
  FwNone = FwNone
  FwOps = {"init", "reset", "check", "stop", "view", "sbm"}
  InhibitReload = {TRUE, FALSE}
  ForceSbm = FALSE
  Lanes = {0, 1}
  LinkModes = {"wide", "narrow"}
  TxLanes <- McTxLanes
  RxLanes <- McRxLanes
  SdOptions <- McSdOption
  SdConfigs <- McSdConfig
  MaxOob = 2
  MaxRxPages = 2
  TxCounts = {2}
  LpCounts = {1}
  MaxRetry = 2
  Restarts = 0
  PmlAttrs <- McPmlAttr
  PmlMedias <- McPmlMedias
  PmlModes = {"BS_200G"}
  AnOptions <- McAnOption
  TxSource <- McTxSource
  RxSource <- McRxSource
  NoFaults = 2
PROPERTIES OpsTerminate FwOpsEnd StartStepsEnd
