SPECIFICATION PartsSpec
CONSTANTS
  f1 = f1
  f2 = f2
  p1 = p1
  p2 = p2
  r1 = r1
  Ports = {p1, p2}
  Rings = {r1}
  Ring <- McRing
  FwThreads = {f1, f2}
  FwNone = FwNone
  FwOps = {"init", "reset", "view"}
  InhibitReload = {FALSE}
  ForceSbm = FALSE
  OpThreads = {f1, f2}
  OpNone = OpNone
  Writer = f1
  RetryLimit = 5
  Polls = 2
  MaxSize = 24
  Lanes = {0, 1}
  LinkModes = {"wide", "narrow"}
  TxLanes <- McTxLanes
  RxLanes <- McRxLanes
  SdOptions <- McSdOptions
  SdConfigs <- McSdConfigs
  MaxOob = 2
  ConfigLanes <- McConfigLanes
  CfgPort = 0
  Entries <- McEntries
  MaxList = 3
  MaxRxPages = 3
  TxCounts = {2}
  LpCounts = {3}
  MaxRetry = 1
  Restarts = 1
  PmlAttrs <- McPmlAttrs
  PmlMedias <- McPmlMedias
  PmlModes = {"BS_200G", "CD_100G"}
  AnOptions <- McAnOptions
  TxSource <- McTxSource
  RxSource <- McRxSource
  NoFaults = 2
  Poll = 2
  Late = 1
  Timeout = 3
  MaxDuration = 4
  Window = 5
  Period = 7
  Threshold <- McThreshold
  Adjust <- McAdjust
  StartLimits = {2}
  TuneNeeds = {2}
  PmlNeed = 1
  AnLimits = {1, 3}
  Horizon = 8
INVARIANTS InterruptsFit
