SPECIFICATION PsSpec
CONSTANTS
  PmlAttrs <- McPmlAttrs
  PmlMedias <- McPmlMedias
  PmlModes = {"CD_100G"}
  AnOptions <- McAnOptions
  TxSource <- McTxSource
  RxSource <- McRxSource
  NoFaults = 2
PROPERTIES GapAsAsked
