------------------------------- MODULE MCValues -------------------------------
(***************************************************************************)
(* Values for TLC of the constants of the parts of the driver that the base *)
(* link calls, and the one initial state of a part that stays at rest.      *)
(***************************************************************************)
EXTENDS Firmware, SerdesStart, Autoneg, MCPml

CONSTANTS f1, f2, p1, p2, r1   \* threads, ports and a ring

McRing == [p \in Ports |-> r1]

(* SerDes: one mode with both lanes each way, one with a lane each way.     *)
McTxLanes == [m \in LinkModes |-> IF m = "wide" THEN Lanes ELSE {1}]
McRxLanes == [m \in LinkModes |-> IF m = "wide" THEN Lanes ELSE {0}]
McSdOptions ==
  {{"FABRIC_LINK", "USE_SAVED_PARAMS", "DFE_SAVE_PARAMS", "ENABLE_PCAL",
    "RELOAD_FW_ON_TIMEOUT"},
   {"FABRIC_LINK", "RESET_CLEAR_PARAMS", "PRBS", "OPTICAL", "FORCE_RELOAD",
    "DFE_SAVE_PARAMS"}}
McSdConfigs == {<<"wide", FALSE>>, <<"narrow", TRUE>>}

-----------------------------------------------------------------------------
FwAtRest == \A p \in Ports : fw[p] /\ \A r \in Rings : sbm[r]

SdAtRest == /\ <<linkMode, looped>> = CHOOSE c \in SdConfigs : TRUE
            /\ sdOpt = CHOOSE o \in SdOptions : TRUE

AnAtRest == /\ anTx = CHOOSE n \in TxCounts : TRUE
            /\ lpCount = CHOOSE n \in LpCounts : TRUE
            /\ ~anPolls /\ anFix = "off" /\ lpMode = "common"

PsAtRest == /\ psAttr = CHOOSE at \in PmlAttrs : TRUE
            /\ psMedia = CHOOSE m \in PmlMedias : TRUE
            /\ psMode = CHOOSE m \in PmlModes : TRUE
=============================================================================
