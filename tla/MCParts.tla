-------------------------------- MODULE MCParts --------------------------------
(***************************************************************************)
(* Small instances for TLC of the parts of the driver that the base link    *)
(* calls: a behaviour is one of the part chosen at its start, and the other *)
(* parts stay at rest.                                                      *)
(***************************************************************************)
EXTENDS MCValues, SerdesOp, Sbus, SerdesConfig, RecoveryClock, StartTimeout

VARIABLE part

partsVars == <<part, fwVars, opVars, sbusVars, sdVars, cfgVars, anVars, psVars,
               clockVars, timeoutVars>>

PartNames == {"firmware", "serdesOp", "sbus", "serdes", "config", "autoneg",
              "pml", "clock", "timeout"}

(* A part at rest starts in one state.                                      *)
Active(p) == part = p

(* A switch, which polls, and a call without the fixup have a partner that  *)
(* shares a mode.                                                           *)
McAnInit == /\ anFix = "off" => ~anPolls
            /\ anFix = "off" \/ anPolls => lpMode = "common"

PartsInit ==
  /\ part \in PartNames
  /\ FwInit /\ (Active("firmware") \/ FwAtRest)
  /\ SerdesOpInit /\ (Active("serdesOp") \/ word = Zero)
  /\ SbusInit /\ (Active("sbus") \/ (call = "op" /\ cmd = "write"))
  /\ SdInit /\ (Active("serdes") \/ SdAtRest)
  /\ ConfigInit /\ (Active("config") \/ cfgHash = {})
  /\ AnInit /\ (IF Active("autoneg") THEN McAnInit ELSE AnAtRest)
  /\ PsInit /\ (Active("pml") \/ PsAtRest)
  /\ ClockInit /\ TimeoutInit

PartsNext ==
  /\ UNCHANGED part
  /\ \/ /\ Active("firmware") /\ FwNext
        /\ UNCHANGED <<opVars, sbusVars, sdVars, cfgVars, anVars, psVars,
                       clockVars, timeoutVars>>
     \/ /\ Active("serdesOp") /\ SerdesOpNext
        /\ UNCHANGED <<fwVars, sbusVars, sdVars, cfgVars, anVars, psVars,
                       clockVars, timeoutVars>>
     \/ /\ Active("sbus") /\ SbusNext
        /\ UNCHANGED <<fwVars, opVars, sdVars, cfgVars, anVars, psVars,
                       clockVars, timeoutVars>>
     \/ /\ Active("serdes") /\ SdNext
        /\ UNCHANGED <<fwVars, opVars, sbusVars, cfgVars, anVars, psVars,
                       clockVars, timeoutVars>>
     \/ /\ Active("config") /\ ConfigNext
        /\ UNCHANGED <<fwVars, opVars, sbusVars, sdVars, anVars, psVars,
                       clockVars, timeoutVars>>
     \/ /\ Active("autoneg") /\ AnNextState
        /\ UNCHANGED <<fwVars, opVars, sbusVars, sdVars, cfgVars, psVars,
                       clockVars, timeoutVars>>
     \/ /\ Active("pml") /\ PsNext
        /\ UNCHANGED <<fwVars, opVars, sbusVars, sdVars, cfgVars, anVars,
                       clockVars, timeoutVars>>
     \/ /\ Active("clock") /\ ClockNext
        /\ UNCHANGED <<fwVars, opVars, sbusVars, sdVars, cfgVars, anVars,
                       psVars, timeoutVars>>
     \/ /\ Active("timeout") /\ TimeoutNext
        /\ UNCHANGED <<fwVars, opVars, sbusVars, sdVars, cfgVars, anVars,
                       psVars, clockVars>>

PartsSpec == PartsInit /\ [][PartsNext]_partsVars

-----------------------------------------------------------------------------
(* The variables of the part that runs keep their types; those of the other *)
(* parts do not change.                                                     *)
PartsTypeOK ==
  /\ Active("firmware") => FwTypeOK
  /\ Active("serdesOp") => SerdesOpTypeOK
  /\ Active("sbus") => SbusTypeOK
  /\ Active("serdes") => SdTypeOK
  /\ Active("config") => ConfigTypeOK
  /\ Active("autoneg") => AnTypeOK
  /\ Active("pml") => PsTypeOK
  /\ Active("clock") => ClockTypeOK
  /\ Active("timeout") => TimeoutTypeOK

-----------------------------------------------------------------------------
(* Configurations: a default, one for a lane of the port, two with one key, *)
(* and one that is as specific and matches beside them if bit x is clear.   *)
Entry(ps, ls, mask, match, default) ==
  [ports |-> ps, lanes |-> ls, mask |-> mask, match |-> match,
   isDefault |-> default]
McEntries ==
  <<Entry({0, 1}, {0, 1}, {}, {}, TRUE), Entry({0}, {0}, {}, {}, FALSE),
    Entry({0}, {0}, {"x"}, {"x"}, FALSE),
    Entry({0}, {0}, {"x"}, {"x"}, FALSE), Entry({0}, {0}, {"x"}, {}, FALSE)>>
McConfigLanes == <<0, 1>>

(* FEC: a threshold of each kind, one of them zero.                         *)
McThreshold == [k \in {"ucw", "ccw", "txr"} |->
                  CASE k = "ucw" -> 0 [] k = "ccw" -> 2 [] k = "txr" -> 1]
McAdjust == [k \in {"ucw", "ccw", "txr"} |-> 50]
=============================================================================
