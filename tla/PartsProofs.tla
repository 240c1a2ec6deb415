----------------------------- MODULE PartsProofs -----------------------------
(***************************************************************************)
(* A behaviour of the parts together is a behaviour of each part: it starts *)
(* in one of the part's initial states, and each of its steps is a step of  *)
(* the part or leaves the part alone.  So what is proved of a part by       *)
(* itself, for every value of its constants, holds of the parts together.   *)
(***************************************************************************)
EXTENDS MCParts, FirmwareProofs, SerdesOpProofs, RecoveryClockProofs,
        StartProofs

-----------------------------------------------------------------------------
(* The parts together start in initial states of every part.                *)
LEMMA PartsStart ==
  PartsInit => /\ FwInit /\ SerdesOpInit /\ SbusInit /\ SdInit
               /\ ConfigInit /\ AnInit /\ PsInit /\ ClockInit
               /\ TimeoutInit
  BY DEF PartsInit

(* A step of the parts together is a step of the part that is active, and   *)
(* leaves the others alone.                                                 *)
LEMMA PartsStep ==
  ASSUME [PartsNext]_partsVars
  PROVE  /\ [FwNext]_fwVars /\ [SerdesOpNext]_opVars /\ [SbusNext]_sbusVars
         /\ [SdNext]_sdVars /\ [ConfigNext]_cfgVars /\ [AnNextState]_anVars
         /\ [PsNext]_psVars /\ [ClockNext]_clockVars
         /\ [TimeoutNext]_timeoutVars
<1>1. CASE UNCHANGED partsVars
  BY <1>1 DEF partsVars
<1>2. CASE PartsNext
  BY <1>2 DEF PartsNext
<1> QED
  BY <1>1, <1>2

(* Every behaviour of the parts together is one of each part.               *)
LEMMA PartsBehave ==
  PartsSpec => /\ FwSpec /\ SerdesOpSpec /\ SbusSpec /\ SdSpec
               /\ ConfigSpec /\ AnSpec /\ PsSpec /\ ClockSpec
               /\ TimeoutSpec
<1>1. [PartsNext]_partsVars =>
         /\ [FwNext]_fwVars /\ [SerdesOpNext]_opVars /\ [SbusNext]_sbusVars
         /\ [SdNext]_sdVars /\ [ConfigNext]_cfgVars /\ [AnNextState]_anVars
         /\ [PsNext]_psVars /\ [ClockNext]_clockVars
         /\ [TimeoutNext]_timeoutVars
  BY PartsStep
<1> QED
  BY PartsStart, <1>1, PTL
  DEF PartsSpec, FwSpec, SerdesOpSpec, SbusSpec, SdSpec, ConfigSpec, AnSpec,
      PsSpec, ClockSpec, TimeoutSpec

-----------------------------------------------------------------------------
(* Every variable of the part that runs keeps its type: no count of SBus    *)
(* words, pages, retries or milliseconds leaves its range, a mutex is held  *)
(* by a thread or nobody, and no automatic mode reaches a register.         *)
THEOREM PartsTypes == PartsSpec => []PartsTypeOK
<1>1. /\ FwTypeOK /\ SerdesOpTypeOK /\ SbusTypeOK /\ SdTypeOK
      /\ ConfigTypeOK /\ AnTypeOK /\ PsTypeOK /\ ClockTypeOK
      /\ TimeoutTypeOK
      => PartsTypeOK
  BY DEF PartsTypeOK
<1> QED
  BY <1>1, PartsBehave, FwTypes, SerdesOpTypes, SbusTypes, SdTypes,
     ConfigTypes, AnTypes, PsTypes, ClockTypes, TimeoutTypes,
     PTL
=============================================================================
