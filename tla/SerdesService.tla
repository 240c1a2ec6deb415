---------------------------- MODULE SerdesService ----------------------------
(***************************************************************************)
(* What the base link relies on when it calls the SerDes: one call at a     *)
(* time, from the states the call accepts, to the states and requests for a *)
(* firmware reload that it may leave.  These are the outcomes that the      *)
(* steps of LinkState, LinkStart and LinkStop have; SerdesStart implements  *)
(* this specification.                                                      *)
(***************************************************************************)
VARIABLES sstate,   \* link->sstate when no call is running
          reloadFw, \* link->reload_serdes_fw then
          serving   \* the call that is running

serviceVars == <<sstate, reloadFw, serving>>

ServiceInit == sstate = "DOWN" /\ reloadFw = FALSE /\ serving = "none"

(* The states from which a call does more than return EUCLEAN.  A firmware  *)
(* reload follows the request for it.                                       *)
Accepts(o) ==
  CASE o \in {"detect", "start", "anStart"} -> sstate = "DOWN"
    [] o = "stop"   -> sstate \in {"RUNNING", "AUTONEG"}
    [] o = "anStop" -> sstate = "AUTONEG"
    [] o = "reset"  -> TRUE
    [] o = "flash"  -> reloadFw

ServiceCalls == {"detect", "start", "anStart", "stop", "anStop", "reset",
                 "flash"}

Begin(o) ==
  /\ serving = "none" /\ Accepts(o)
  /\ serving' = o
  /\ UNCHANGED <<sstate, reloadFw>>

Succeeds(o) ==
  /\ sstate' = CASE o = "start"   -> "RUNNING"
                 [] o = "anStart" -> "AUTONEG"
                 [] OTHER         -> "DOWN"
  /\ reloadFw' = (reloadFw /\ o # "flash")

(* A partner that was not detected in time leaves the SerDes down, with a   *)
(* request if RELOAD_FW_ON_TIMEOUT is set.                                  *)
GivesUp(o) ==
  /\ o = "detect"
  /\ sstate' = "DOWN"
  /\ reloadFw' \in {reloadFw, TRUE}

(* A failed stop always asks for a reload, a failed start may.              *)
Breaks(o) ==
  /\ sstate' = "ERROR"
  /\ CASE o \in {"stop", "anStop"} -> reloadFw' = TRUE
       [] o \in {"start", "anStart"} -> reloadFw' \in {reloadFw, TRUE}
       [] o \in {"detect", "reset"}  -> UNCHANGED reloadFw
       [] o = "flash" -> reloadFw' = FALSE

End(o) ==
  /\ serving = o /\ serving' = "none"
  /\ Succeeds(o) \/ GivesUp(o) \/ Breaks(o)

ServiceNext == \E o \in ServiceCalls : Begin(o) \/ End(o)

ServiceSpec == ServiceInit /\ [][ServiceNext]_serviceVars
=============================================================================
