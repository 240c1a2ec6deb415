------------------------------ MODULE MCProgress ------------------------------
(***************************************************************************)
(* Small instances for TLC of the base link and of the parts it calls, with *)
(* their fairness: a behaviour is one of the part chosen at its start, and  *)
(* the other parts stay at rest.                                            *)
(***************************************************************************)
EXTENDS BaseLinkClaims, MCValues

CONSTANTS t1, t2

VARIABLE part

(* An adapter that waits for pages, with the fixup, and a partner with no   *)
(* mode in common.                                                          *)
McAnInit == ~anPolls /\ anFix = "on" /\ lpMode = "none"

progressVars == <<part, vars, fwVars, sdVars, anVars, psVars>>

ProgressInit ==
  /\ part \in {"link", "firmware", "serdes", "autoneg", "pml"}
  /\ Init
  /\ FwInit /\ (part = "firmware" \/ FwAtRest)
  /\ SdInit /\ (part = "serdes" \/ SdAtRest)
  /\ AnInit /\ (IF part = "autoneg" THEN McAnInit ELSE AnAtRest)
  /\ PsInit /\ (part = "pml" \/ PsAtRest)

ProgressNext ==
  /\ UNCHANGED part
  /\ \/ /\ part = "link" /\ Next
        /\ UNCHANGED <<fwVars, sdVars, anVars, psVars>>
     \/ /\ part = "firmware" /\ FwNext
        /\ UNCHANGED <<vars, sdVars, anVars, psVars>>
     \/ /\ part = "serdes" /\ SdNext
        /\ UNCHANGED <<vars, fwVars, anVars, psVars>>
     \/ /\ part = "autoneg" /\ AnNextState
        /\ UNCHANGED <<vars, fwVars, sdVars, psVars>>
     \/ /\ part = "pml" /\ PsNext
        /\ UNCHANGED <<vars, fwVars, sdVars, anVars>>

(* The callers of the base link run, and FwFairness, SdFairness, AnFairness *)
(* and PsFairness hold, each of its part.                                   *)
ProgressFairness ==
  /\ \A t \in Threads : WF_vars(part = "link" /\ Caller(t))
  /\ \A t \in FwThreads : SF_fwVars(part = "firmware" /\ FwStep(t))
  /\ WF_sdVars(part = "serdes" /\ SdStep) /\ WF_sdVars(part = "serdes" /\ Expire)
  /\ SF_sdVars(part = "serdes" /\ TuneStopped)
  /\ WF_anVars(part = "autoneg" /\ AnThread)
  /\ WF_anVars(part = "autoneg" /\ AnStop("timeout"))
  /\ WF_psVars(part = "pml" /\ PsThread) /\ WF_psVars(part = "pml" /\ PsExpire)

ProgressSpec ==
  ProgressInit /\ [][ProgressNext]_progressVars /\ ProgressFairness

-----------------------------------------------------------------------------
(* What a start of the base link goes through ends, whatever its SerDes,    *)
(* the link partner and the cable do: autonegotiation, the start and the    *)
(* tuning of the SerDes, and the waits for PCS and LLR.  Each has loops     *)
(* that only the timeout of the start, a cancel or a count of attempts      *)
(* leaves.                                                                  *)
Starting == sdOp # "none" \/ anPc # "idle" \/ psPc # "idle"
StartStepsEnd == Starting ~> ~Starting

-----------------------------------------------------------------------------
McSdOption == {{"FABRIC_LINK", "OPTICAL", "PRBS"}}
McSdConfig == {<<"narrow", FALSE>>}
McPmlAttr == {Attr("auto", {"ETHER_LLR", "HPC_WITH_LLR"}, "ieee", "off")}
McAnOption == {{"LLR"}}
=============================================================================
