------------------------------- MODULE PmlFault -------------------------------
(***************************************************************************)
(* Fault detection and PML recovery: the hardware that drops the PCS and    *)
(* latches error flags, the interrupt handler sbl_pml_hdlr() that decides   *)
(* between recovery and a link down alert, and the recovery timer that      *)
(* polls the PCS until it is clean or the budget is spent.  The handler     *)
(* and the timer callback run on different processors and share             *)
(* pml_recovery.started without a lock.                                     *)
(***************************************************************************)
EXTENDS LinkState

HdlrPcs == {"idle", "origin", "recover", "rate", "addtimer", "disable",
            "alert", "rateDisable", "rateAlert", "rateEnd", "clear"}
RecPcs  == {"idle", "poll", "disable", "alert", "end"}

-----------------------------------------------------------------------------
(* The hardware.  An error flag is latched when the condition appears.      *)
Running == pcsOn /\ sstate = "RUNNING"

HwUnchanged == UNCHANGED <<linkVars, alerted, hdlrVars, recVars, fecVars,
                           callVars, sstate, reloadFw, pcsOn, llrLimited,
                           intrFlgs, intrOn>>

PcsLost ==
  /\ Running /\ pcs # "down" /\ "LINK_DOWN" \in HwFlags
  /\ pcs' = "down"
  /\ errFlgs' = errFlgs \cup {"LINK_DOWN"}
  /\ HwUnchanged

RemoteFault ==
  /\ Running /\ pcs = "up" /\ "LINK_DOWN" \in HwFlags
  /\ pcs' = "rf"
  /\ errFlgs' = errFlgs \cup {"LINK_DOWN"}
  /\ HwUnchanged

PcsRestored ==
  /\ Running /\ pcs # "up"
  /\ pcs' = "up"
  /\ UNCHANGED errFlgs
  /\ HwUnchanged

FlagRaised ==
  /\ Running
  /\ \E f \in HwFlags \ {"LINK_DOWN", "AUTONEG"} :
       f \notin errFlgs /\ errFlgs' = errFlgs \cup {f}
  /\ UNCHANGED pcs
  /\ HwUnchanged

Hardware == PcsLost \/ RemoteFault \/ PcsRestored \/ FlagRaised

-----------------------------------------------------------------------------
(* sbl_pml_hdlr()                                                           *)
HdlrStep(from, to) == hpc = from /\ hpc' = to

HdlrEnter ==
  /\ errFlgs \cap intrOn # {}
  /\ errFlgs \cap intrFlgs # {}
  /\ HdlrStep("idle", "origin")
  /\ hraised' = errFlgs \cap intrFlgs
  /\ UNCHANGED <<linkVars, chipVars, intrVars, alerted, recVars, fecVars,
                 callVars>>

(* A recoverable fault: a link down other than a remote fault that is left  *)
(* to the partner, a high error rate, or a replay overrun that is being     *)
(* counted.                                                                 *)
RecoverableFault(recovery) ==
  \/ "LINK_DOWN" \in hraised /\ (pcs = "rf" => ~recovery)
  \/ "HI_SER" \in hraised
  \/ "LLR_REPLAY_AT_MAX" \in hraised /\ llrLimited

(* recovery: SBL_DISABLE_PML_RECOVERY is clear; degraded: is_degraded.      *)
(* Clients toggle both at any time, so any value may be read.               *)
HdlrOrigin ==
  /\ \E recovery, degraded \in BOOLEAN :
       HdlrStep("origin",
         IF RecoverableFault(recovery) /\ recovery /\ ~degraded THEN "recover"
         ELSE IF RecoverableFault(recovery) \/ "DEGRADE_FAILURE" \in hraised
              THEN "disable"
              ELSE "clear")
  /\ UNCHANGED <<linkVars, chipVars, intrVars, alerted, hraised, recVars,
                 fecVars, callVars>>

(* Mutant: the alert after too many recoveries is forgotten.                *)
HdlrDisableNoAlert ==
  /\ \/ HdlrStep("disable", "alert")
     \/ HdlrStep("rateDisable", "rateEnd")
  /\ LinkDownDisable
  /\ UNCHANGED <<chipVars, hraised, recVars, fecVars, callVars>>

HdlrDisable ==
  /\ \/ HdlrStep("disable", "alert")
     \/ HdlrStep("rateDisable", "rateAlert")
  /\ LinkDownDisable
  /\ UNCHANGED <<chipVars, hraised, recVars, fecVars, callVars>>

HdlrAlert ==
  /\ \/ HdlrStep("alert", "clear")
     \/ HdlrStep("rateAlert", "rateEnd")
  /\ LinkDownAlert
  /\ UNCHANGED <<chipVars, hraised, recVars, fecVars, callVars>>

(* Mutant: a recovery is started over while one is in progress.             *)
HdlrRecoverUntested ==
  /\ HdlrStep("recover", "rate")
  /\ recStarted' = TRUE
  /\ recPolls' = 0
  /\ UNCHANGED <<linkVars, chipVars, intrVars, alerted, hraised, recTimer, rpc,
                 fecVars, callVars>>

(* sbl_pml_recovery_monitor(): a fault seen while a recovery runs is left   *)
(* to that recovery.                                                        *)
HdlrRecover ==
  /\ IF recStarted
     THEN HdlrStep("recover", "clear") /\ UNCHANGED recVars
     ELSE /\ HdlrStep("recover", "rate")
          /\ recStarted' = TRUE
          /\ recPolls' = 0
          /\ UNCHANGED <<recTimer, rpc>>
  /\ UNCHANGED <<linkVars, chipVars, intrVars, alerted, hraised, fecVars,
                 callVars>>

(* sbl_pml_recovery_rate_test(), either result.                             *)
HdlrRate ==
  /\ HdlrStep("rate", "addtimer") \/ HdlrStep("rate", "rateDisable")
  /\ UNCHANGED <<linkVars, chipVars, intrVars, alerted, hraised, recVars,
                 fecVars, callVars>>

HdlrRateEnd ==
  /\ HdlrStep("rateEnd", "clear")
  /\ recStarted' = FALSE
  /\ UNCHANGED <<linkVars, chipVars, intrVars, alerted, hraised, recTimer,
                 recPolls, rpc, fecVars, callVars>>

(* Alignment is switched off and on again, then the poll timer is added.    *)
HdlrAddTimer ==
  /\ HdlrStep("addtimer", "clear")
  /\ SignalLost
  /\ recTimer' = TRUE
  /\ UNCHANGED <<linkVars, sstate, reloadFw, pcsOn, llrLimited, intrFlgs,
                 intrOn, alerted, hraised, recStarted, recPolls, rpc, fecVars,
                 callVars>>

(* The flags read on entry are written back to the clear register.          *)
HdlrClear ==
  /\ HdlrStep("clear", "idle")
  /\ errFlgs' = errFlgs \ hraised
  /\ hraised' = {}
  /\ UNCHANGED <<linkVars, chipVars, intrFlgs, intrOn, alerted, recVars,
                 fecVars, callVars>>

Handler == \/ HdlrEnter \/ HdlrOrigin \/ HdlrDisable \/ HdlrAlert
           \/ HdlrRecover \/ HdlrRate \/ HdlrRateEnd \/ HdlrAddTimer
           \/ HdlrClear

-----------------------------------------------------------------------------
(* sbl_pml_recovery_monitor_fallback_timer()                                *)
RecUnchanged == UNCHANGED <<chipVars, hdlrVars, fecVars, callVars>>

RecFire ==
  /\ recTimer /\ rpc = "idle"
  /\ recTimer' = FALSE
  /\ rpc' = IF recStarted THEN "poll" ELSE "idle"
  /\ UNCHANGED <<linkVars, intrVars, alerted, recStarted, recPolls>>
  /\ RecUnchanged

RecPollClean ==
  /\ rpc = "poll" /\ pcs = "up"
  /\ rpc' = "end"
  /\ UNCHANGED <<linkVars, intrVars, alerted, recStarted, recTimer, recPolls>>
  /\ RecUnchanged

(* Timed out, or the time budget of the window is spent.                    *)
RecPollGiveUp ==
  /\ rpc = "poll" /\ pcs # "up"
  /\ rpc' = "disable"
  /\ UNCHANGED <<linkVars, intrVars, alerted, recStarted, recTimer, recPolls>>
  /\ RecUnchanged

(* Mutants: the time is not tested, or not counted.                         *)
RecPollAgainUntested ==
  /\ rpc = "poll" /\ pcs # "up"
  /\ rpc' = "idle"
  /\ recTimer' = TRUE
  /\ recPolls' = recPolls + 1
  /\ UNCHANGED <<linkVars, intrVars, alerted, recStarted>>
  /\ RecUnchanged

RecPollAgainUncounted ==
  /\ rpc = "poll" /\ pcs # "up" /\ recPolls < PollBudget
  /\ rpc' = "idle"
  /\ recTimer' = TRUE
  /\ UNCHANGED <<linkVars, intrVars, alerted, recStarted, recPolls>>
  /\ RecUnchanged

RecPollAgain ==
  /\ rpc = "poll" /\ pcs # "up" /\ recPolls < PollBudget
  /\ rpc' = "idle"
  /\ recTimer' = TRUE
  /\ recPolls' = recPolls + 1
  /\ UNCHANGED <<linkVars, intrVars, alerted, recStarted>>
  /\ RecUnchanged

(* Mutant: the callback takes busy_mtx, which the deletion of the timer is  *)
(* called under.                                                            *)
RecDisableLocked ==
  /\ rpc = "disable" /\ rpc' = "alert"
  /\ busy = None
  /\ LinkDownDisable
  /\ UNCHANGED <<recStarted, recTimer, recPolls>>
  /\ RecUnchanged

RecDisable ==
  /\ rpc = "disable" /\ rpc' = "alert"
  /\ LinkDownDisable
  /\ UNCHANGED <<recStarted, recTimer, recPolls>>
  /\ RecUnchanged

RecAlert ==
  /\ rpc = "alert" /\ rpc' = "end"
  /\ LinkDownAlert
  /\ UNCHANGED <<recStarted, recTimer, recPolls>>
  /\ RecUnchanged

RecEnd ==
  /\ rpc = "end" /\ rpc' = "idle"
  /\ recStarted' = FALSE
  /\ UNCHANGED <<linkVars, intrVars, alerted, recTimer, recPolls>>
  /\ RecUnchanged

RecoveryTimer == \/ RecFire \/ RecPollClean \/ RecPollGiveUp \/ RecPollAgain
                 \/ RecDisable \/ RecAlert \/ RecEnd
=============================================================================
