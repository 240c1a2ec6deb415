------------------------------ MODULE LinkStart ------------------------------
(***************************************************************************)
(* sbl_base_link_start(): one action per call it makes, in the order of the *)
(* code, with the error path of each.  The thread holds busy_mtx from Take  *)
(* to Finish; every other part of the driver may run between two steps.     *)
(***************************************************************************)
EXTENDS LinkState

CONSTANT AnTries   \* autoneg attempts that fit in the start timeout

ASSUME AnTriesAssumption == AnTries \in Nat

StartSteps == {"enter", "set", "fw", "mode", "anInstall", "anTry", "anExchange",
               "anDone", "am", "lpDetect", "serdes", "pml", "pmlClear", "fec",
               "fmTest", "fmInstall", "fmEnable", "fmRetest", "undoDisable",
               "undoRemove", "up", "done", "arm", "fmDisable", "fmRemove",
               "pcsDown", "serdesDown", "out"}

S == "start"
Inhibit == "INHIBIT_CLEANUP" \in Debug

(* Each step but those that end the call leaves these alone.                *)
StartUnchanged == UNCHANGED <<attr, mattr, startCancelled, hdlrVars, recVars>>
NoLinkChange   == UNCHANGED <<blstate, blerr, alerted, fecVars>>

Cancelled    == lock = None /\ startCancelled
NotCancelled == lock = None /\ ~startCancelled

-----------------------------------------------------------------------------
(* sbl_media_validate_config(), which local loopback does not need.         *)
ConfigSuitsMedia == \/ attr = "LOCAL"
                    \/ attr = "PEC" /\ mattr = "ELECTRICAL"
                    \/ attr = "AOC" /\ mattr = "OPTICAL"

StartRefused(t) ==
  /\ ~(blstate = "DOWN" /\ ConfigSuitsMedia)
  /\ Refuse(t, S)
  /\ NoLinkChange /\ StartUnchanged
  /\ UNCHANGED <<chipVars, intrVars>>

StartBegins(t) ==
  /\ blstate = "DOWN" /\ ConfigSuitsMedia
  /\ Take(t, S, "set")
  /\ NoLinkChange /\ StartUnchanged
  /\ UNCHANGED <<chipVars, intrVars>>

StartSet(t) ==
  /\ Go(t, S, "set", "fw")
  /\ blstate' = "STARTING"
  /\ alerted' = FALSE
  /\ PmlSetDefaults
  /\ StartUnchanged
  /\ UNCHANGED <<blerr, fecVars, sstate, reloadFw, intrVars, anTries>>

(* sbl_base_link_check_fix_fw()                                             *)
StartFirmware(t) ==
  /\ \/ Go(t, S, "fw", "mode") /\ UNCHANGED sstate
     \/ Fail(t, S, "fw", "out", "EIO") /\ sstate' = "ERROR"
  /\ NoLinkChange /\ StartUnchanged
  /\ UNCHANGED <<reloadFw, pcsOn, pcs, llrLimited, intrVars, anTries>>

(* sbl_base_link_get_mode(): autoneg for electrical links where it is on.   *)
StartMode(t) ==
  /\ \/ Go(t, S, "mode", "am")
     \/ attr # "LOCAL" /\ mattr = "ELECTRICAL" /\ Go(t, S, "mode", "anInstall")
     \/ attr # "LOCAL" /\ Fail(t, S, "mode", "out", "EMEDIUMTYPE")
  /\ NoLinkChange /\ StartUnchanged
  /\ UNCHANGED <<chipVars, intrVars, anTries>>

-----------------------------------------------------------------------------
(* sbl_link_autoneg()                                                       *)
AnInstall(t) ==
  /\ \/ /\ Go(t, S, "anInstall", "anTry")
        /\ intrFlgs = {} /\ intrFlgs' = {"AUTONEG"}
        /\ UNCHANGED errFlgs
     \/ /\ Fail(t, S, "anInstall", "out", "EIO")
        /\ intrFlgs = {} /\ OpsMayFail /\ intrFlgs' = {"AUTONEG"}
        /\ errFlgs' = {}
     \/ /\ intrFlgs # {} /\ Fail(t, S, "anInstall", "out", "EALREADY")
        /\ UNCHANGED intrFlgs
        /\ errFlgs' = {}
     \/ /\ Fail(t, S, "anInstall", "out", "EINVAL")
        /\ UNCHANGED intrFlgs
        /\ errFlgs' \in {errFlgs, {}}
  /\ NoLinkChange /\ StartUnchanged
  /\ UNCHANGED <<chipVars, intrOn, anTries>>

(* The head of the loop, sbl_an_serdes_start(), which needs a SerDes that   *)
(* is down, and sbl_an_pml_setup().  AnTries attempts take up the whole     *)
(* start timeout.                                                           *)
(* Mutant: the start timeout is never used up.                              *)
AttemptUncounted == anTries < AnTries /\ UNCHANGED anTries

Attempt == anTries < AnTries /\ anTries' = anTries + 1

AnTry(t) ==
  /\ \/ /\ Fail(t, S, "anTry", "anDone", "ETIMEDOUT")
        /\ UNCHANGED <<sstate, reloadFw, errFlgs, anTries>>
     \/ /\ Cancelled /\ Fail(t, S, "anTry", "anDone", "ECANCELED")
        /\ UNCHANGED <<sstate, reloadFw, errFlgs, anTries>>
     \/ /\ NotCancelled /\ sstate # "DOWN"
        /\ Fail(t, S, "anTry", "anDone", "EUCLEAN")
        /\ UNCHANGED <<sstate, reloadFw, errFlgs, anTries>>
     \/ /\ NotCancelled /\ sstate = "DOWN" /\ Attempt
        /\ \/ /\ Go(t, S, "anTry", "anExchange")
              /\ sstate' = "AUTONEG" /\ UNCHANGED reloadFw
              /\ errFlgs' = {}
           \/ /\ Fail(t, S, "anTry", "anDone", "EIO")
              /\ sstate' = "ERROR" /\ reloadFw' \in {reloadFw, TRUE}
              /\ UNCHANGED errFlgs
  /\ NoLinkChange /\ StartUnchanged
  /\ UNCHANGED <<pcsOn, pcs, llrLimited, intrFlgs, intrOn>>

(* sbl_an_exchange() and sbl_an_ability_match().  A timed out or unexpected *)
(* exchange stops the SerDes before the retry, a mismatch does not.         *)
AnExchange(t) ==
  /\ \/ /\ Go(t, S, "anExchange", "anDone")
        /\ UNCHANGED <<sstate, reloadFw, pcs, errFlgs>>
     \/ /\ Go(t, S, "anExchange", "anTry")
        /\ AnSerdesStop
     \/ /\ Go(t, S, "anExchange", "anTry")
        /\ UNCHANGED <<sstate, reloadFw, pcs, errFlgs>>
     \/ /\ \E e \in {"ETIME", "EIO"} : Fail(t, S, "anExchange", "anDone", e)
        /\ UNCHANGED <<sstate, reloadFw, pcs, errFlgs>>
     \/ /\ Cancelled /\ Fail(t, S, "anExchange", "anDone", "ECANCELED")
        /\ UNCHANGED <<sstate, reloadFw, pcs, errFlgs>>
  /\ NoLinkChange /\ StartUnchanged
  /\ UNCHANGED <<pcsOn, llrLimited, intrFlgs, intrOn, anTries>>

(* The cleanup after the loop; then the mode must suit the media.           *)
AnDone(t) ==
  /\ \/ err = "OK" /\ Go(t, S, "anDone", "am")
     \/ err = "OK" /\ Fail(t, S, "anDone", "out", "EMEDIUMTYPE")
     \/ err # "OK" /\ Go(t, S, "anDone", "out")
  /\ \/ sstate = "AUTONEG" /\ sstate' = "DOWN" /\ UNCHANGED reloadFw
     \/ sstate = "AUTONEG" /\ sstate' = "ERROR" /\ reloadFw' = TRUE
     \/ sstate # "AUTONEG" /\ UNCHANGED <<sstate, reloadFw>>
  /\ \E e \in Errors : RemoveHandler(e)
  /\ errFlgs' = {}
  /\ pcs' = "down"
  /\ NoLinkChange /\ StartUnchanged
  /\ UNCHANGED <<pcsOn, llrLimited, anTries>>

-----------------------------------------------------------------------------
(* sbl_pml_pcs_am_start(): the PCS is configured and switched on.           *)
StartAm(t) ==
  /\ \/ blstate = "STARTING" /\ Go(t, S, "am", "lpDetect") /\ pcsOn' = TRUE
     \/ /\ Fail(t, S, "am", "out",
                IF blstate = "STARTING" THEN "EIO" ELSE "ENAVAIL")
        /\ UNCHANGED pcsOn
  /\ NoLinkChange /\ StartUnchanged
  /\ UNCHANGED <<sstate, reloadFw, pcs, llrLimited, intrVars, anTries>>

(* sbl_base_link_lp_detect(), which may be skipped.                         *)
StartLpDetect(t) ==
  /\ \/ /\ Go(t, S, "lpDetect", "serdes")
        /\ UNCHANGED <<sstate, reloadFw>>
     \/ /\ sstate # "DOWN" /\ Fail(t, S, "lpDetect", "out", "EUCLEAN")
        /\ UNCHANGED <<sstate, reloadFw>>
     \/ /\ sstate = "DOWN" /\ Fail(t, S, "lpDetect", "out", "ETIMEDOUT")
        /\ reloadFw' \in {reloadFw, TRUE} /\ UNCHANGED sstate
     \/ /\ sstate = "DOWN" /\ Cancelled
        /\ Fail(t, S, "lpDetect", "out", "ECANCELED")
        /\ UNCHANGED <<sstate, reloadFw>>
     \/ /\ sstate = "DOWN" /\ Fail(t, S, "lpDetect", "out", "EIO")
        /\ sstate' = "ERROR" /\ UNCHANGED reloadFw
  /\ NoLinkChange /\ StartUnchanged
  /\ UNCHANGED <<pcsOn, pcs, llrLimited, intrVars, anTries>>

(* sbl_serdes_start()                                                       *)
StartSerdes(t) ==
  /\ \/ /\ sstate = "DOWN" /\ Go(t, S, "serdes", "pml")
        /\ sstate' = "RUNNING" /\ UNCHANGED reloadFw
     \/ /\ sstate # "DOWN" /\ Fail(t, S, "serdes", "out", "EUCLEAN")
        /\ UNCHANGED <<sstate, reloadFw>>
     \/ /\ sstate = "DOWN"
        /\ \/ \E e \in {"ETIMEDOUT", "EIO"} : Fail(t, S, "serdes", "out", e)
           \/ Cancelled /\ Fail(t, S, "serdes", "out", "ECANCELED")
        /\ sstate' = "ERROR" /\ reloadFw' \in {reloadFw, TRUE}
  /\ NoLinkChange /\ StartUnchanged
  /\ UNCHANGED <<pcsOn, pcs, llrLimited, intrVars, anTries>>

(* sbl_pml_start(): wait until the PCS is up, start the MAC and the LLR and *)
(* then clear the error flags of the bring-up.                              *)
StartPml(t) ==
  /\ \/ /\ pcs = "up" /\ Go(t, S, "pml", "pmlClear")
        /\ llrLimited' \in LlrLimits /\ UNCHANGED pcs
     \/ /\ \/ \E e \in {"ETIMEDOUT", "EIO"} : Fail(t, S, "pml", "serdesDown", e)
           \/ Cancelled /\ Fail(t, S, "pml", "serdesDown", "ECANCELED")
        /\ llrLimited' \in LlrLimits
        /\ pcs' = IF Inhibit THEN pcs ELSE "down"
  /\ NoLinkChange /\ StartUnchanged
  /\ UNCHANGED <<sstate, reloadFw, pcsOn, intrVars, anTries>>

StartPmlClear(t) ==
  /\ Go(t, S, "pmlClear", "fec")
  /\ errFlgs' = {}
  /\ NoLinkChange /\ StartUnchanged
  /\ UNCHANGED <<chipVars, intrFlgs, intrOn, anTries>>

(* Thresholds, adjustments and sbl_fec_up_check().                          *)
StartFec(t) ==
  /\ \/ Go(t, S, "fec", "fmTest")
     \/ \E e \in {"EINVAL", "EOVERFLOW"} : Fail(t, S, "fec", "pcsDown", e)
  /\ NoLinkChange /\ StartUnchanged
  /\ UNCHANGED <<chipVars, intrVars, anTries>>

-----------------------------------------------------------------------------
(* sbl_link_fault_monitor_start(): test, install, enable and test again, so *)
(* that a fault before the interrupt was enabled is not missed.             *)
FaultLatched == errFlgs \cap FaultFlags # {}

FmTest(t) ==
  /\ \/ FaultLatched /\ Fail(t, S, "fmTest", "pcsDown", "ENETDOWN")
     \/ ~FaultLatched /\ Go(t, S, "fmTest", "fmInstall")
  /\ NoLinkChange /\ StartUnchanged
  /\ UNCHANGED <<chipVars, intrVars, anTries>>

FmInstall(t) ==
  /\ \/ /\ intrFlgs # {} /\ Fail(t, S, "fmInstall", "pcsDown", "EALREADY")
        /\ UNCHANGED intrFlgs
     \/ /\ intrFlgs = {} /\ intrFlgs' = FaultFlags
        /\ \/ Go(t, S, "fmInstall", "fmEnable")
           \/ OpsMayFail /\ Fail(t, S, "fmInstall", "pcsDown", "EIO")
  /\ NoLinkChange /\ StartUnchanged
  /\ UNCHANGED <<chipVars, errFlgs, intrOn, anTries>>

(* Mutant: an error of the enabling is ignored.                             *)
FmEnableUnchecked(t) ==
  /\ At(t, S, "fmEnable")
  /\ \E e \in Errors : EnableHandler(FaultFlags, e)
  /\ Go(t, S, "fmEnable", "fmRetest")
  /\ NoLinkChange /\ StartUnchanged
  /\ UNCHANGED <<chipVars, errFlgs, intrFlgs, anTries>>

FmEnable(t) ==
  /\ At(t, S, "fmEnable")
  /\ \E e \in Errors :
       /\ EnableHandler(FaultFlags, e)
       /\ \/ e = "OK" /\ Go(t, S, "fmEnable", "fmRetest")
          \/ e # "OK" /\ Fail(t, S, "fmEnable", "undoRemove", e)
  /\ NoLinkChange /\ StartUnchanged
  /\ UNCHANGED <<chipVars, errFlgs, intrFlgs, anTries>>

FmRetest(t) ==
  /\ \/ FaultLatched /\ Fail(t, S, "fmRetest", "undoDisable", "ENETDOWN")
     \/ ~FaultLatched /\ Go(t, S, "fmRetest", "up")
  /\ NoLinkChange /\ StartUnchanged
  /\ UNCHANGED <<chipVars, intrVars, anTries>>

(* Its own error exits, which ignore further errors ...                     *)
FmUndoDisable(t) ==
  /\ Go(t, S, "undoDisable", "undoRemove")
  /\ \E e \in Errors : DisableHandler(FaultFlags, e)
  /\ NoLinkChange /\ StartUnchanged
  /\ UNCHANGED <<chipVars, errFlgs, intrFlgs, anTries>>

FmUndoRemove(t) ==
  /\ Go(t, S, "undoRemove", "pcsDown")
  /\ \E e \in Errors : RemoveHandler(e)
  /\ NoLinkChange /\ StartUnchanged
  /\ UNCHANGED <<chipVars, errFlgs, anTries>>

(* ... and sbl_link_fault_monitor_stop() when the last check fails.         *)
StartFmDisable(t) ==
  /\ At(t, S, "fmDisable")
  /\ \E e \in Errors :
       /\ DisableHandler(FaultFlags, e)
       /\ Go(t, S, "fmDisable", IF e = "OK" THEN "fmRemove" ELSE "pcsDown")
  /\ NoLinkChange /\ StartUnchanged
  /\ UNCHANGED <<chipVars, errFlgs, intrFlgs, anTries>>

StartFmRemove(t) ==
  /\ Go(t, S, "fmRemove", "pcsDown")
  /\ \E e \in Errors : RemoveHandler(e)
  /\ NoLinkChange /\ StartUnchanged
  /\ UNCHANGED <<chipVars, errFlgs, anTries>>

-----------------------------------------------------------------------------
(* The final check of the PCS and its lanes, and success.                   *)
StartFinalCheck(t) ==
  /\ \/ pcs = "up" /\ Go(t, S, "up", "done")
     \/ Fail(t, S, "up", "fmDisable", "ENETDOWN")
  /\ NoLinkChange /\ StartUnchanged
  /\ UNCHANGED <<chipVars, intrVars, anTries>>

StartDone(t) ==
  /\ Go(t, S, "done", "arm")
  /\ blstate' = "UP" /\ blerr' = "OK"
  /\ StartUnchanged
  /\ UNCHANGED <<alerted, fecVars, chipVars, intrVars, anTries>>

StartArm(t) ==
  /\ Finish(t, S, "arm")
  /\ fecTimer' = TRUE
  /\ StartUnchanged
  /\ UNCHANGED <<blstate, blerr, alerted, chipVars, intrVars, fecQueued, fpc>>

(* The error exits out_pcs, out_serdes and out.                             *)
StartPcsDown(t) ==
  /\ Go(t, S, "pcsDown", "serdesDown")
  /\ IF Inhibit THEN UNCHANGED <<pcsOn, pcs, llrLimited, intrVars>>
                ELSE PmlLinkDown
  /\ NoLinkChange /\ StartUnchanged
  /\ UNCHANGED <<sstate, reloadFw, anTries>>

StartSerdesDown(t) ==
  /\ Go(t, S, "serdesDown", "out")
  /\ IF Inhibit THEN UNCHANGED <<sstate, reloadFw, pcs, errFlgs>>
                ELSE \E e \in Errors : SerdesStop(e)
  /\ NoLinkChange /\ StartUnchanged
  /\ UNCHANGED <<pcsOn, llrLimited, intrFlgs, intrOn, anTries>>

StartFails(t) ==
  /\ Finish(t, S, "out")
  /\ blstate' = "ERROR" /\ blerr' = err
  /\ sstate' \in IF reloadFw /\ ~Inhibit THEN {"DOWN", "ERROR"} ELSE {sstate}
  /\ reloadFw' = FALSE
  /\ StartUnchanged
  /\ UNCHANGED <<alerted, fecVars, pcsOn, pcs, llrLimited, intrVars>>

Start(t) ==
  \/ StartRefused(t) \/ StartBegins(t) \/ StartSet(t) \/ StartFirmware(t)
  \/ StartMode(t) \/ AnInstall(t) \/ AnTry(t) \/ AnExchange(t) \/ AnDone(t)
  \/ StartAm(t) \/ StartLpDetect(t) \/ StartSerdes(t) \/ StartPml(t)
  \/ StartPmlClear(t) \/ StartFec(t) \/ FmTest(t) \/ FmInstall(t)
  \/ FmEnable(t) \/ FmRetest(t) \/ FmUndoDisable(t) \/ FmUndoRemove(t)
  \/ StartFinalCheck(t) \/ StartDone(t) \/ StartArm(t) \/ StartFmDisable(t)
  \/ StartFmRemove(t) \/ StartPcsDown(t) \/ StartSerdesDown(t) \/ StartFails(t)
=============================================================================
