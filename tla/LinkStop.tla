------------------------------- MODULE LinkStop -------------------------------
(***************************************************************************)
(* The operations that take a port down: sbl_base_link_stop(),              *)
(* sbl_base_link_reset() and sbl_base_link_try_start_fail_cleanup().  They  *)
(* share the removal of the interrupt handler and the cancelling of a PML   *)
(* recovery, each with its own reaction to an error.                        *)
(***************************************************************************)
EXTENDS LinkState

StopSteps    == {"enter", "fmDisable", "fmRemove", "rec", "recDelete",
                 "recEnd", "serdesDown", "pcsDown", "timer", "out"}
ResetSteps   == {"enter", "fmDisable", "fmRemove", "rec", "recDelete",
                 "recEnd", "serdesReset", "pcsDown", "timer", "out"}
CleanupSteps == {"enter", "fmDisable", "fmRemove", "serdesDown",
                 "serdesReset", "out", "unlock"}

(* What stop, reset and cleanup leave alone between their first and last    *)
(* steps, apart from the hardware.                                          *)
DownUnchanged == UNCHANGED <<linkVars, alerted, hdlrVars, anTries>>
ChipUnchanged == UNCHANGED <<chipVars, errFlgs>>

-----------------------------------------------------------------------------
(* The calls are entered.                                                   *)
StopRefused(t) ==
  /\ blstate # "UP"
  /\ Refuse(t, "stop")
  /\ UNCHANGED <<linkVars, alerted, hdlrVars, chipVars, intrVars, recVars,
                 fecVars>>

StopBegins(t) ==
  /\ blstate = "UP"
  /\ Take(t, "stop", "fmDisable")
  /\ blstate' = IF "KEEP_SERDES_UP" \in Debug THEN blstate ELSE "STOPPING"
  /\ UNCHANGED <<blerr, attr, mattr, startCancelled, alerted, hdlrVars,
                 chipVars, intrVars, recVars, fecVars>>

(* Mutant: the handler is left registered.                                  *)
ResetBeginsWatched(t) ==
  /\ Take(t, "reset", "rec")
  /\ blstate' = "RESETTING"
  /\ UNCHANGED <<blerr, attr, mattr, startCancelled, alerted, hdlrVars,
                 chipVars, intrVars, recVars, fecVars>>

ResetBegins(t) ==
  /\ Take(t, "reset", IF intrFlgs # {} THEN "fmDisable" ELSE "rec")
  /\ blstate' = "RESETTING"
  /\ UNCHANGED <<blerr, attr, mattr, startCancelled, alerted, hdlrVars,
                 chipVars, intrVars, recVars, fecVars>>

CleanupBegins(t) ==
  /\ Take(t, "cleanup",
          IF intrFlgs # {} THEN "fmDisable"
          ELSE IF "INHIBIT_CLEANUP" \in Debug THEN "unlock" ELSE "serdesDown")
  /\ UNCHANGED <<linkVars, alerted, hdlrVars, chipVars, intrVars, recVars,
                 fecVars>>

-----------------------------------------------------------------------------
(* Remove the interrupt handler.  Stop switches off the flags it computes   *)
(* from the replay limit and gives up on an error; reset and cleanup switch *)
(* off what is registered and carry on.                                     *)
StopFmDisable(t) ==
  /\ At(t, "stop", "fmDisable")
  /\ \E e \in Errors :
       /\ DisableHandler(FaultFlags, e)
       /\ \/ e = "OK" /\ Go(t, "stop", "fmDisable", "fmRemove")
          \/ e # "OK" /\ Fail(t, "stop", "fmDisable", "out", e)
  /\ DownUnchanged /\ ChipUnchanged
  /\ UNCHANGED <<intrFlgs, recVars, fecVars>>

StopFmRemove(t) ==
  /\ At(t, "stop", "fmRemove")
  /\ \E e \in Errors :
       /\ RemoveHandler(e)
       /\ \/ e = "OK" /\ Go(t, "stop", "fmRemove", "rec")
          \/ e # "OK" /\ Fail(t, "stop", "fmRemove", "out", e)
  /\ DownUnchanged /\ ChipUnchanged
  /\ UNCHANGED <<recVars, fecVars>>

OwnFmDisable(t) ==
  /\ \E o \in {"reset", "cleanup"} : Go(t, o, "fmDisable", "fmRemove")
  /\ \E e \in Errors : DisableHandler(intrFlgs, e)
  /\ DownUnchanged /\ ChipUnchanged
  /\ UNCHANGED <<intrFlgs, recVars, fecVars>>

OwnFmRemove(t) ==
  /\ \/ Go(t, "reset", "fmRemove", "rec")
     \/ Go(t, "cleanup", "fmRemove",
           IF "INHIBIT_CLEANUP" \in Debug THEN "unlock" ELSE "serdesDown")
  /\ \E e \in Errors : RemoveHandler(e)
  /\ DownUnchanged /\ ChipUnchanged
  /\ UNCHANGED <<recVars, fecVars>>

(* Mutant: a stop goes on to the PML block with the SerDes running.         *)
AfterRecSkipped(o) == IF o = "stop" THEN "pcsDown" ELSE "serdesReset"

(* sbl_pml_recovery_cancel(), if a recovery is seen to be in progress;      *)
(* timer_delete_sync() waits for the callback.                              *)
AfterRec(o) == IF o = "stop" THEN "serdesDown" ELSE "serdesReset"

RecTest(t) ==
  /\ \E o \in {"stop", "reset"} :
       Go(t, o, "rec", IF recStarted THEN "recDelete" ELSE AfterRec(o))
  /\ DownUnchanged /\ ChipUnchanged
  /\ UNCHANGED <<intrFlgs, intrOn, recVars, fecVars>>

(* Mutant: the timer is deleted without waiting for its callback.           *)
RecDeleteAsync(t) ==
  /\ \E o \in {"stop", "reset"} : Go(t, o, "recDelete", "recEnd")
  /\ recTimer' = FALSE
  /\ DownUnchanged /\ ChipUnchanged
  /\ UNCHANGED <<intrFlgs, intrOn, recStarted, recPolls, rpc, fecVars>>

RecDelete(t) ==
  /\ \E o \in {"stop", "reset"} : Go(t, o, "recDelete", "recEnd")
  /\ rpc = "idle"
  /\ recTimer' = FALSE
  /\ DownUnchanged /\ ChipUnchanged
  /\ UNCHANGED <<intrFlgs, intrOn, recStarted, recPolls, rpc, fecVars>>

RecCancelled(t) ==
  /\ \E o \in {"stop", "reset"} : Go(t, o, "recEnd", AfterRec(o))
  /\ recStarted' = FALSE
  /\ DownUnchanged /\ ChipUnchanged
  /\ UNCHANGED <<intrFlgs, intrOn, recTimer, recPolls, rpc, fecVars>>

-----------------------------------------------------------------------------
(* Stop the SerDes, before the PML block so that optics do not fail.        *)
StopSerdes(t) ==
  /\ At(t, "stop", "serdesDown")
  /\ \E e \in Errors :
       /\ SerdesStop(e)
       /\ \/ e = "OK" /\ Go(t, "stop", "serdesDown", "pcsDown")
          \/ e # "OK" /\ Fail(t, "stop", "serdesDown", "out", e)
  /\ DownUnchanged
  /\ UNCHANGED <<pcsOn, llrLimited, intrFlgs, intrOn, recVars, fecVars>>

CleanupSerdes(t) ==
  /\ Go(t, "cleanup", "serdesDown", "serdesReset")
  /\ \/ sstate = "RUNNING" /\ \E e \in Errors : SerdesStop(e)
     \/ sstate # "RUNNING" /\ AnSerdesStop
  /\ DownUnchanged
  /\ UNCHANGED <<pcsOn, llrLimited, intrFlgs, intrOn, recVars, fecVars>>

ResetSerdes(t) ==
  /\ \/ Go(t, "reset", "serdesReset", "pcsDown") /\ SerdesReset
     \/ /\ Go(t, "cleanup", "serdesReset", "out")
        /\ IF sstate = "DOWN" THEN UNCHANGED <<sstate, reloadFw, pcs, errFlgs>>
                              ELSE SerdesReset
  /\ DownUnchanged
  /\ UNCHANGED <<pcsOn, llrLimited, intrFlgs, intrOn, recVars, fecVars>>

DownPcs(t) ==
  /\ \E o \in {"stop", "reset"} : Go(t, o, "pcsDown", "timer")
  /\ PmlLinkDown
  /\ DownUnchanged
  /\ UNCHANGED <<sstate, reloadFw, recVars, fecVars>>

(* timer_delete_sync() on the FEC timer; its work is not waited for.        *)
DownTimer(t) ==
  /\ \E o \in {"stop", "reset"} : Go(t, o, "timer", "out")
  /\ fecTimer' = FALSE
  /\ DownUnchanged /\ ChipUnchanged
  /\ UNCHANGED <<intrFlgs, intrOn, recVars, fecQueued, fpc>>

-----------------------------------------------------------------------------
(* The last steps.                                                          *)
StopEnds(t) ==
  /\ lock = None
  /\ Finish(t, "stop", "out")
  /\ blstate' = IF err # "OK" THEN "ERROR"
                ELSE IF "KEEP_SERDES_UP" \in Debug THEN blstate ELSE "DOWN"
  /\ blerr' = err
  /\ UNCHANGED <<attr, mattr, startCancelled, alerted, hdlrVars, chipVars,
                 intrVars, recVars, fecVars>>

ResetEnds(t) ==
  /\ Finish(t, "reset", "out")
  /\ blstate' = "UNCONFIGURED" /\ blerr' = "OK"
  /\ attr' = "none"
  /\ startCancelled' = FALSE
  /\ PmlSetDefaults
  /\ errFlgs' = {}
  /\ UNCHANGED <<mattr, alerted, hdlrVars, sstate, reloadFw, intrFlgs, intrOn,
                 recVars, fecVars>>

(* Errors after which the port may be started again at once; EADV, EBADE,   *)
(* ECHRNG, ELNRNG and ENOSR of sbl_pml_start() are treated like these.      *)
RecoverableErrors ==
  {"ENETDOWN", "ETIME", "ETIMEDOUT", "EOVERFLOW", "ECANCELED"}

CleanupClears(t) ==
  /\ blstate = "ERROR" /\ blerr \in RecoverableErrors
  /\ Finish(t, "cleanup", "out")
  /\ blstate' = "DOWN" /\ blerr' = "OK"
  /\ startCancelled' = FALSE
  /\ PmlSetDefaults
  /\ errFlgs' = {}
  /\ UNCHANGED <<attr, mattr, alerted, hdlrVars, sstate, reloadFw, intrFlgs,
                 intrOn, recVars, fecVars>>

CleanupLeaves(t) ==
  /\ \/ Finish(t, "cleanup", "out")
        /\ ~(blstate = "ERROR" /\ blerr \in RecoverableErrors)
     \/ Finish(t, "cleanup", "unlock")
  /\ UNCHANGED <<linkVars, alerted, hdlrVars, chipVars, intrVars, recVars,
                 fecVars>>

Stop(t)    == \/ StopRefused(t) \/ StopBegins(t) \/ StopFmDisable(t)
              \/ StopFmRemove(t) \/ StopSerdes(t) \/ StopEnds(t)
Reset(t)   == ResetBegins(t) \/ ResetEnds(t)
Cleanup(t) == \/ CleanupBegins(t) \/ CleanupSerdes(t) \/ CleanupClears(t)
              \/ CleanupLeaves(t)
Shared(t)  == \/ OwnFmDisable(t) \/ OwnFmRemove(t) \/ RecTest(t) \/ RecDelete(t)
              \/ RecCancelled(t) \/ ResetSerdes(t) \/ DownPcs(t) \/ DownTimer(t)

Down(t) == Stop(t) \/ Reset(t) \/ Cleanup(t) \/ Shared(t)
=============================================================================
