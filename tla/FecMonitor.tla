------------------------------ MODULE FecMonitor ------------------------------
(***************************************************************************)
(* The periodic forward error correction check of a port that is up: the   *)
(* fec_timer queues fec_timer_work, which compares the code word rates with *)
(* their limits, alerts the client if one is exceeded and otherwise sets    *)
(* the timer again.  Deleting the timer does not stop work that the timer   *)
(* has already queued.                                                      *)
(***************************************************************************)
EXTENDS LinkState

FecPcs == {"idle", "rates", "disable", "alert", "rearm"}

FecUnchanged == UNCHANGED <<chipVars, hdlrVars, recVars, callVars>>

(* sbl_fec_timer()                                                          *)
FecTimerFires ==
  /\ fecTimer
  /\ fecTimer' = FALSE
  /\ fecQueued' = TRUE
  /\ UNCHANGED <<linkVars, intrVars, alerted, fpc>>
  /\ FecUnchanged

(* sbl_fec_timer_work() from here on.                                       *)
FecWorkBegins ==
  /\ fecQueued /\ fpc = "idle"
  /\ fecQueued' = FALSE
  /\ fpc' = IF blstate = "UP" /\ pcs # "down" THEN "rates" ELSE "rearm"
  /\ UNCHANGED <<linkVars, intrVars, alerted, fecTimer>>
  /\ FecUnchanged

(* Mutant: the timer is not set again when the rates are good.              *)
FecRatesGoodOnce ==
  /\ fpc = "rates" /\ fpc' = "idle"
  /\ UNCHANGED <<linkVars, intrVars, alerted, fecTimer, fecQueued>>
  /\ FecUnchanged

FecRatesGood ==
  /\ fpc = "rates" /\ fpc' = "rearm"
  /\ UNCHANGED <<linkVars, intrVars, alerted, fecTimer, fecQueued>>
  /\ FecUnchanged

FecRatesBad ==
  /\ fpc = "rates" /\ fpc' = "disable"
  /\ UNCHANGED <<linkVars, intrVars, alerted, fecTimer, fecQueued>>
  /\ FecUnchanged

FecDisable ==
  /\ fpc = "disable" /\ fpc' = "alert"
  /\ LinkDownDisable
  /\ UNCHANGED <<fecTimer, fecQueued>>
  /\ FecUnchanged

FecAlert ==
  /\ fpc = "alert" /\ fpc' = "idle"
  /\ LinkDownAlert
  /\ UNCHANGED <<fecTimer, fecQueued>>
  /\ FecUnchanged

FecRearm ==
  /\ fpc = "rearm" /\ fpc' = "idle"
  /\ fecTimer' = TRUE
  /\ UNCHANGED <<linkVars, intrVars, alerted, fecQueued>>
  /\ FecUnchanged

FecWork == \/ FecWorkBegins \/ FecRatesGood \/ FecRatesBad \/ FecDisable
           \/ FecAlert \/ FecRearm
=============================================================================
