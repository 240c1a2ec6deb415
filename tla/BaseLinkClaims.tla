---------------------------- MODULE BaseLinkClaims ----------------------------
(***************************************************************************)
(* What comments of the source say of the port that its code does not do.   *)
(* Each property is checked by a run that expects the counterexample.       *)
(***************************************************************************)
EXTENDS QuietInv

(* sbl_base_link_stop() "cleanly shuts down previously initialized SerDes   *)
(* link, link monitoring and stops the PML block": a port that is down has  *)
(* no FEC check pending.  The work queued by the timer is not waited for    *)
(* and sets the timer again after stop has deleted it.                      *)
StopEndsFecCheck == Idle /\ blstate = "DOWN" => ~fecTimer

(* sbl_pml_hdlr() "checks possible case of down origin and alert the        *)
(* clients": a link that is up and stays without PCS is recovered, reported *)
(* or stopped.  Two pairs of steps lose a fault that falls between them:    *)
(* the recovery timer finds the PCS clean and then ends the recovery, to    *)
(* which the handler leaves a fault that it sees before that end; and the   *)
(* handler reads the state of the link and then clears the flags that it    *)
(* had read before, with whatever latched one of them again.  This takes a  *)
(* flag to be latched when its condition appears: if it stayed raised for   *)
(* as long as the PCS is down, the handler that clears it during a recovery *)
(* would be called again at once until the recovery ends.                   *)
FaultIsReported ==
  (Idle /\ blstate = "UP" /\ pcs = "down")
    ~> (pcs # "down" \/ alerted \/ blstate # "UP")

(* sbl_link_autoneg(): "no match - try again (in case they change)".  The   *)
(* retry must find the SerDes out of autoneg, or sbl_an_serdes_start()      *)
(* refuses it.                                                              *)
RetryCanStartSerdes ==
  \A t \in Threads : At(t, "start", "anTry") => sstate # "AUTONEG"
=============================================================================
