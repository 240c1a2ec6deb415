------------------------------ MODULE LinkConfig ------------------------------
(***************************************************************************)
(* The operations on a port that do not take busy_mtx: configuration of the *)
(* base link and of the media, enabling and cancelling a start.  They hold  *)
(* only the data lock, so they may run while a start, stop, reset or        *)
(* cleanup is in progress; the state is checked in one step and written in  *)
(* another, as a holder of busy_mtx writes it without the data lock.        *)
(***************************************************************************)
EXTENDS LinkState

ConfigOps   == {"config", "mconfig", "munconfig"}
ConfigSteps == {"enter", "write"}
CancelSteps == {"enter", "timer"}

ConfigUnchanged == UNCHANGED <<blerr, startCancelled, alerted, chipVars,
                               intrVars, hdlrVars, recVars, fecVars, busy,
                               err, anTries>>

ConfigStates(o) == {"DOWN", "UNCONFIGURED"} \cup
                   IF o = "munconfig" THEN {"STOPPING"} ELSE {}

ConfigCheck(t) ==
  \E o \in ConfigOps :
    /\ At(t, o, "enter") /\ lock = None
    /\ \/ /\ blstate \in ConfigStates(o)
          /\ lock' = t
          /\ pc' = [pc EXCEPT ![t] = "write"]
          /\ UNCHANGED op
       \/ /\ blstate \notin ConfigStates(o)
          /\ Return(t)
          /\ UNCHANGED lock
    /\ UNCHANGED <<blstate, attr, mattr>>
    /\ ConfigUnchanged

Unlock(t, o) ==
  /\ At(t, o, "write")
  /\ Return(t)
  /\ lock' = None
  /\ ConfigUnchanged

(* sbl_base_link_config(): without media only local loopback becomes DOWN;  *)
(* otherwise the state is left as it is.                                    *)
ConfigWrite(t) ==
  /\ Unlock(t, "config")
  /\ attr' \in Attrs
  /\ blstate' = IF attr' = "LOCAL" \/ mattr # "none" THEN "DOWN" ELSE blstate
  /\ UNCHANGED mattr

(* sbl_media_config()                                                       *)
MediaConfigWrite(t) ==
  /\ Unlock(t, "mconfig")
  /\ mattr' \in Media
  /\ blstate' = IF attr # "none" THEN "DOWN" ELSE blstate
  /\ UNCHANGED attr

(* sbl_media_unconfig()                                                     *)
MediaUnconfigWrite(t) ==
  /\ Unlock(t, "munconfig")
  /\ mattr' = "none"
  /\ blstate' = "UNCONFIGURED"
  /\ UNCHANGED attr

(* sbl_base_link_enable_start()                                             *)
EnableStart(t) ==
  /\ At(t, "enable", "enter") /\ lock = None
  /\ Return(t)
  /\ startCancelled' = FALSE
  /\ UNCHANGED <<blstate, blerr, attr, mattr, alerted, chipVars, intrVars,
                 hdlrVars, recVars, fecVars, busy, lock, err, anTries>>

(* sbl_base_link_cancel_start(): the flag, then the FEC timer.              *)
CancelStart(t) ==
  /\ lock = None
  /\ Go(t, "cancel", "enter", "timer")
  /\ startCancelled' = TRUE
  /\ UNCHANGED <<blstate, blerr, attr, mattr, alerted, chipVars, intrVars,
                 hdlrVars, recVars, fecVars, anTries>>

CancelTimer(t) ==
  /\ At(t, "cancel", "timer")
  /\ Return(t)
  /\ fecTimer' = FALSE
  /\ UNCHANGED <<linkVars, alerted, chipVars, intrVars, hdlrVars, recVars,
                 fecQueued, fpc, busy, lock, err, anTries>>

Configure(t) ==
  \/ ConfigCheck(t) \/ ConfigWrite(t) \/ MediaConfigWrite(t)
  \/ MediaUnconfigWrite(t) \/ EnableStart(t) \/ CancelStart(t) \/ CancelTimer(t)
=============================================================================
