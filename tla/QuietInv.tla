------------------------------- MODULE QuietInv -------------------------------
(***************************************************************************)
(* The inductive invariant behind BaseLink's QuietWhenDown.  A port comes   *)
(* to rest only at the end of an operation that holds busy_mtx or of a      *)
(* configuring call; the conjuncts follow the interrupt handler's           *)
(* registration from its removal to that end, and exclude whoever could     *)
(* register it again in between.                                            *)
(***************************************************************************)
EXTENDS BaseLink

Holders == {"start", "stop", "reset", "cleanup"}

(* busy_mtx is held by the thread inside one of the four operations, and    *)
(* the data lock by the thread between the check and the write of a         *)
(* configuring call.                                                        *)
BusyHolder == \A t \in Threads :
                (busy = t) <=> (op[t] \in Holders /\ pc[t] # "enter")
LockHolder == \A t \in Threads :
                (lock = t) <=> (op[t] \in ConfigOps /\ pc[t] = "write")

(* The contract of the clients holds at every moment, not only at calls.    *)
OneExclusive == \A t, u \in Threads :
                  t # u /\ op[t] \in Exclusive => op[u] \notin Exclusive

(* A removal that waits leaves no handler running.                          *)
HandlerRegistered == RemoveWaits /\ intrFlgs = {} => hpc = "idle"

(* Only a stop in progress shows STOPPING, so that nothing else can let a   *)
(* removal of the media in.                                                 *)
StopShows ==
  blstate = "STOPPING" =>
    /\ "KEEP_SERDES_UP" \notin Debug
    /\ \E t \in Threads : busy = t /\ op[t] = "stop"

(* Where the operations that take the port down have removed the handler.   *)
Unwatched(t) ==
  \/ op[t] = "stop" /\ pc[t] \in {"rec", "recDelete", "recEnd", "serdesDown",
                                  "pcsDown", "timer"}
  \/ op[t] = "stop" /\ pc[t] = "out" /\ err = "OK"
  \/ op[t] = "reset"
     /\ pc[t] \in ResetSteps \ {"enter", "fmDisable", "fmRemove"}
  \/ op[t] = "cleanup"
     /\ pc[t] \in {"serdesDown", "serdesReset", "out", "unlock"}
  \/ op[t] \in ConfigOps /\ pc[t] = "write" /\ busy = None

UnwatchedQuiet == \A t \in Threads : Unwatched(t) => intrFlgs = {}

(* A start that is about to return has left the state it started from.      *)
ArmedUp == \A t \in Threads :
             At(t, "start", "arm") => blstate \notin {"DOWN", "UNCONFIGURED"}

InductiveQuiet ==
  /\ BusyHolder /\ LockHolder /\ OneExclusive /\ HandlerRegistered /\ StopShows
  /\ UnwatchedQuiet /\ ArmedUp /\ QuietWhenDown
=============================================================================
