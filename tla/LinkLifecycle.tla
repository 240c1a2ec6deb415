---------------------------- MODULE LinkLifecycle ----------------------------
(***************************************************************************)
(* What the driver promises a client of one port: the states of             *)
(* enum sbl_base_link_status with the transitions between them, who may     *)
(* make each, and whether the port is watched for faults.  A link is up     *)
(* only if it is watched, and a port comes to rest down or unconfigured     *)
(* only if it is not.  BaseLink implements this specification.              *)
(***************************************************************************)
CONSTANTS Errors, RecoverableErrors

VARIABLES
  state, reason,   \* the base link state and error a client reads
  action,          \* the operation in progress: one at a time
  watched          \* an interrupt handler is registered

vars == <<state, reason, action, watched>>

Rest == {"DOWN", "UNCONFIGURED"}

Init == /\ state = "UNCONFIGURED" /\ reason = "OK"
        /\ action = "none" /\ ~watched

Configure ==
  /\ action = "none" /\ state \in Rest /\ state' \in Rest
  /\ UNCHANGED <<reason, action, watched>>

Begin ==
  /\ action = "none"
  /\ \/ action' = "start" /\ state = "DOWN" /\ UNCHANGED state
     \/ action' = "stop" /\ state = "UP" /\ state' = "STOPPING"
     \/ action' = "reset" /\ state' = "RESETTING"
     \/ action' = "cleanup" /\ state = "ERROR" /\ UNCHANGED state
  /\ UNCHANGED <<reason, watched>>

(* A start watches the port when it is successful, and for the time of an   *)
(* autonegotiation.                                                         *)
Starting ==
  /\ action = "start"
  /\ \/ state = "DOWN" /\ state' = "STARTING" /\ UNCHANGED <<reason, watched>>
     \/ state = "STARTING" /\ watched' \in BOOLEAN
        /\ UNCHANGED <<state, reason>>
     \/ state = "STARTING" /\ watched /\ state' = "UP" /\ reason' = "OK"
        /\ UNCHANGED watched
  /\ UNCHANGED action

StartEnds ==
  /\ action = "start" /\ action' = "none"
  /\ \/ state = "UP" /\ UNCHANGED <<state, reason>>
     \/ /\ state = "STARTING" /\ state' = "ERROR"
        /\ reason' \in Errors \ {"OK"}
  /\ UNCHANGED watched

(* The way down: the watch ends first.  While a stop runs the media may be  *)
(* removed, and the port configured again, without waiting for its end.     *)
Unwatch ==
  /\ action \in {"stop", "reset", "cleanup"}
  /\ watched /\ ~watched'
  /\ UNCHANGED <<state, reason, action>>

ConfigureStopping ==
  /\ action = "stop"
  /\ \/ state = "STOPPING" /\ state' = "UNCONFIGURED"
     \/ state \in Rest /\ state' \in Rest
  /\ UNCHANGED <<reason, action, watched>>

StopEnds ==
  /\ action = "stop" /\ action' = "none"
  /\ \/ ~watched /\ state' = "DOWN" /\ reason' = "OK"
     \/ state' = "ERROR" /\ reason' \in Errors \ {"OK"}
  /\ UNCHANGED watched

ResetEnds ==
  /\ action = "reset" /\ action' = "none"
  /\ ~watched /\ state' = "UNCONFIGURED" /\ reason' = "OK"
  /\ UNCHANGED watched

CleanupEnds ==
  /\ action = "cleanup" /\ action' = "none" /\ ~watched
  /\ \/ /\ reason \in RecoverableErrors /\ state' = "DOWN" /\ reason' = "OK"
     \/ /\ reason \notin RecoverableErrors /\ UNCHANGED <<state, reason>>
  /\ UNCHANGED watched

Next == \/ Configure \/ Begin \/ Starting \/ StartEnds \/ Unwatch
        \/ ConfigureStopping \/ StopEnds \/ ResetEnds \/ CleanupEnds

Spec == Init /\ [][Next]_vars
=============================================================================
