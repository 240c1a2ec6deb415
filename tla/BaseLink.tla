------------------------------- MODULE BaseLink -------------------------------
(***************************************************************************)
(* One port of the driver as a whole: client threads that call the exported *)
(* functions, the fault interrupt, the PML recovery timer, the FEC timer    *)
(* and its work, and the hardware, all interleaved.                         *)
(*                                                                          *)
(* The client contract.  The driver serialises start, stop, reset and       *)
(* cleanup with busy_mtx, but configuration takes only the data lock.  With *)
(* SerialClient the clients keep start, reset, cleanup and the configuring  *)
(* calls apart and clean up only a port in error, as a client that runs     *)
(* each port from one state machine does; stop, cancel and enable may come  *)
(* at any time, and so may the removal of the media while a stop runs.      *)
(***************************************************************************)
EXTENDS PmlFault, FecMonitor, LinkStart, LinkStop, LinkConfig

CONSTANTS
  Ops,           \* the operations clients of this instance call
  SerialClient   \* whether they keep the contract above

AllOps == {"start", "stop", "reset", "cleanup", "config", "mconfig",
           "munconfig", "enable", "cancel"}

ASSUME ClientAssumption == Ops \subseteq AllOps /\ SerialClient \in BOOLEAN

Exclusive == {"start", "reset", "cleanup", "config", "mconfig", "munconfig"}

MayCall(t, o) ==
  SerialClient =>
    /\ o \in Exclusive => \A u \in Threads : op[u] \notin Exclusive
    /\ o = "cleanup" => blstate = "ERROR"

(* A client calls operation o.                                              *)
Call(t) ==
  \E o \in Ops :
    /\ op[t] = "none"
    /\ MayCall(t, o)
    /\ op' = [op EXCEPT ![t] = o]
    /\ pc' = [pc EXCEPT ![t] = "enter"]
    /\ UNCHANGED <<linkVars, chipVars, intrVars, alerted, hdlrVars, recVars,
                   fecVars, busy, lock, err, anTries>>

(* mutex_lock_interruptible() is interrupted by a signal.                   *)
Interrupted(t) ==
  /\ op[t] \in {"start", "stop", "reset", "cleanup"} /\ pc[t] = "enter"
  /\ busy # None
  /\ Return(t)
  /\ UNCHANGED <<linkVars, chipVars, intrVars, alerted, hdlrVars, recVars,
                 fecVars, busy, lock, err, anTries>>

Init ==
  /\ blstate = "UNCONFIGURED" /\ blerr = "OK"
  /\ attr = "none" /\ mattr = "none" /\ startCancelled = FALSE
  /\ sstate = "DOWN" /\ reloadFw = FALSE
  /\ pcsOn = FALSE /\ pcs = "down" /\ llrLimited \in LlrLimits
  /\ errFlgs = {} /\ intrFlgs = {} /\ intrOn = {}
  /\ alerted = FALSE
  /\ hpc = "idle" /\ hraised = {}
  /\ recStarted = FALSE /\ recTimer = FALSE /\ recPolls = 0 /\ rpc = "idle"
  /\ fecTimer = FALSE /\ fecQueued = FALSE /\ fpc = "idle"
  /\ busy = None /\ lock = None
  /\ op = [t \in Threads |-> "none"] /\ pc = [t \in Threads |-> "idle"]
  /\ err = "OK" /\ anTries = 0

Caller(t) == Start(t) \/ Down(t) \/ Configure(t)

Next == \/ \E t \in Threads : Call(t) \/ Interrupted(t) \/ Caller(t)
        \/ Hardware \/ Handler \/ RecoveryTimer \/ FecTimerFires \/ FecWork

Spec == Init /\ [][Next]_vars

(* The scheduler runs every thread, softirq and work item that can run.     *)
(* Neither the hardware nor a client is ever obliged to do anything.  What  *)
(* waits for each other are the callers, the handler and the recovery timer *)
(* alone: nothing depends on the FEC check being run.                       *)
WaitFairness == /\ \A t \in Threads : WF_vars(Caller(t))
                /\ WF_vars(Handler)
                /\ WF_vars(RecoveryTimer)

WaitSpec == Spec /\ WaitFairness

Fairness == WaitFairness /\ WF_vars(FecTimerFires) /\ WF_vars(FecWork)

FairSpec == Spec /\ Fairness

-----------------------------------------------------------------------------
Idle == busy = None

(* Every variable has a value of its type, and a thread is at a step of its *)
(* operation.                                                               *)
LinkType == /\ blstate \in BlStates /\ blerr \in Errors
            /\ attr \in Attrs \cup {"none"} /\ mattr \in Media \cup {"none"}
            /\ startCancelled \in BOOLEAN /\ alerted \in BOOLEAN

ChipType == /\ sstate \in SStates /\ reloadFw \in BOOLEAN
            /\ pcsOn \in BOOLEAN /\ pcs \in {"down", "rf", "up"}
            /\ llrLimited \in BOOLEAN

IntrType == /\ errFlgs \subseteq Flags
            /\ intrFlgs \subseteq Flags /\ intrOn \subseteq Flags

TimerType == /\ hpc \in HdlrPcs /\ hraised \subseteq Flags
             /\ recStarted \in BOOLEAN /\ recTimer \in BOOLEAN
             /\ rpc \in RecPcs
             /\ fecTimer \in BOOLEAN /\ fecQueued \in BOOLEAN /\ fpc \in FecPcs

Steps == {"idle", "enter"} \cup StartSteps \cup StopSteps \cup ResetSteps
         \cup CleanupSteps \cup ConfigSteps \cup CancelSteps

StepOf(o, step) ==
  \/ o = "none" /\ step = "idle"
  \/ o = "start" /\ step \in StartSteps
  \/ o = "stop" /\ step \in StopSteps
  \/ o = "reset" /\ step \in ResetSteps
  \/ o = "cleanup" /\ step \in CleanupSteps
  \/ o \in ConfigOps /\ step \in ConfigSteps
  \/ o = "enable" /\ step = "enter"
  \/ o = "cancel" /\ step \in CancelSteps

CallType == /\ busy \in Threads \cup {None} /\ lock \in Threads \cup {None}
            /\ op \in [Threads -> Ops \cup {"none"}]
            /\ pc \in [Threads -> Steps]
            /\ \A t \in Threads : StepOf(op[t], pc[t])
            /\ err \in Errors

CountType == recPolls \in 0 .. PollBudget /\ anTries \in 0 .. AnTries

TypeOK == /\ LinkType /\ ChipType /\ IntrType /\ TimerType /\ CallType
          /\ CountType

(* A port that is down or unconfigured, with no operation in progress, has  *)
(* no fault monitoring left behind: no interrupt handler is registered for  *)
(* it and, where removing the handler waits for it, none is running.        *)
QuietWhenDown ==
  Idle /\ blstate \in {"DOWN", "UNCONFIGURED"} =>
    intrFlgs = {} /\ (RemoveWaits => hpc = "idle")

(* The flags registered for faults are those that stop and the alert        *)
(* compute again from the replay limit in the register, so that             *)
(* sbl_pml_disable_intr_handler() never refuses them.                       *)
MonitorFlagsMatchLlr == "LINK_DOWN" \in intrFlgs => intrFlgs = FaultFlags

(* A link that was reported up is watched: its SerDes and PCS run, its      *)
(* fault flags are registered, and they raise interrupts unless the client  *)
(* has been or is being alerted.                                            *)
AlertPending == \/ hpc \in {"alert", "rateAlert"}
                \/ rpc = "alert"
                \/ fpc = "alert"

UpIsMonitored ==
  Idle /\ blstate = "UP" =>
    /\ intrFlgs = FaultFlags
    /\ sstate = "RUNNING" /\ pcsOn
    /\ FaultFlags \subseteq intrOn \/ alerted \/ AlertPending

(* A link that is up and not alerted has its periodic FEC check pending.    *)
UpHasFecCheck ==
  Idle /\ blstate = "UP" => fecTimer \/ fecQueued \/ fpc # "idle" \/ alerted

(* The SerDes of a port that is down does not run.                          *)
SerdesOffWhenDown ==
  Idle /\ blstate \in {"DOWN", "UNCONFIGURED"} => sstate \in {"DOWN", "ERROR"}

(* The error state always comes with the error that caused it, and no other *)
(* state has one.                                                           *)
ErrorHasReason == Idle => (blstate = "ERROR") = (blerr # "OK")

(* The handler sets up the recovery timer only when neither the timer nor   *)
(* its callback is active, and both are active only within a recovery.      *)
RecoveryExclusive ==
  /\ hpc \in {"rate", "addtimer", "rateDisable", "rateAlert", "rateEnd"} =>
       recStarted /\ ~recTimer /\ rpc = "idle"
  /\ recTimer \/ rpc # "idle" => recStarted

(* When a stop reports the port down, no recovery of the stopped link is    *)
(* left to alert the client or to start another timer.                      *)
StopCancelsRecovery ==
  [][\A t \in Threads :
       At(t, "stop", "out") /\ pc'[t] = "idle" /\ blstate' = "DOWN" =>
         ~recStarted /\ ~recTimer /\ rpc = "idle" /\ hpc = "idle"]_vars

(* The PCS of an optical port is never switched off while its SerDes runs:  *)
(* the transceivers can fail.                                               *)
PcsHeldWhileSerdesRuns ==
  [][mattr = "OPTICAL" /\ sstate = "RUNNING" /\ pcsOn => pcsOn']_vars

(* Clients see the life cycle that LinkLifecycle specifies: the operation   *)
(* in progress is that of the thread that holds busy_mtx.                   *)
Lifecycle == INSTANCE LinkLifecycle WITH
  state <- blstate, reason <- blerr,
  action <- IF busy = None THEN "none" ELSE op[busy],
  watched <- intrFlgs # {}

ImplementsLifecycle == Lifecycle!Spec

(* Every operation that has taken busy_mtx gives it back.                   *)
OpsTerminate == \A t \in Threads : (busy = t) ~> (busy # t)

(* Every recovery ends, so that a later fault can start another.            *)
RecoveryEnds == recStarted ~> ~recStarted
=============================================================================
