--------------------------- MODULE LifecycleProofs ---------------------------
(***************************************************************************)
(* The life cycle of a port with the debug options off and clients that     *)
(* keep the contract, for every number of threads and kind of media: which  *)
(* state a port is in at each step of an operation, why an error state      *)
(* always has its error, and that BaseLink implements LinkLifecycle.        *)
(***************************************************************************)
EXTENDS BaseLinkProofs

(* What the driver is for outside a laboratory.                             *)
Production == SerialClient /\ Debug = {}

(* Steps of a start that has failed.                                        *)
StartErrors == {"out", "serdesDown", "pcsDown", "undoDisable", "undoRemove",
                "fmDisable", "fmRemove"}

(* The state of the port at each step of an operation.                      *)
StateAt(t) ==
  /\ At(t, "start", "set") => blstate = "DOWN"
  /\ op[t] = "start" /\ pc[t] \notin {"enter", "set", "arm"}
       => blstate = "STARTING"
  /\ At(t, "start", "arm") => blstate = "UP"
  /\ op[t] = "stop" /\ pc[t] # "enter"
       => blstate \in {"STOPPING", "DOWN", "UNCONFIGURED"}
  /\ op[t] = "reset" /\ pc[t] # "enter" => blstate = "RESETTING"
  /\ op[t] = "cleanup" => blstate = "ERROR" /\ pc[t] # "unlock"
  /\ op[t] \in {"config", "mconfig"} /\ pc[t] = "write"
       => blstate \in {"DOWN", "UNCONFIGURED"}
  /\ At(t, "munconfig", "write")
       => blstate \in {"DOWN", "UNCONFIGURED", "STOPPING"}

StateHeld  == \A t \in Threads : StateAt(t)
RestStates == busy = None => blstate \in {"UNCONFIGURED", "DOWN", "UP", "ERROR"}
ReasonKept == blstate # "RESETTING" => (blstate = "ERROR" <=> blerr # "OK")
StartErr   == \A t \in Threads :
                op[t] = "start" /\ pc[t] \in StartErrors => err # "OK"

LifeInv == StateHeld /\ RestStates /\ ReasonKept /\ StartErr

-----------------------------------------------------------------------------
LEMMA InitLife == Init => LifeInv
<1> SUFFICES ASSUME Init PROVE LifeInv
  OBVIOUS
<1>1. StateHeld /\ StartErr
  BY DEF Init, StateHeld, StateAt, At, StartErr
<1> QED
  BY <1>1 DEF Init, LifeInv, RestStates, ReasonKept

(* The interrupts, the timers and the work leave the callers and the        *)
(* hardware's settings alone, and without the debug options the link too.   *)
LEMMA AsyncLeaves ==
  ASSUME Hardware \/ Handler \/ RecoveryTimer \/ FecTimerFires \/ FecWork
  PROVE  /\ UNCHANGED <<callVars, intrFlgs, sstate, pcsOn, llrLimited>>
         /\ Debug = {} => UNCHANGED linkVars
<1> USE DEF linkVars, callVars, chipVars, intrVars
<1>1. CASE Hardware
  BY <1>1 DEF Hardware, PcsLost, RemoteFault, PcsRestored, FlagRaised,
     HwUnchanged
<1>2. CASE Handler
  <2>1. CASE HdlrDisable
    BY <2>1 DEF HdlrDisable, LinkDownDisable
  <2>2. CASE HdlrAlert \/ HdlrAddTimer
    BY <2>2 DEF HdlrAlert, LinkDownAlert, HdlrAddTimer
  <2>3. CASE HdlrEnter \/ HdlrOrigin \/ HdlrRecover \/ HdlrRate \/ HdlrRateEnd
             \/ HdlrClear
    BY <2>3 DEF HdlrEnter, HdlrOrigin, HdlrRecover, HdlrRate, HdlrRateEnd,
       HdlrClear
  <2> QED
    BY <1>2, <2>1, <2>2, <2>3 DEF Handler
<1>3. CASE RecoveryTimer
  BY <1>3 DEF RecoveryTimer, RecFire, RecPollClean, RecPollGiveUp,
     RecPollAgain, RecDisable, RecAlert, RecEnd, LinkDownDisable,
     LinkDownAlert, RecUnchanged
<1>4. CASE FecTimerFires \/ FecWork
  BY <1>4 DEF FecTimerFires, FecWork, FecWorkBegins, FecRatesGood,
     FecRatesBad, FecDisable, FecAlert, FecRearm, LinkDownDisable,
     LinkDownAlert, FecUnchanged
<1> QED
  BY <1>1, <1>2, <1>3, <1>4

LEMMA LifeKept ==
  ASSUME LifeInv, UNCHANGED <<blstate, blerr, busy, op, pc, err>>
  PROVE  LifeInv'
BY DEF LifeInv, StateHeld, StateAt, At, RestStates, ReasonKept, StartErr

-----------------------------------------------------------------------------
(* A step of the thread that holds busy_mtx from one step of its operation  *)
(* to another.                                                              *)
LEMMA LifeHolder ==
  ASSUME InductiveQuiet, LifeInv, CallType, NEW t \in Threads, NEW to,
         op[t] \in Holders, pc[t] # "enter", to # "enter",
         UNCHANGED <<busy, op>>, pc' = [pc EXCEPT ![t] = to],
         blstate' = blstate \/ op[t] = "start",
         StateAt(t)', ReasonKept',
         op[t] = "start" /\ to \in StartErrors => err' # "OK"
  PROVE  LifeInv'
<1>1. busy = t /\ t # None
  BY ConstantsAssumption DEF InductiveQuiet, BusyHolder
<1>2. \A u \in Threads \ {t} : /\ pc'[u] = pc[u] /\ op'[u] = op[u]
                               /\ op[u] \notin Holders \/ pc[u] = "enter"
  BY <1>1 DEF CallType, InductiveQuiet, BusyHolder
<1>3. pc'[t] = to /\ op'[t] = op[t]
  BY DEF CallType
<1>4. StateHeld'
  <2> SUFFICES ASSUME NEW u \in Threads \ {t} PROVE StateAt(u)'
    BY DEF StateHeld
  <2>1. CASE blstate' = blstate
    BY <1>2, <2>1 DEF LifeInv, StateHeld, StateAt, At
  <2>2. CASE op[t] = "start"
    <3>1. op[u] \notin Exclusive
      BY <2>2 DEF InductiveQuiet, OneExclusive, Exclusive
    <3> QED
      BY <1>2, <3>1 DEF StateAt, At, Exclusive, Holders
  <2> QED
    BY <2>1, <2>2
<1>5. StartErr'
  BY <1>2, <1>3 DEF StartErr, Holders, StartErrors
<1> QED
  BY <1>1, <1>4, <1>5 DEF LifeInv, RestStates

(* An operation takes busy_mtx.                                             *)
LEMMA LifeTake ==
  ASSUME InductiveQuiet, LifeInv, CallType, NEW t \in Threads, NEW o \in Holders,
         NEW to, Take(t, o, to), to \notin StartErrors \/ o # "start",
         blstate' = blstate \/ o = "reset" \/ (o = "stop" /\ blstate = "UP"),
         StateAt(t)', ReasonKept'
  PROVE  LifeInv'
<1>1. busy = None /\ busy' = t /\ t # None /\ op' = op /\ op[t] = o
  BY ConstantsAssumption DEF Take, At
<1>2. pc'[t] = to /\ \A u \in Threads \ {t} : pc'[u] = pc[u]
  BY DEF Take, CallType
<1>3. \A u \in Threads : op[u] \notin Holders \/ pc[u] = "enter"
  BY <1>1, ConstantsAssumption DEF InductiveQuiet, BusyHolder
<1>4. StateHeld'
  <2> SUFFICES ASSUME NEW u \in Threads \ {t} PROVE StateAt(u)'
    BY DEF StateHeld
  <2>1. CASE blstate' = blstate
    BY <1>1, <1>2, <2>1 DEF LifeInv, StateHeld, StateAt, At
  <2>2. CASE o = "reset"
    <3>1. op[u] \notin Exclusive
      BY <1>1, <2>2 DEF InductiveQuiet, OneExclusive, Exclusive
    <3> QED
      BY <1>1, <1>2, <1>3, <3>1 DEF StateAt, At, Exclusive, Holders
  <2>3. CASE o = "stop" /\ blstate = "UP"
    <3>1. op[u] # "cleanup" /\ ~(op[u] \in ConfigOps /\ pc[u] = "write")
      BY <2>3 DEF LifeInv, StateHeld, StateAt, At, ConfigOps
    <3> QED
      BY <1>1, <1>2, <1>3, <3>1 DEF StateAt, At, ConfigOps, Holders
  <2> QED
    BY <2>1, <2>2, <2>3
<1>5. StartErr'
  BY <1>1, <1>2, <1>3 DEF StartErr, Holders, StartErrors
<1> QED
  BY <1>1, <1>4, <1>5 DEF LifeInv, RestStates

(* An operation that holds busy_mtx ends.                                   *)
LEMMA LifeFinish ==
  ASSUME InductiveQuiet, LifeInv, CallType, NEW t \in Threads, NEW o \in Holders,
         NEW from, Finish(t, o, from), from # "enter",
         blstate' \in {"UNCONFIGURED", "DOWN", "UP", "ERROR"},
         lock = None \/ o # "stop", ReasonKept'
  PROVE  LifeInv'
<1>1. /\ busy = t /\ busy' = None /\ t # None /\ op[t] = o
      /\ op'[t] = "none" /\ pc'[t] = "idle"
      /\ \A u \in Threads \ {t} : pc'[u] = pc[u] /\ op'[u] = op[u]
  BY ConstantsAssumption DEF CallType, InductiveQuiet, BusyHolder, Finish,
     Return, At
<1>2. \A u \in Threads \ {t} : op[u] \notin Holders \/ pc[u] = "enter"
  BY <1>1 DEF InductiveQuiet, BusyHolder
<1>3. \A u \in Threads \ {t} :
        /\ op[u] # "cleanup" /\ ~(op[u] \in ConfigOps /\ pc[u] = "write")
  <2> SUFFICES ASSUME NEW u \in Threads \ {t}
               PROVE  /\ op[u] # "cleanup"
                      /\ ~(op[u] \in ConfigOps /\ pc[u] = "write")
    OBVIOUS
  <2>1. CASE o = "stop"
    <3>1. blstate \in {"STOPPING", "DOWN", "UNCONFIGURED"}
      BY <2>1 DEF LifeInv, StateHeld, StateAt, Finish, At
    <3>2. op[u] # "cleanup"
      BY <3>1 DEF LifeInv, StateHeld, StateAt
    <3>3. ~(op[u] \in ConfigOps /\ pc[u] = "write")
      BY <2>1, ConstantsAssumption DEF InductiveQuiet, LockHolder
    <3> QED
      BY <3>2, <3>3
  <2>2. CASE o # "stop"
    <3>1. o \in Exclusive
      BY <2>2 DEF Holders, Exclusive
    <3> QED
      BY <1>1, <3>1 DEF InductiveQuiet, OneExclusive, Exclusive, ConfigOps
  <2> QED
    BY <2>1, <2>2
<1>4. StateHeld'
  BY <1>1, <1>2, <1>3 DEF StateHeld, StateAt, At, Holders, ConfigOps
<1>5. StartErr'
  BY <1>1, <1>2 DEF StartErr, Holders, StartErrors
<1> QED
  BY <1>4, <1>5 DEF LifeInv, RestStates

(* A step outside busy_mtx: a call, its interruption or refusal, and the    *)
(* steps of enabling and cancelling a start.                                *)
LEMMA LifeOutside ==
  ASSUME LifeInv, CallType, NEW t \in Threads, NEW o, NEW step,
         UNCHANGED <<blstate, blerr, busy, err>>,
         op' = [op EXCEPT ![t] = o], pc' = [pc EXCEPT ![t] = step],
         o \notin Holders \/ step = "enter",
         StateAt(t)'
  PROVE  LifeInv'
<1>1. /\ op'[t] = o /\ pc'[t] = step
      /\ \A u \in Threads \ {t} : pc'[u] = pc[u] /\ op'[u] = op[u]
  BY DEF CallType
<1>2. StateHeld'
  BY <1>1 DEF LifeInv, StateHeld, StateAt, At
<1>3. StartErr'
  BY <1>1 DEF LifeInv, StartErr, Holders, StartErrors
<1> QED
  BY <1>2, <1>3 DEF LifeInv, RestStates, ReasonKept

(* The write of a configuring call.                                         *)
LEMMA LifeWrite ==
  ASSUME InductiveQuiet, LifeInv, CallType, NEW t \in Threads,
         NEW o \in ConfigOps, Unlock(t, o),
         \/ blstate' \in {blstate, "DOWN"}
         \/ blstate' = "UNCONFIGURED"
  PROVE  LifeInv'
<1>1. /\ op[t] = o /\ pc[t] = "write" /\ op'[t] = "none" /\ pc'[t] = "idle"
      /\ UNCHANGED <<busy, err, blerr>>
      /\ \A u \in Threads \ {t} : pc'[u] = pc[u] /\ op'[u] = op[u]
  BY DEF CallType, Unlock, Return, At, ConfigUnchanged
<1>2. blstate \in {"DOWN", "UNCONFIGURED", "STOPPING"}
  BY <1>1 DEF LifeInv, StateHeld, StateAt, At, ConfigOps
<1>3. blstate = "STOPPING" => busy # None
  BY ConstantsAssumption DEF InductiveQuiet, StopShows
<1>4. \A u \in Threads \ {t} : op[u] \notin Exclusive
  BY <1>1 DEF InductiveQuiet, OneExclusive, Exclusive, ConfigOps
<1>5. StateHeld'
  BY <1>1, <1>2, <1>4 DEF LifeInv, StateHeld, StateAt, At, Exclusive
<1>6. StartErr'
  BY <1>1, <1>4 DEF StartErr, Exclusive
<1>7. ReasonKept' /\ RestStates'
  BY <1>1, <1>2, <1>3 DEF LifeInv, ReasonKept, RestStates
<1> QED
  BY <1>5, <1>6, <1>7 DEF LifeInv

-----------------------------------------------------------------------------
(* A step within a start.                                                   *)
LEMMA LifeStart ==
  ASSUME InductiveQuiet, LifeInv, CallType, NEW t \in Threads, NEW to,
         op[t] = "start", pc[t] \notin {"enter", "set", "arm"},
         to \notin {"enter", "set", "arm"},
         UNCHANGED <<busy, op, blstate, blerr>>,
         pc' = [pc EXCEPT ![t] = to],
         to \in StartErrors => err' # "OK"
  PROVE  LifeInv'
<1>1. op'[t] = "start" /\ pc'[t] = to
  BY DEF CallType
<1>2. StateAt(t)' /\ ReasonKept'
  BY <1>1 DEF LifeInv, StateHeld, StateAt, At, ReasonKept, ConfigOps
<1>3. op[t] \in Holders /\ pc[t] # "enter" /\ to # "enter"
  BY DEF Holders
<1> QED
  BY <1>2, <1>3, LifeHolder

(* Every step of a start.                                                   *)
LEMMA StartLife ==
  ASSUME TypeOK, InductiveQuiet, LifeInv, Production, NEW t \in Threads,
         Start(t)
  PROVE  LifeInv'
<1>0. /\ op[t] = "start" /\ pc[t] \in StartErrors => err # "OK"
      /\ StateAt(t) /\ ReasonKept
  BY DEF LifeInv, StartErr, StateHeld
<1> USE DEF TypeOK, StartUnchanged, NoLinkChange, S, Go, Fail, At, StartErrors
<1>1. CASE StartRefused(t)
  <2>1. /\ UNCHANGED <<blstate, blerr, busy, err>>
        /\ op' = [op EXCEPT ![t] = "none"] /\ pc' = [pc EXCEPT ![t] = "idle"]
    BY <1>1 DEF StartRefused, Refuse, Return
  <2>2. StateAt(t)'
    BY <2>1 DEF StateAt, CallType
  <2> QED
    BY <2>1, <2>2, LifeOutside DEF Holders
<1>2. CASE StartBegins(t)
  <2>1. /\ Take(t, "start", "set") /\ UNCHANGED <<blstate, blerr, op>>
        /\ blstate = "DOWN" /\ op[t] = "start"
    BY <1>2 DEF StartBegins, Take
  <2>2. pc'[t] = "set" /\ op'[t] = "start"
    BY <2>1 DEF CallType, Take
  <2>3. StateAt(t)' /\ ReasonKept'
    BY <1>0, <2>1, <2>2 DEF StateAt, ReasonKept
  <2> QED
    BY <2>1, <2>3, LifeTake DEF Holders
<1>3. CASE StartSet(t)
  <2>1. /\ op[t] = "start" /\ pc[t] = "set" /\ blstate' = "STARTING"
        /\ pc' = [pc EXCEPT ![t] = "fw"] /\ UNCHANGED <<busy, op, blerr>>
    BY <1>3 DEF StartSet
  <2>2. pc'[t] = "fw" /\ op'[t] = "start"
    BY <2>1 DEF CallType
  <2>3. StateAt(t)'
    BY <2>1, <2>2 DEF StateAt
  <2>4. ReasonKept'
    BY <1>0, <2>1 DEF StateAt, ReasonKept
  <2>5. op[t] \in Holders
    BY <2>1 DEF Holders
  <2> QED
    BY <2>1, <2>3, <2>4, <2>5, LifeHolder
<1>4. CASE StartFirmware(t)
  BY <1>4, LifeStart DEF StartFirmware
<1>5. CASE StartMode(t)
  BY <1>5, LifeStart DEF StartMode
<1>6. CASE AnInstall(t)
  BY <1>6, LifeStart DEF AnInstall
<1>7. CASE AnTry(t)
  BY <1>7, LifeStart DEF AnTry
<1>8. CASE AnExchange(t)
  BY <1>8, LifeStart DEF AnExchange
<1>9. CASE AnDone(t)
  BY <1>9, LifeStart DEF AnDone
<1>10. CASE StartAm(t)
  BY <1>10, LifeStart DEF StartAm
<1>11. CASE StartLpDetect(t)
  BY <1>11, LifeStart DEF StartLpDetect
<1>12. CASE StartSerdes(t)
  BY <1>12, LifeStart DEF StartSerdes
<1>13. CASE StartPml(t)
  BY <1>13, LifeStart DEF StartPml
<1>14. CASE StartPmlClear(t)
  BY <1>14, LifeStart DEF StartPmlClear
<1>15. CASE StartFec(t)
  BY <1>15, LifeStart DEF StartFec
<1>16. CASE FmTest(t)
  BY <1>16, LifeStart DEF FmTest
<1>17. CASE FmInstall(t)
  BY <1>17, LifeStart DEF FmInstall
<1>18. CASE FmEnable(t)
  BY <1>18, LifeStart DEF FmEnable
<1>19. CASE FmRetest(t)
  BY <1>19, LifeStart DEF FmRetest
<1>20. CASE FmUndoDisable(t)
  BY <1>0, <1>20, LifeStart DEF FmUndoDisable
<1>21. CASE FmUndoRemove(t)
  BY <1>0, <1>21, LifeStart DEF FmUndoRemove
<1>22. CASE StartFinalCheck(t)
  BY <1>22, LifeStart DEF StartFinalCheck
<1>23. CASE StartFmDisable(t)
  BY <1>0, <1>23, LifeStart DEF StartFmDisable
<1>24. CASE StartFmRemove(t)
  BY <1>0, <1>24, LifeStart DEF StartFmRemove
<1>25. CASE StartPcsDown(t)
  BY <1>0, <1>25, LifeStart DEF StartPcsDown
<1>26. CASE StartSerdesDown(t)
  BY <1>0, <1>26, LifeStart DEF StartSerdesDown
<1>27. CASE StartDone(t)
  <2>1. /\ op[t] = "start" /\ pc[t] = "done" /\ blstate' = "UP" /\ blerr' = "OK"
        /\ pc' = [pc EXCEPT ![t] = "arm"] /\ UNCHANGED <<busy, op>>
    BY <1>27 DEF StartDone
  <2>2. pc'[t] = "arm" /\ op'[t] = "start"
    BY <2>1 DEF CallType
  <2>3. StateAt(t)' /\ ReasonKept'
    BY <2>1, <2>2 DEF StateAt, ReasonKept
  <2>4. op[t] \in Holders
    BY <2>1 DEF Holders
  <2> QED
    BY <2>1, <2>3, <2>4, LifeHolder
<1>28. CASE StartArm(t)
  <2>1. Finish(t, "start", "arm") /\ UNCHANGED <<blstate, blerr>>
    BY <1>28 DEF StartArm
  <2>2. blstate = "UP"
    BY <1>0, <2>1 DEF Finish, StateAt
  <2> QED
    BY <1>0, <2>1, <2>2, LifeFinish DEF Holders, ReasonKept
<1>29. CASE StartFails(t)
  <2>1. Finish(t, "start", "out") /\ blstate' = "ERROR" /\ blerr' = err
    BY <1>29 DEF StartFails
  <2>2. ReasonKept'
    BY <1>0, <2>1 DEF Finish, ReasonKept
  <2> QED
    BY <2>1, <2>2, LifeFinish DEF Holders
<1> QED
  BY <1>1, <1>2, <1>3, <1>4, <1>5, <1>6, <1>7, <1>8, <1>9, <1>10, <1>11,
     <1>12, <1>13, <1>14, <1>15, <1>16, <1>17, <1>18, <1>19, <1>20, <1>21,
     <1>22, <1>23, <1>24, <1>25, <1>26, <1>27, <1>28, <1>29
  DEF Start

-----------------------------------------------------------------------------
(* A step within a stop, a reset or a cleanup.                              *)
LEMMA LifeDown ==
  ASSUME InductiveQuiet, LifeInv, CallType, NEW t \in Threads, NEW to,
         op[t] \in Holders \ {"start"}, pc[t] # "enter",
         to \notin {"enter", "unlock"},
         UNCHANGED <<busy, op, blstate, blerr>>,
         pc' = [pc EXCEPT ![t] = to]
  PROVE  LifeInv'
<1>1. op'[t] = op[t] /\ pc'[t] = to /\ op[t] # "start" /\ op[t] \in Holders
  BY DEF CallType
<1>2. StateAt(t)' /\ ReasonKept'
  BY <1>1 DEF LifeInv, StateHeld, StateAt, At, ReasonKept, Holders
<1> QED
  BY <1>1, <1>2, LifeHolder

(* Every step of a stop, a reset or a cleanup.                              *)
LEMMA DownLife ==
  ASSUME TypeOK, InductiveQuiet, LifeInv, Production, NEW t \in Threads,
         Down(t)
  PROVE  LifeInv'
<1>0. StateAt(t) /\ ReasonKept
  BY DEF LifeInv, StateHeld
<1> USE DEF TypeOK, DownUnchanged, ChipUnchanged, linkVars, Go, Fail, At
<1>1. CASE StopRefused(t)
  <2>1. /\ UNCHANGED <<blstate, blerr, busy, err>>
        /\ op' = [op EXCEPT ![t] = "none"] /\ pc' = [pc EXCEPT ![t] = "idle"]
    BY <1>1 DEF StopRefused, Refuse, Return
  <2>2. StateAt(t)'
    BY <2>1 DEF StateAt, CallType
  <2> QED
    BY <2>1, <2>2, LifeOutside DEF Holders
<1>2. CASE StopBegins(t)
  <2>1. /\ Take(t, "stop", "fmDisable") /\ UNCHANGED <<blerr, op>>
        /\ blstate = "UP" /\ blstate' = "STOPPING" /\ op[t] = "stop"
    BY <1>2 DEF StopBegins, Take, Production
  <2>2. pc'[t] = "fmDisable" /\ op'[t] = "stop"
    BY <2>1 DEF CallType, Take
  <2>3. StateAt(t)' /\ ReasonKept'
    BY <1>0, <2>1, <2>2 DEF StateAt, ReasonKept
  <2> QED
    BY <2>1, <2>3, LifeTake DEF Holders
<1>3. CASE ResetBegins(t)
  <2>1. PICK to \in {"fmDisable", "rec"} : Take(t, "reset", to)
    BY <1>3 DEF ResetBegins
  <2>2. blstate' = "RESETTING" /\ op[t] = "reset" /\ UNCHANGED op
    BY <1>3 DEF ResetBegins, Take
  <2>3. pc'[t] = to /\ op'[t] = "reset"
    BY <2>1, <2>2 DEF CallType, Take
  <2>4. StateAt(t)' /\ ReasonKept'
    BY <2>2, <2>3 DEF StateAt, ReasonKept
  <2> QED
    BY <2>1, <2>4, LifeTake DEF Holders
<1>4. CASE CleanupBegins(t)
  <2>1. PICK to \in {"fmDisable", "serdesDown"} : Take(t, "cleanup", to)
    BY <1>4 DEF CleanupBegins, Production
  <2>2. UNCHANGED <<blstate, blerr, op>> /\ op[t] = "cleanup"
    BY <1>4 DEF CleanupBegins, Take
  <2>3. pc'[t] = to /\ op'[t] = "cleanup"
    BY <2>1, <2>2 DEF CallType, Take
  <2>4. StateAt(t)' /\ ReasonKept'
    BY <1>0, <2>2, <2>3 DEF StateAt, ReasonKept
  <2> QED
    BY <2>1, <2>2, <2>4, LifeTake DEF Holders
<1>5. CASE StopFmDisable(t)
  BY <1>5, LifeDown DEF StopFmDisable, Holders
<1>6. CASE StopFmRemove(t)
  BY <1>6, LifeDown DEF StopFmRemove, Holders
<1>7. CASE OwnFmDisable(t)
  BY <1>7, LifeDown DEF OwnFmDisable, Holders
<1>8. CASE OwnFmRemove(t)
  BY <1>8, LifeDown DEF OwnFmRemove, Holders, Production
<1>9. CASE StopSerdes(t)
  BY <1>9, LifeDown DEF StopSerdes, Holders
<1>10. CASE CleanupSerdes(t)
  BY <1>10, LifeDown DEF CleanupSerdes, Holders
<1>11. CASE RecTest(t) \/ RecCancelled(t)
  BY <1>11, LifeDown DEF RecTest, RecCancelled, AfterRec, Holders
<1>12. CASE RecDelete(t)
  BY <1>12, LifeDown DEF RecDelete, Holders
<1>13. CASE ResetSerdes(t)
  BY <1>13, LifeDown DEF ResetSerdes, Holders
<1>14. CASE DownPcs(t) \/ DownTimer(t)
  BY <1>14, LifeDown DEF DownPcs, DownTimer, Holders
<1>15. CASE StopEnds(t)
  <2>1. /\ Finish(t, "stop", "out") /\ lock = None
        /\ blstate' = (IF err # "OK" THEN "ERROR" ELSE "DOWN") /\ blerr' = err
    BY <1>15 DEF StopEnds, Production
  <2>2. ReasonKept'
    BY <2>1 DEF ReasonKept
  <2> QED
    BY <2>1, <2>2, LifeFinish DEF Holders
<1>16. CASE ResetEnds(t)
  <2>1. ReasonKept'
    BY <1>16 DEF ResetEnds, ReasonKept
  <2> QED
    BY <1>16, <2>1, LifeFinish DEF ResetEnds, Holders
<1>17. CASE CleanupClears(t)
  <2>1. ReasonKept'
    BY <1>17 DEF CleanupClears, ReasonKept
  <2> QED
    BY <1>17, <2>1, LifeFinish DEF CleanupClears, Holders
<1>18. CASE CleanupLeaves(t)
  <2>1. UNCHANGED <<blstate, blerr>> /\ op[t] = "cleanup"
    BY <1>18 DEF CleanupLeaves, Finish
  <2>2. blstate = "ERROR" /\ ReasonKept'
    BY <1>0, <2>1 DEF StateAt, ReasonKept
  <2>3. PICK from \in {"out", "unlock"} : Finish(t, "cleanup", from)
    BY <1>18 DEF CleanupLeaves
  <2> QED
    BY <2>1, <2>2, <2>3, LifeFinish DEF Holders
<1> QED
  BY <1>1, <1>2, <1>3, <1>4, <1>5, <1>6, <1>7, <1>8, <1>9, <1>10,
     <1>11, <1>12, <1>13, <1>14, <1>15, <1>16, <1>17, <1>18
  DEF Down, Stop, Reset, Cleanup, Shared

-----------------------------------------------------------------------------
(* Every step of the calls that take only the data lock, and of a client    *)
(* that calls or is interrupted.                                            *)
LEMMA ConfigureLife ==
  ASSUME TypeOK, InductiveQuiet, LifeInv, Production, NEW t \in Threads,
         Configure(t)
  PROVE  LifeInv'
<1> USE DEF TypeOK, linkVars
<1>1. CASE ConfigCheck(t)
  <2>1. PICK o \in ConfigOps :
          /\ op[t] = o /\ pc[t] = "enter"
          /\ UNCHANGED <<blstate, blerr, busy, err>>
          /\ \/ /\ blstate \in ConfigStates(o)
                /\ pc' = [pc EXCEPT ![t] = "write"] /\ UNCHANGED op
             \/ Return(t)
    BY <1>1 DEF ConfigCheck, ConfigUnchanged, At
  <2>2. CASE Return(t)
    <3>1. StateAt(t)'
      BY <2>2 DEF Return, StateAt, CallType, At
    <3> QED
      BY <2>1, <2>2, <3>1, LifeOutside DEF Return, Holders
  <2>3. CASE /\ blstate \in ConfigStates(o)
             /\ pc' = [pc EXCEPT ![t] = "write"] /\ UNCHANGED op
    <3>1. pc'[t] = "write" /\ op'[t] = o /\ op' = [op EXCEPT ![t] = o]
      BY <2>1, <2>3 DEF CallType
    <3>2. StateAt(t)'
      BY <2>1, <2>3, <3>1 DEF StateAt, At, ConfigOps, ConfigStates
    <3>3. o \notin Holders
      BY DEF ConfigOps, Holders
    <3> QED
      BY <2>1, <2>3, <3>1, <3>2, <3>3, LifeOutside
  <2> QED
    BY <2>1, <2>2, <2>3
<1>2. CASE ConfigWrite(t)
  BY <1>2, LifeWrite DEF ConfigWrite, ConfigOps
<1>3. CASE MediaConfigWrite(t)
  BY <1>3, LifeWrite DEF MediaConfigWrite, ConfigOps
<1>4. CASE MediaUnconfigWrite(t)
  BY <1>4, LifeWrite DEF MediaUnconfigWrite, ConfigOps
<1>5. CASE EnableStart(t) \/ CancelTimer(t)
  <2>1. UNCHANGED <<blstate, blerr, busy, err>> /\ Return(t)
    BY <1>5 DEF EnableStart, CancelTimer
  <2>2. StateAt(t)'
    BY <2>1 DEF Return, StateAt, CallType, At
  <2> QED
    BY <2>1, <2>2, LifeOutside DEF Return, Holders
<1>6. CASE CancelStart(t)
  <2>1. /\ op[t] = "cancel" /\ op' = [op EXCEPT ![t] = "cancel"]
        /\ pc' = [pc EXCEPT ![t] = "timer"]
        /\ UNCHANGED <<blstate, blerr, busy, err>>
    BY <1>6 DEF CancelStart, Go, At, CallType
  <2>2. StateAt(t)'
    BY <2>1 DEF StateAt, CallType, At
  <2> QED
    BY <2>1, <2>2, LifeOutside DEF Holders
<1> QED
  BY <1>1, <1>2, <1>3, <1>4, <1>5, <1>6 DEF Configure

LEMMA CallLife ==
  ASSUME TypeOK, InductiveQuiet, LifeInv, Production, NEW t \in Threads,
         Call(t) \/ Interrupted(t)
  PROVE  LifeInv'
<1> USE DEF TypeOK, linkVars
<1>1. CASE Call(t)
  <2>1. PICK o \in Ops :
          /\ MayCall(t, o) /\ op' = [op EXCEPT ![t] = o]
          /\ pc' = [pc EXCEPT ![t] = "enter"]
          /\ UNCHANGED <<blstate, blerr, busy, err>>
    BY <1>1 DEF Call
  <2>2. StateAt(t)'
    BY <2>1 DEF StateAt, CallType, At, MayCall, Production
  <2> QED
    BY <2>1, <2>2, LifeOutside
<1>2. CASE Interrupted(t)
  <2>1. UNCHANGED <<blstate, blerr, busy, err>> /\ Return(t)
    BY <1>2 DEF Interrupted
  <2>2. StateAt(t)'
    BY <2>1 DEF Return, StateAt, CallType, At
  <2> QED
    BY <2>1, <2>2, LifeOutside DEF Return, Holders
<1> QED
  BY <1>1, <1>2

-----------------------------------------------------------------------------
(* What the steps of a port in production keep.                             *)
LEMMA LifeStep ==
  ASSUME TypeOK, InductiveQuiet, LifeInv, Production, [Next]_vars
  PROVE  LifeInv'
<1>1. ASSUME NEW t \in Threads, Call(t) \/ Interrupted(t) \/ Caller(t)
      PROVE  LifeInv'
  BY <1>1, CallLife, StartLife, DownLife, ConfigureLife DEF Caller
<1>2. CASE Hardware \/ Handler \/ RecoveryTimer \/ FecTimerFires \/ FecWork
  BY <1>2, AsyncLeaves, LifeKept DEF Production, linkVars, callVars
<1>3. CASE UNCHANGED vars
  BY <1>3, LifeKept DEF vars, linkVars, callVars
<1> QED
  BY <1>1, <1>2, <1>3 DEF Next

(* It holds together with the types and the invariant of QuietInv.          *)
THEOREM LifeHolds == Production /\ Spec => [](TypeOK /\ InductiveQuiet /\ LifeInv)
<1> SUFFICES ASSUME Production
             PROVE  Spec => [](TypeOK /\ InductiveQuiet /\ LifeInv)
  OBVIOUS
<1>1. Spec => []TypeOK /\ []InductiveQuiet
  BY TypeCorrect, QuietIsInductive DEF Production
<1>2. Init => LifeInv
  BY InitLife
<1>3. TypeOK /\ InductiveQuiet /\ LifeInv /\ [Next]_vars => LifeInv'
  BY LifeStep
<1> QED
  BY <1>1, <1>2, <1>3, PTL DEF Spec

(* A client that finds the port in error finds the error too, and a port in *)
(* any other state between two operations has none left over.               *)
THEOREM ErrorHasItsReason == Production /\ Spec => []ErrorHasReason
<1>1. LifeInv => ErrorHasReason
  <2> SUFFICES ASSUME LifeInv, busy = None
               PROVE  (blstate = "ERROR") = (blerr # "OK")
    BY DEF ErrorHasReason, Idle
  <2>1. blstate # "RESETTING"
    BY DEF LifeInv, RestStates
  <2>2. blstate = "ERROR" <=> blerr # "OK"
    BY <2>1 DEF LifeInv, ReasonKept
  <2> QED
    BY <2>2, Zenon
<1> QED
  BY <1>1, LifeHolds, PTL

-----------------------------------------------------------------------------
(* What a thread's step leaves alone: the steps of every other thread, and, *)
(* when it does not hold busy_mtx, everything but the state of the link.    *)
LEMMA OthersStay ==
  ASSUME CallType, NEW t \in Threads,
         Call(t) \/ Interrupted(t) \/ Caller(t)
  PROVE  \A u \in Threads \ {t} : op'[u] = op[u] /\ pc'[u] = pc[u]
<1> DEFINE Stay == \A u \in Threads \ {t} : op'[u] = op[u] /\ pc'[u] = pc[u]
<1>1. /\ \A o, from, to : Go(t, o, from, to) => Stay
      /\ \A o, from, to, e : Fail(t, o, from, to, e) => Stay
      /\ \A o, to : Take(t, o, to) => Stay
      /\ \A o : Refuse(t, o) => Stay
      /\ \A o, from : Finish(t, o, from) => Stay
      /\ \A o : Unlock(t, o) => Stay
      /\ Return(t) => Stay
  BY DEF CallType, Go, Fail, Take, Refuse, Finish, Unlock, Return
<1>2. Call(t) \/ Interrupted(t) => Stay
  BY <1>1 DEF CallType, Call, Interrupted
<1>3. Configure(t) => Stay
  <2>1. ConfigCheck(t) => Stay
    BY <1>1 DEF CallType, ConfigCheck
  <2> HIDE DEF Stay
  <2> QED
    BY <1>1, <2>1 DEF Configure, ConfigWrite, MediaConfigWrite,
       MediaUnconfigWrite, EnableStart, CancelStart, CancelTimer
<1> HIDE DEF Stay
<1>4. Down(t) => Stay
  <2>1. Stop(t) => Stay
    BY <1>1 DEF Stop, StopRefused, StopBegins, StopFmDisable, StopFmRemove,
       StopSerdes, StopEnds
  <2>2. Reset(t) \/ Cleanup(t) => Stay
    BY <1>1 DEF Reset, Cleanup, ResetBegins, ResetEnds, CleanupBegins,
       CleanupSerdes, CleanupClears, CleanupLeaves
  <2>3. Shared(t) => Stay
    BY <1>1 DEF Shared, OwnFmDisable, OwnFmRemove, RecTest, RecDelete,
       RecCancelled, ResetSerdes, DownPcs, DownTimer
  <2> QED
    BY <2>1, <2>2, <2>3 DEF Down
<1>5. Start(t) => Stay
  <2>1. StartRefused(t) \/ StartBegins(t) \/ StartSet(t) \/ StartFirmware(t)
          \/ StartMode(t) \/ AnInstall(t) \/ AnTry(t) => Stay
    BY <1>1 DEF StartRefused, StartBegins, StartSet, StartFirmware, StartMode,
       AnInstall, AnTry
  <2>2. AnExchange(t) \/ AnDone(t) \/ StartAm(t) \/ StartLpDetect(t)
          \/ StartSerdes(t) \/ StartPml(t) \/ StartPmlClear(t) => Stay
    BY <1>1 DEF AnExchange, AnDone, StartAm, StartLpDetect, StartSerdes,
       StartPml, StartPmlClear
  <2>3. StartFec(t) \/ FmTest(t) \/ FmInstall(t) \/ FmEnable(t) \/ FmRetest(t)
          \/ FmUndoDisable(t) \/ FmUndoRemove(t) => Stay
    BY <1>1 DEF StartFec, FmTest, FmInstall, FmEnable, FmRetest,
       FmUndoDisable, FmUndoRemove
  <2>4. StartFinalCheck(t) \/ StartDone(t) \/ StartArm(t) \/ StartFmDisable(t)
          \/ StartFmRemove(t) \/ StartPcsDown(t) \/ StartSerdesDown(t)
          \/ StartFails(t) => Stay
    BY <1>1 DEF StartFinalCheck, StartDone, StartArm, StartFmDisable,
       StartFmRemove, StartPcsDown, StartSerdesDown, StartFails
  <2> QED
    BY <2>1, <2>2, <2>3, <2>4 DEF Start
<1> QED
  BY <1>2, <1>3, <1>4, <1>5 DEF Caller, Stay

LEMMA BystanderStep ==
  ASSUME InductiveQuiet, NEW t \in Threads, busy # t,
         Call(t) \/ Interrupted(t) \/ Caller(t)
  PROVE  UNCHANGED <<chipVars, intrVars, alerted, hdlrVars, recVars, fecQueued,
                     fpc, err>>
<1> DEFINE Alone == UNCHANGED <<chipVars, intrVars, alerted, hdlrVars, recVars,
                                fecQueued, fpc, err>>
<1>1. \A o \in Holders : \A from : At(t, o, from) => from = "enter"
  BY DEF InductiveQuiet, BusyHolder, At
<1>2. Call(t) \/ Interrupted(t) => Alone
  BY DEF Call, Interrupted, fecVars
<1>3. Configure(t) => Alone
  BY DEF Configure, ConfigCheck, ConfigWrite, MediaConfigWrite,
     MediaUnconfigWrite, EnableStart, CancelStart, CancelTimer,
     ConfigUnchanged, Unlock, fecVars, Go
<1>4. Down(t) => Alone
  <2>1. Stop(t) => Alone
    BY <1>1 DEF Stop, StopRefused, StopBegins, StopFmDisable, StopFmRemove,
       StopSerdes, StopEnds, Go, Finish, Holders, Refuse, Take, fecVars
  <2>2. Reset(t) \/ Cleanup(t) => Alone
    BY <1>1 DEF Reset, Cleanup, ResetBegins, ResetEnds, CleanupBegins, Holders,
       CleanupSerdes, CleanupClears, CleanupLeaves, Go, Finish, Take, fecVars
  <2>3. ~Shared(t)
    BY <1>1 DEF Shared, OwnFmDisable, OwnFmRemove, RecTest, RecDelete, Holders,
       RecCancelled, ResetSerdes, DownPcs, DownTimer, Go
  <2> QED
    BY <2>1, <2>2, <2>3 DEF Down
<1>5. Start(t) => Alone
  <2> USE DEF S, Go, Fail, Finish
  <2>0. \A from : At(t, "start", from) => from = "enter"
    BY <1>1 DEF Holders
  <2>1. StartRefused(t) \/ StartBegins(t) => Alone
    BY DEF StartRefused, StartBegins, Refuse, Take, NoLinkChange,
       StartUnchanged, fecVars
  <2>2. ~(StartSet(t) \/ StartFirmware(t) \/ StartMode(t) \/ AnInstall(t)
          \/ AnTry(t) \/ AnExchange(t) \/ AnDone(t))
    BY <2>0 DEF StartSet, StartFirmware, StartMode, AnInstall, AnTry,
       AnExchange, AnDone
  <2>3. ~(StartAm(t) \/ StartLpDetect(t) \/ StartSerdes(t) \/ StartPml(t)
          \/ StartPmlClear(t) \/ StartFec(t) \/ FmTest(t))
    BY <2>0 DEF StartAm, StartLpDetect, StartSerdes, StartPml, StartPmlClear,
       StartFec, FmTest
  <2>4. ~(FmInstall(t) \/ FmEnable(t) \/ FmRetest(t) \/ FmUndoDisable(t)
          \/ FmUndoRemove(t) \/ StartFinalCheck(t) \/ StartDone(t))
    BY <2>0 DEF FmInstall, FmEnable, FmRetest, FmUndoDisable, FmUndoRemove,
       StartFinalCheck, StartDone
  <2>5. ~(StartArm(t) \/ StartFmDisable(t) \/ StartFmRemove(t)
          \/ StartPcsDown(t) \/ StartSerdesDown(t) \/ StartFails(t))
    BY <2>0 DEF StartArm, StartFmDisable, StartFmRemove, StartPcsDown,
       StartSerdesDown, StartFails
  <2> QED
    BY <2>1, <2>2, <2>3, <2>4, <2>5 DEF Start
<1> QED
  BY <1>2, <1>3, <1>4, <1>5 DEF Caller

-----------------------------------------------------------------------------
(* A start that is about to report the link up has registered the handler.  *)
StartWatched ==
  \A t \in Threads :
    op[t] = "start" /\ pc[t] \in {"fmEnable", "fmRetest", "up", "done"}
      => intrFlgs # {}

LEMMA StartWatchedStep ==
  ASSUME TypeOK, InductiveQuiet, StartWatched, Production, [Next]_vars
  PROVE  StartWatched'
<1>1. ASSUME NEW t \in Threads, Call(t) \/ Interrupted(t) \/ Caller(t)
      PROVE  StartWatched'
  <2>1. \A u \in Threads \ {t} : op'[u] = op[u] /\ pc'[u] = pc[u]
    BY <1>1, OthersStay DEF TypeOK
  <2>2. ASSUME NEW u \in Threads \ {t}, op[u] = "start",
               pc[u] \in {"fmEnable", "fmRetest", "up", "done"}
        PROVE  intrFlgs' # {}
    <3>1. busy = u
      BY <2>2 DEF InductiveQuiet, BusyHolder, Holders
    <3>2. UNCHANGED intrFlgs
      BY <1>1, <3>1, BystanderStep DEF intrVars
    <3> QED
      BY <2>2, <3>2 DEF StartWatched
  <2>3. ASSUME op'[t] = "start",
               pc'[t] \in {"fmEnable", "fmRetest", "up", "done"}
        PROVE  intrFlgs' # {}
    <3> USE DEF TypeOK, CallType, S, Go, Fail, At
    <3>1. ~Call(t) /\ ~Interrupted(t)
      BY <2>3 DEF Call, Interrupted, Return
    <3>2. ~Configure(t)
      BY <2>3 DEF Configure, ConfigCheck, ConfigWrite, MediaConfigWrite,
         MediaUnconfigWrite, EnableStart, CancelStart, CancelTimer, Unlock,
         Return, ConfigOps
    <3>3. ~Down(t)
      <4>1. ~Stop(t)
        BY <2>3 DEF Stop, StopRefused, StopBegins, StopFmDisable,
           StopFmRemove, StopSerdes, StopEnds, Refuse, Take, Finish, Return
      <4>2. ~Reset(t) /\ ~Cleanup(t)
        BY <2>3 DEF Reset, Cleanup, ResetBegins, ResetEnds, CleanupBegins,
           CleanupSerdes, CleanupClears, CleanupLeaves, Take, Finish, Return
      <4>3. ~Shared(t)
        BY <2>3 DEF Shared, OwnFmDisable, OwnFmRemove, RecTest, RecDelete,
           RecCancelled, ResetSerdes, DownPcs, DownTimer
      <4> QED
        BY <4>1, <4>2, <4>3 DEF Down
    <3>4. Start(t) => FmInstall(t) \/ FmEnable(t) \/ FmRetest(t)
                        \/ StartFinalCheck(t)
      <4>1. ~(StartRefused(t) \/ StartBegins(t) \/ StartSet(t)
              \/ StartFirmware(t) \/ StartMode(t) \/ AnInstall(t) \/ AnTry(t))
        BY <2>3 DEF StartRefused, StartBegins, StartSet, StartFirmware,
           StartMode, AnInstall, AnTry, Refuse, Return, Take
      <4>2. ~(AnExchange(t) \/ AnDone(t) \/ StartAm(t) \/ StartLpDetect(t)
              \/ StartSerdes(t) \/ StartPml(t) \/ StartPmlClear(t))
        BY <2>3 DEF AnExchange, AnDone, StartAm, StartLpDetect, StartSerdes,
           StartPml, StartPmlClear
      <4>3. ~(StartFec(t) \/ FmTest(t) \/ FmUndoDisable(t)
              \/ FmUndoRemove(t) \/ StartDone(t) \/ StartArm(t)) 
        BY <2>3 DEF StartFec, FmTest, FmUndoDisable, FmUndoRemove, StartDone,
           StartArm, Finish, Return
      <4>4. ~(StartFmDisable(t) \/ StartFmRemove(t) \/ StartPcsDown(t)
              \/ StartSerdesDown(t) \/ StartFails(t))
        BY <2>3 DEF StartFmDisable, StartFmRemove, StartPcsDown,
           StartSerdesDown, StartFails, Finish, Return
      <4> QED
        BY <4>1, <4>2, <4>3, <4>4 DEF Start
    <3>5. ASSUME FmInstall(t) PROVE intrFlgs' # {}
      BY <2>3, <3>5 DEF FmInstall, FaultFlags
    <3>6. ASSUME FmEnable(t) \/ FmRetest(t) \/ StartFinalCheck(t)
          PROVE  intrFlgs' # {}
      BY <2>3, <3>6 DEF StartWatched, FmEnable, FmRetest, StartFinalCheck,
         intrVars
    <3> QED
      BY <1>1, <3>1, <3>2, <3>3, <3>4, <3>5, <3>6 DEF Caller
  <2> QED
    BY <2>1, <2>2, <2>3 DEF StartWatched
<1>2. CASE Hardware \/ Handler \/ RecoveryTimer \/ FecTimerFires \/ FecWork
  BY <1>2, AsyncLeaves DEF Production, StartWatched, callVars
<1>3. CASE UNCHANGED vars
  BY <1>3 DEF vars, StartWatched, callVars, intrVars
<1> QED
  BY <1>1, <1>2, <1>3 DEF Next

-----------------------------------------------------------------------------
(* The steps of LinkLifecycle, told in BaseLink's variables.                *)
Refines == Lifecycle!Next \/ UNCHANGED Lifecycle!vars

LEMMA MapStutter ==
  ASSUME UNCHANGED <<blstate, blerr, busy, intrFlgs>>,
         busy # None => op'[busy] = op[busy]
  PROVE  Refines
<1> QED
  BY DEF Refines, Lifecycle!vars

LEMMA MapConfigure ==
  ASSUME UNCHANGED <<blerr, busy, intrFlgs>>,
         busy # None => op'[busy] = op[busy] /\ op[busy] = "stop",
         \/ /\ blstate \in {"DOWN", "UNCONFIGURED"}
            /\ blstate' \in {"DOWN", "UNCONFIGURED"}
         \/ blstate = "STOPPING" /\ busy # None /\ blstate' = "UNCONFIGURED"
  PROVE  Refines
BY DEF Refines, Lifecycle!Next, Lifecycle!Configure, Lifecycle!Rest,
       Lifecycle!ConfigureStopping

LEMMA MapBegin ==
  ASSUME NEW t, busy = None, busy' = t, t # None,
         UNCHANGED <<blerr, intrFlgs>>,
         \/ op'[t] = "start" /\ blstate = "DOWN" /\ UNCHANGED blstate
         \/ op'[t] = "stop" /\ blstate = "UP" /\ blstate' = "STOPPING"
         \/ op'[t] = "reset" /\ blstate' = "RESETTING"
         \/ op'[t] = "cleanup" /\ blstate = "ERROR" /\ UNCHANGED blstate
  PROVE  Refines
BY DEF Refines, Lifecycle!Next, Lifecycle!Begin

LEMMA MapStarting ==
  ASSUME busy # None, UNCHANGED busy, op[busy] = "start", op'[busy] = "start",
         blstate = "STARTING", UNCHANGED <<blstate, blerr>>
  PROVE  Refines
<1>1. (intrFlgs' # {}) \in BOOLEAN
  BY Zenon
<1> QED
  BY <1>1 DEF Refines, Lifecycle!Next, Lifecycle!Starting

LEMMA MapStarted ==
  ASSUME busy # None, UNCHANGED busy, op[busy] = "start", op'[busy] = "start",
         UNCHANGED intrFlgs,
         \/ blstate = "DOWN" /\ blstate' = "STARTING" /\ UNCHANGED blerr
         \/ /\ blstate = "STARTING" /\ intrFlgs # {}
            /\ blstate' = "UP" /\ blerr' = "OK"
  PROVE  Refines
BY DEF Refines, Lifecycle!Next, Lifecycle!Starting

LEMMA MapDown ==
  ASSUME busy # None, UNCHANGED busy, op[busy] \in {"stop", "reset", "cleanup"},
         op'[busy] = op[busy], UNCHANGED <<blstate, blerr>>,
         intrFlgs' = {} \/ UNCHANGED intrFlgs
  PROVE  Refines
<1>1. CASE UNCHANGED intrFlgs
  BY <1>1, MapStutter
<1>2. CASE intrFlgs' = {} /\ intrFlgs # {}
  BY <1>2 DEF Refines, Lifecycle!Next, Lifecycle!Unwatch
<1> QED
  BY <1>1, <1>2

LEMMA MapEnds ==
  ASSUME busy # None, busy' = None, UNCHANGED intrFlgs,
         \/ op[busy] = "start" /\ blstate = "UP" /\ UNCHANGED <<blstate, blerr>>
         \/ /\ op[busy] = "start" /\ blstate = "STARTING" /\ blstate' = "ERROR"
            /\ blerr' \in Errors \ {"OK"}
         \/ /\ op[busy] = "stop" /\ intrFlgs = {}
            /\ blstate' = "DOWN" /\ blerr' = "OK"
         \/ /\ op[busy] = "stop" /\ blstate' = "ERROR"
            /\ blerr' \in Errors \ {"OK"}
         \/ /\ op[busy] = "reset" /\ intrFlgs = {}
            /\ blstate' = "UNCONFIGURED" /\ blerr' = "OK"
         \/ /\ op[busy] = "cleanup" /\ intrFlgs = {}
            /\ blerr \in RecoverableErrors
            /\ blstate' = "DOWN" /\ blerr' = "OK"
         \/ /\ op[busy] = "cleanup" /\ intrFlgs = {}
            /\ blerr \notin RecoverableErrors /\ UNCHANGED <<blstate, blerr>>
  PROVE  Refines
<1> USE DEF Refines, Lifecycle!Next
<1>1. CASE op[busy] = "start"
  BY <1>1 DEF Lifecycle!StartEnds
<1>2. CASE op[busy] = "stop"
  BY <1>2 DEF Lifecycle!StopEnds
<1>3. CASE op[busy] = "reset"
  BY <1>3 DEF Lifecycle!ResetEnds
<1>4. CASE op[busy] = "cleanup"
  BY <1>4 DEF Lifecycle!CleanupEnds
<1> QED
  BY <1>1, <1>2, <1>3, <1>4

-----------------------------------------------------------------------------
(* Every step of BaseLink is one of these or a stutter.                     *)
LEMMA StartRefines ==
  ASSUME TypeOK, InductiveQuiet, LifeInv, StartWatched, Production,
         NEW t \in Threads, Start(t)
  PROVE  Refines
<1>0. /\ t # None /\ StateAt(t)
      /\ op[t] = "start" /\ pc[t] # "enter" => busy = t
      /\ pc[t] = "enter" => busy # t
      /\ err \in Errors
  BY ConstantsAssumption
  DEF InductiveQuiet, BusyHolder, Holders, LifeInv, StateHeld, TypeOK, CallType
<1> USE DEF StartUnchanged, NoLinkChange, intrVars, S, At
<1>1. CASE StartRefused(t)
  <2>1. UNCHANGED <<blstate, blerr, busy, intrFlgs>> /\ busy = None
    BY <1>1 DEF StartRefused, Refuse
  <2> QED
    BY <2>1, MapStutter
<1>2. CASE StartBegins(t)
  <2>1. busy = None /\ busy' = t /\ op'[t] = "start" /\ blstate = "DOWN"
        /\ UNCHANGED <<blstate, blerr, intrFlgs>>
    BY <1>2 DEF StartBegins, Take
  <2> QED
    BY <1>0, <2>1, MapBegin
<1>3. CASE StartSet(t)
  <2>1. /\ op[t] = "start" /\ pc[t] = "set" /\ UNCHANGED <<busy, op>>
        /\ blstate' = "STARTING" /\ UNCHANGED <<blerr, intrFlgs>>
    BY <1>3 DEF StartSet, Go
  <2>2. blstate = "DOWN" /\ busy = t
    BY <1>0, <2>1 DEF StateAt
  <2> QED
    BY <1>0, <2>1, <2>2, MapStarted
<1>4. CASE StartDone(t)
  <2>1. /\ op[t] = "start" /\ pc[t] = "done" /\ UNCHANGED <<busy, op>>
        /\ blstate' = "UP" /\ blerr' = "OK" /\ UNCHANGED intrFlgs
    BY <1>4 DEF StartDone, Go
  <2>2. blstate = "STARTING" /\ busy = t /\ intrFlgs # {}
    BY <1>0, <2>1 DEF StateAt, StartWatched
  <2> QED
    BY <1>0, <2>1, <2>2, MapStarted
<1>5. CASE StartArm(t)
  <2>1. /\ op[t] = "start" /\ pc[t] = "arm" /\ busy' = None
        /\ UNCHANGED <<blstate, blerr, intrFlgs>>
    BY <1>5 DEF StartArm, Finish
  <2>2. blstate = "UP" /\ busy = t
    BY <1>0, <2>1 DEF StateAt
  <2> QED
    BY <1>0, <2>1, <2>2, MapEnds
<1>6. CASE StartFails(t)
  <2>1. /\ op[t] = "start" /\ pc[t] = "out" /\ busy' = None
        /\ blstate' = "ERROR" /\ blerr' = err /\ UNCHANGED intrFlgs
    BY <1>6 DEF StartFails, Finish
  <2>2. err # "OK"
    BY <2>1 DEF LifeInv, StartErr, StartErrors
  <2>3. blstate = "STARTING" /\ busy = t
    BY <1>0, <2>1 DEF StateAt
  <2> QED
    BY <1>0, <2>1, <2>2, <2>3, MapEnds
<1>7. ASSUME op[t] = "start", pc[t] \notin {"enter", "set", "arm"},
             UNCHANGED <<busy, op, blstate, blerr>>
      PROVE  Refines
  <2>1. blstate = "STARTING" /\ busy = t
    BY <1>0, <1>7 DEF StateAt
  <2> QED
    BY <1>0, <1>7, <2>1, MapStarting
<1>8. CASE StartFirmware(t) \/ StartMode(t) \/ AnInstall(t) \/ AnTry(t)
             \/ AnExchange(t) \/ AnDone(t)
  BY <1>7, <1>8 DEF StartFirmware, StartMode, AnInstall, AnTry, AnExchange,
     AnDone, Go, Fail
<1>9. CASE StartAm(t) \/ StartLpDetect(t) \/ StartSerdes(t) \/ StartPml(t)
             \/ StartPmlClear(t) \/ StartFec(t)
  BY <1>7, <1>9 DEF StartAm, StartLpDetect, StartSerdes, StartPml,
     StartPmlClear, StartFec, Go, Fail
<1>10. CASE FmTest(t) \/ FmInstall(t) \/ FmEnable(t) \/ FmRetest(t)
             \/ FmUndoDisable(t) \/ FmUndoRemove(t)
  BY <1>7, <1>10 DEF FmTest, FmInstall, FmEnable, FmRetest, FmUndoDisable,
     FmUndoRemove, Go, Fail
<1>11. CASE StartFinalCheck(t) \/ StartFmDisable(t) \/ StartFmRemove(t)
             \/ StartPcsDown(t) \/ StartSerdesDown(t)
  BY <1>7, <1>11 DEF StartFinalCheck, StartFmDisable, StartFmRemove,
     StartPcsDown, StartSerdesDown, Go, Fail
<1> QED
  BY <1>1, <1>2, <1>3, <1>4, <1>5, <1>6, <1>8, <1>9, <1>10, <1>11 DEF Start

LEMMA DownRefines ==
  ASSUME TypeOK, InductiveQuiet, LifeInv, Production, NEW t \in Threads, Down(t)
  PROVE  Refines
<1>0. /\ t # None /\ StateAt(t)
      /\ op[t] \in Holders /\ pc[t] # "enter" => busy = t
      /\ err \in Errors
      /\ Unwatched(t) => intrFlgs = {}
  BY ConstantsAssumption
  DEF InductiveQuiet, BusyHolder, LifeInv, StateHeld, TypeOK, CallType,
      UnwatchedQuiet
<1> USE DEF DownUnchanged, ChipUnchanged, linkVars, intrVars, At
<1>1. CASE StopRefused(t)
  <2>1. UNCHANGED <<blstate, blerr, busy, intrFlgs>> /\ busy = None
    BY <1>1 DEF StopRefused, Refuse
  <2> QED
    BY <2>1, MapStutter
<1>2. CASE StopBegins(t) \/ ResetBegins(t) \/ CleanupBegins(t)
  <2>1. busy = None /\ busy' = t /\ UNCHANGED <<op, blerr, intrFlgs>>
    BY <1>2 DEF StopBegins, ResetBegins, CleanupBegins, Take
  <2>2. \/ op[t] = "stop" /\ blstate = "UP" /\ blstate' = "STOPPING"
        \/ op[t] = "reset" /\ blstate' = "RESETTING"
        \/ op[t] = "cleanup" /\ UNCHANGED blstate
    BY <1>2 DEF StopBegins, ResetBegins, CleanupBegins, Take, Production
  <2>3. op[t] = "cleanup" => blstate = "ERROR"
    BY <1>0 DEF StateAt
  <2> QED
    BY <1>0, <2>1, <2>2, <2>3, MapBegin
<1>3. ASSUME op[t] \in {"stop", "reset", "cleanup"}, pc[t] # "enter",
             UNCHANGED <<busy, op, blstate, blerr>>,
             intrFlgs' = {} \/ UNCHANGED intrFlgs
      PROVE  Refines
  BY <1>0, <1>3, MapDown DEF Holders
<1>4. CASE StopFmDisable(t) \/ StopFmRemove(t) \/ OwnFmDisable(t)
             \/ OwnFmRemove(t)
  BY <1>3, <1>4 DEF StopFmDisable, StopFmRemove, OwnFmDisable, OwnFmRemove,
     RemoveHandler, Go, Fail
<1>5. CASE RecTest(t) \/ RecDelete(t) \/ RecCancelled(t) \/ DownTimer(t)
  BY <1>3, <1>5 DEF RecTest, RecDelete, RecCancelled, DownTimer, Go
<1>6. CASE StopSerdes(t) \/ CleanupSerdes(t) \/ ResetSerdes(t) \/ DownPcs(t)
  BY <1>3, <1>6 DEF StopSerdes, CleanupSerdes, ResetSerdes, DownPcs,
     PmlLinkDown, Go, Fail
<1>7. CASE StopEnds(t)
  <2>1. /\ op[t] = "stop" /\ pc[t] = "out" /\ busy' = None
        /\ blstate' = (IF err # "OK" THEN "ERROR" ELSE "DOWN") /\ blerr' = err
        /\ UNCHANGED intrFlgs
    BY <1>7 DEF StopEnds, Finish, Production
  <2>2. busy = t /\ (err = "OK" => intrFlgs = {})
    BY <1>0, <2>1 DEF Holders, Unwatched
  <2> QED
    BY <1>0, <2>1, <2>2, MapEnds
<1>8. CASE ResetEnds(t)
  <2>1. /\ op[t] = "reset" /\ pc[t] = "out" /\ busy' = None
        /\ blstate' = "UNCONFIGURED" /\ blerr' = "OK" /\ UNCHANGED intrFlgs
    BY <1>8 DEF ResetEnds, Finish
  <2>2. busy = t /\ intrFlgs = {}
    BY <1>0, <2>1 DEF Holders, Unwatched, ResetSteps
  <2> QED
    BY <1>0, <2>1, <2>2, MapEnds
<1>9. CASE CleanupClears(t)
  <2>1. /\ op[t] = "cleanup" /\ pc[t] = "out" /\ busy' = None
        /\ blerr \in RecoverableErrors
        /\ blstate' = "DOWN" /\ blerr' = "OK" /\ UNCHANGED intrFlgs
    BY <1>9 DEF CleanupClears, Finish
  <2>2. busy = t /\ intrFlgs = {}
    BY <1>0, <2>1 DEF Holders, Unwatched
  <2> QED
    BY <1>0, <2>1, <2>2, MapEnds
<1>10. CASE CleanupLeaves(t)
  <2>1. /\ op[t] = "cleanup" /\ pc[t] \in {"out", "unlock"} /\ busy' = None
        /\ UNCHANGED <<blstate, blerr, intrFlgs>>
    BY <1>10 DEF CleanupLeaves, Finish
  <2>2. busy = t /\ intrFlgs = {} /\ blstate = "ERROR"
    BY <1>0, <2>1 DEF Holders, Unwatched, StateAt
  <2>3. blerr \notin RecoverableErrors
    BY <1>0, <1>10, <2>1, <2>2 DEF CleanupLeaves, Finish, StateAt
  <2> QED
    BY <1>0, <2>1, <2>2, <2>3, MapEnds
<1> QED
  BY <1>1, <1>2, <1>4, <1>5, <1>6, <1>7, <1>8, <1>9, <1>10
  DEF Down, Stop, Reset, Cleanup, Shared

LEMMA OutsideRefines ==
  ASSUME TypeOK, InductiveQuiet, LifeInv, Production, NEW t \in Threads,
         Call(t) \/ Interrupted(t) \/ Configure(t)
  PROVE  Refines
<1>0. t # None /\ StateAt(t)
  BY ConstantsAssumption DEF LifeInv, StateHeld
<1>1. op[t] \notin Holders \/ pc[t] = "enter"
  BY DEF Call, Interrupted, Configure, ConfigCheck, ConfigWrite,
     MediaConfigWrite, MediaUnconfigWrite, EnableStart, CancelStart,
     CancelTimer, Unlock, Go, At, Holders, ConfigOps
<1>2. UNCHANGED <<busy, blerr, intrFlgs>>
  BY DEF Call, Interrupted, Configure, ConfigCheck, ConfigWrite,
     MediaConfigWrite, MediaUnconfigWrite, EnableStart, CancelStart,
     CancelTimer, Unlock, Go, ConfigUnchanged, linkVars, intrVars
<1>3. busy # t
  BY <1>1 DEF InductiveQuiet, BusyHolder
<1>4. busy # None => op'[busy] = op[busy]
  <2>1. \A u \in Threads \ {t} : op'[u] = op[u]
    BY OthersStay DEF TypeOK, Caller
  <2> QED
    BY <1>3, <2>1 DEF TypeOK, CallType
<1>5. CASE UNCHANGED blstate
  BY <1>2, <1>4, <1>5, MapStutter
<1>6. CASE blstate' # blstate
  <2>1. /\ op[t] \in ConfigOps /\ pc[t] = "write"
        /\ blstate' \in {"DOWN", "UNCONFIGURED"}
        /\ op[t] # "munconfig" => blstate' = "DOWN"
        /\ op[t] = "munconfig" => blstate' = "UNCONFIGURED"
    BY <1>6 DEF Call, Interrupted, Configure, ConfigCheck, ConfigWrite,
       MediaConfigWrite, MediaUnconfigWrite, EnableStart, CancelStart,
       CancelTimer, Unlock, Go, At, ConfigOps, linkVars
  <2>2. \/ blstate \in {"DOWN", "UNCONFIGURED"}
        \/ blstate = "STOPPING" /\ op[t] = "munconfig"
    BY <1>0, <2>1 DEF StateAt, At, ConfigOps
  <2>3. blstate = "STOPPING" => busy # None
    BY ConstantsAssumption DEF InductiveQuiet, StopShows
  <2>4. busy # None => op[busy] = "stop"
    <3>1. busy # None => busy \in Threads /\ op[busy] \in Holders
      BY DEF TypeOK, CallType, InductiveQuiet, BusyHolder
    <3>2. busy # None => op[busy] \notin Exclusive
      BY <1>3, <2>1, <3>1 DEF InductiveQuiet, OneExclusive, Exclusive, ConfigOps
    <3> QED
      BY <3>1, <3>2 DEF Holders, Exclusive
  <2> QED
    BY <1>2, <1>4, <2>1, <2>2, <2>3, <2>4, MapConfigure
<1> QED
  BY <1>5, <1>6

LEMMA NextRefines ==
  ASSUME TypeOK, InductiveQuiet, LifeInv, StartWatched, Production, [Next]_vars
  PROVE  Refines
<1>1. ASSUME NEW t \in Threads, Call(t) \/ Interrupted(t) \/ Caller(t)
      PROVE  Refines
  BY <1>1, StartRefines, DownRefines, OutsideRefines DEF Caller
<1>2. CASE Hardware \/ Handler \/ RecoveryTimer \/ FecTimerFires \/ FecWork
  BY <1>2, AsyncLeaves, MapStutter DEF Production, linkVars, callVars
<1>3. CASE UNCHANGED vars
  BY <1>3, MapStutter DEF vars, linkVars, callVars, intrVars
<1> QED
  BY <1>1, <1>2, <1>3 DEF Next

(* BaseLink implements LinkLifecycle: whatever the threads, the hardware    *)
(* and the timers do, a client sees one operation at a time make only the   *)
(* transitions of the life cycle, a link comes up only when it is watched   *)
(* and goes to rest only when it is not.                                    *)
THEOREM LifecycleImplemented == Production /\ Spec => ImplementsLifecycle
<1> SUFFICES ASSUME Production PROVE Spec => Lifecycle!Spec
  BY DEF ImplementsLifecycle
<1>1. Init => Lifecycle!Init /\ StartWatched
  BY DEF Init, Lifecycle!Init, StartWatched
<1>2. TypeOK /\ InductiveQuiet /\ StartWatched /\ [Next]_vars => StartWatched'
  BY StartWatchedStep
<1>3. TypeOK /\ InductiveQuiet /\ LifeInv /\ StartWatched /\ [Next]_vars
        => [Lifecycle!Next]_(Lifecycle!vars)
  BY NextRefines DEF Refines
<1>4. Spec => [](TypeOK /\ InductiveQuiet /\ LifeInv)
  BY LifeHolds
<1> QED
  BY <1>1, <1>2, <1>3, <1>4, PTL DEF Spec, Lifecycle!Spec
=============================================================================
