------------------------------ MODULE LinkState ------------------------------
(***************************************************************************)
(* The state of one port of the Slingshot base link driver that its        *)
(* concurrent parts share: the caller threads (BaseLink), the fault        *)
(* interrupt and the PML recovery timer (PmlFault) and the periodic FEC    *)
(* check (FecMonitor).  Each variable is a field of struct sbl_link or a   *)
(* register of the PML block; the operators below are the functions those  *)
(* three parts call.                                                       *)
(***************************************************************************)
EXTENDS Naturals, FiniteSets

CONSTANTS
  Threads,      \* callers of the driver's exported functions
  None,         \* no thread
  Media,        \* kinds of media a port may be given
  Attrs,        \* kinds of base link attributes a port may be given
  Debug,        \* debug options in force, see sbl_debug_option()
  HwFlags,      \* error flags the hardware raises in this instance
  LlrLimits,    \* whether CFG_LLR_SM.replay_ct_max limits replays: the values
                \* that the default and sbl_pml_llr_start() may leave in it
  OpsMayFail,   \* the framework's interrupt operations may return an error
  RemoveWaits,  \* its remove operation waits for a running handler
  PollBudget    \* recovery polls that fit in pml_recovery.timeout

Flags    == {"LINK_DOWN", "HI_SER", "DEGRADE_FAILURE", "LLR_REPLAY_AT_MAX",
             "AUTONEG"}
BlStates == {"UNCONFIGURED", "DOWN", "STARTING", "UP", "STOPPING",
             "RESETTING", "ERROR"}
SStates  == {"DOWN", "AUTONEG", "RUNNING", "RESETTING", "ERROR"}
Errors   == {"OK", "EIO", "EUCLEAN", "EALREADY", "EINVAL", "ENAVAIL",
             "EMEDIUMTYPE", "ENETDOWN", "ETIME", "ETIMEDOUT", "ECANCELED",
             "EOVERFLOW", "ECONNABORTED"}

ASSUME ConstantsAssumption ==
  /\ None \notin Threads
  /\ Media \subseteq {"ELECTRICAL", "OPTICAL"}
  /\ Attrs \subseteq {"LOCAL", "PEC", "AOC"}
  /\ Debug \subseteq {"INHIBIT_CLEANUP", "KEEP_SERDES_UP"}
  /\ HwFlags \subseteq Flags
  /\ LlrLimits \subseteq BOOLEAN /\ LlrLimits # {}
  /\ OpsMayFail \in BOOLEAN
  /\ RemoveWaits \in BOOLEAN
  /\ PollBudget \in Nat

VARIABLES
  blstate, blerr,    \* base link state and error
  attr, mattr,       \* attributes and media given by the client
  startCancelled,    \* start_cancelled
  sstate, reloadFw,  \* SerDes state, reload_serdes_fw
  pcsOn, pcs,        \* CFG_PCS.pcs_enable; STS_RX_PCS seen as up, rf or down
  llrLimited,        \* CFG_LLR_SM.replay_ct_max is below "unlimited"
  errFlgs,           \* ERR_FLG
  intrFlgs, intrOn,  \* intr_err_flgs; the flags that raise an interrupt
  alerted,           \* history: a link down alert since the last start began
  hpc, hraised,      \* sbl_pml_hdlr(): step and raised_flgs
  recStarted, recTimer, recPolls, rpc,   \* pml_recovery and its callback
  fecTimer, fecQueued, fpc,              \* fec_timer, fec_timer_work
  busy, lock,        \* holders of busy_mtx and of the data lock
  op, pc,            \* each caller's operation and its step
  err, anTries       \* the busy caller's result and its autoneg tries

linkVars  == <<blstate, blerr, attr, mattr, startCancelled>>
chipVars  == <<sstate, reloadFw, pcsOn, pcs, llrLimited>>
intrVars  == <<errFlgs, intrFlgs, intrOn>>
hdlrVars  == <<hpc, hraised>>
recVars   == <<recStarted, recTimer, recPolls, rpc>>
fecVars   == <<fecTimer, fecQueued, fpc>>
callVars  == <<busy, lock, op, pc, err, anTries>>
vars      == <<linkVars, chipVars, intrVars, alerted, hdlrVars, recVars,
               fecVars, callVars>>

-----------------------------------------------------------------------------
(* The error flags monitored for link faults follow the replay limit that   *)
(* sbl_pml_llr_start() left in the register, not the option it came from.   *)
FaultFlags ==
  {"LINK_DOWN", "HI_SER", "DEGRADE_FAILURE"} \cup
  IF llrLimited THEN {"LLR_REPLAY_AT_MAX"} ELSE {}

(* sbl_pml_enable_intr_handler() and sbl_pml_disable_intr_handler(), with   *)
(* their results.                                                           *)
FlagsRegistered(flags) == flags \subseteq intrFlgs /\ flags \cap intrFlgs # {}

EnableHandler(flags, e) ==
  \/ e = "OK" /\ intrFlgs = {} /\ UNCHANGED intrOn
  \/ e = "OK" /\ FlagsRegistered(flags) /\ intrOn' = intrOn \cup flags
  \/ e = "EIO" /\ FlagsRegistered(flags) /\ OpsMayFail /\ UNCHANGED intrOn
  \/ e = "EINVAL" /\ intrFlgs # {} /\ ~FlagsRegistered(flags)
     /\ UNCHANGED intrOn

DisableHandler(flags, e) ==
  \/ e = "OK" /\ intrFlgs = {} /\ UNCHANGED intrOn
  \/ e = "OK" /\ FlagsRegistered(flags) /\ intrOn' = intrOn \ flags
  \/ e = "EIO" /\ FlagsRegistered(flags) /\ OpsMayFail /\ UNCHANGED intrOn
  \/ e = "EINVAL" /\ intrFlgs # {} /\ ~FlagsRegistered(flags)
     /\ UNCHANGED intrOn

(* sbl_pml_link_down_async_alert() in two steps: switch the interrupt off,  *)
(* then call the client.                                                    *)
LinkDownDisable ==
  /\ \E e \in Errors : DisableHandler(FaultFlags, e)
  /\ UNCHANGED <<errFlgs, intrFlgs>>
  /\ IF "INHIBIT_CLEANUP" \in Debug
     THEN blstate' = "ERROR" /\ blerr' = "ECONNABORTED"
     ELSE UNCHANGED <<blstate, blerr>>
  /\ UNCHANGED <<attr, mattr, startCancelled, alerted>>

LinkDownAlert ==
  /\ alerted' = TRUE
  /\ UNCHANGED <<linkVars, intrVars>>

(* Mutant: the optical transceivers are forgotten.                          *)
PcsStopsAlways == "KEEP_SERDES_UP" \notin Debug

(* sbl_pml_pcs_stop(): optical transceivers fail if the PCS goes away under *)
(* a running SerDes, so the PCS is then left alone.                         *)
PcsStops ==
  /\ "KEEP_SERDES_UP" \notin Debug
  /\ ~(sstate # "DOWN" /\ mattr = "OPTICAL")

PmlLinkDown ==
  /\ pcsOn' = (pcsOn /\ ~PcsStops)
  /\ pcs'   = IF PcsStops THEN "down" ELSE pcs
  /\ errFlgs' = {}
  /\ UNCHANGED <<llrLimited, intrFlgs, intrOn>>

(* A SerDes that stops or is realigned takes the received signal away.      *)
SignalLost ==
  /\ pcs' = "down"
  /\ errFlgs' = IF pcs = "down" THEN errFlgs ELSE errFlgs \cup {"LINK_DOWN"}

(* sbl_serdes_stop_internal(), with its result.                             *)
SerdesStopInternal(e) ==
  /\ SignalLost
  /\ \/ e = "OK" /\ sstate' = "DOWN" /\ UNCHANGED reloadFw
     \/ e = "EIO" /\ sstate' = "ERROR" /\ reloadFw' = TRUE

(* sbl_serdes_stop()                                                        *)
SerdesStop(e) ==
  \/ /\ sstate \in {"RUNNING", "AUTONEG"} /\ "KEEP_SERDES_UP" \notin Debug
     /\ SerdesStopInternal(e)
  \/ /\ sstate \in {"RUNNING", "AUTONEG"} /\ "KEEP_SERDES_UP" \in Debug
     /\ e = "OK"
     /\ UNCHANGED <<sstate, reloadFw, pcs, errFlgs>>
  \/ /\ sstate \notin {"RUNNING", "AUTONEG"}
     /\ e = "EUCLEAN"
     /\ UNCHANGED <<sstate, reloadFw, pcs, errFlgs>>

(* sbl_an_serdes_stop() in any other state than AUTONEG changes nothing.    *)
AnSerdesStop ==
  IF sstate = "AUTONEG"
  THEN \E e \in Errors : SerdesStopInternal(e)
  ELSE UNCHANGED <<sstate, reloadFw, pcs, errFlgs>>

(* sbl_serdes_reset(): a soft reset, or else a firmware reload.             *)
SerdesReset ==
  /\ SignalLost
  /\ sstate' \in {"DOWN", "ERROR"}
  /\ UNCHANGED reloadFw

(* Mutant: the flags are forgotten only when the framework succeeds.        *)
RemoveHandlerKeeps(e) ==
  /\ intrFlgs # {} /\ RemoveWaits => hpc = "idle"
  /\ \/ e = "OK" /\ intrFlgs = {} /\ UNCHANGED <<intrOn, intrFlgs>>
     \/ e = "OK" /\ intrFlgs # {} /\ intrOn' = {} /\ intrFlgs' = {}
     \/ e = "EIO" /\ intrFlgs # {} /\ OpsMayFail
        /\ UNCHANGED <<intrOn, intrFlgs>>

(* sbl_pml_remove_intr_handler() forgets the flags whatever the framework   *)
(* answers.  The framework may wait for a handler that is running.          *)
RemoveHandler(e) ==
  /\ intrFlgs # {} /\ RemoveWaits => hpc = "idle"
  /\ \/ e = "OK" /\ intrFlgs = {} /\ UNCHANGED intrOn
     \/ e = "OK" /\ intrFlgs # {} /\ intrOn' = {}
     \/ e = "EIO" /\ intrFlgs # {} /\ OpsMayFail /\ UNCHANGED intrOn
  /\ intrFlgs' = {}

(* sbl_pml_set_defaults() as far as the registers above are concerned.  The *)
(* default replay limit comes from a hardware header.                       *)
PmlSetDefaults ==
  /\ pcsOn' = FALSE
  /\ pcs' = "down"
  /\ llrLimited' \in LlrLimits

-----------------------------------------------------------------------------
(* The callers: thread t moves from one step of operation o to the next; an *)
(* operation that holds busy_mtx ends with Finish.                          *)
At(t, o, step) == op[t] = o /\ pc[t] = step

Go(t, o, from, to) ==
  /\ At(t, o, from)
  /\ pc' = [pc EXCEPT ![t] = to]
  /\ UNCHANGED <<busy, lock, op, err>>

(* Mutant: the error is not kept.                                           *)
FailSilently(t, o, from, to, e) == e \in Errors /\ Go(t, o, from, to)

Fail(t, o, from, to, e) ==
  /\ At(t, o, from)
  /\ pc' = [pc EXCEPT ![t] = to]
  /\ err' = e
  /\ UNCHANGED <<busy, lock, op>>

Return(t) == op' = [op EXCEPT ![t] = "none"] /\ pc' = [pc EXCEPT ![t] = "idle"]

(* Mutant: busy_mtx is not waited for.                                      *)
TakeUnserialised(t, o, to) ==
  /\ At(t, o, "enter")
  /\ busy' = t
  /\ pc' = [pc EXCEPT ![t] = to]
  /\ UNCHANGED <<lock, op, err, anTries>>

Take(t, o, to) ==
  /\ At(t, o, "enter") /\ busy = None
  /\ busy' = t
  /\ pc' = [pc EXCEPT ![t] = to]
  /\ UNCHANGED <<lock, op, err, anTries>>

Refuse(t, o) ==
  /\ At(t, o, "enter") /\ busy = None
  /\ Return(t)
  /\ UNCHANGED <<busy, lock, err, anTries>>

Finish(t, o, from) ==
  /\ At(t, o, from)
  /\ Return(t)
  /\ busy' = None
  /\ err' = "OK" /\ anTries' = 0
  /\ UNCHANGED lock
=============================================================================
