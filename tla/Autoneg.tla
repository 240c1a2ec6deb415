------------------------------- MODULE Autoneg -------------------------------
(***************************************************************************)
(* sbl_link_autoneg(): attempts to exchange pages with the link partner,    *)
(* each with its SerDes start and stop, and the interrupt that tells the    *)
(* thread of a page.  The handler runs beside the thread: its late          *)
(* complete(), disable or clear can fall into the next wait.  The           *)
(* autonegotiation hardware and the partner are external.                   *)
(***************************************************************************)
EXTENDS Naturals, Sequences

CONSTANTS
  MaxRxPages,   \* SBL_AN_MAX_RX_PAGES
  TxCounts,     \* values of an_tx_count: 1 without next pages, else 3
  LpCounts,     \* pages a partner may send
  MaxRetry,     \* an_max_retry
  Restarts      \* bound on the restarts of the partner during a call

ASSUME AutonegAssumption ==
  /\ MaxRxPages \in Nat \ {0, 1} /\ MaxRetry \in Nat /\ Restarts \in Nat
  /\ TxCounts \subseteq Nat \ {0} /\ LpCounts \subseteq Nat \ {0}

VARIABLES
  anPc, anErr,          \* the step of the call and the error it carries
  anTry,                \* an_try_count, up to MaxRetry + 1
  anTx, anPolls,        \* an_tx_count; whether the switch variant polls
  anFix,                \* AUTONEG_100CR4_FIXUP, and then whether applied
  anSerdes,             \* link->sstate
  anRx, anCount, anNo,  \* an_rx_page, an_rx_count, xcng_count
  anStops,              \* the start is cancelled, its timeout has passed
  anDone, anIntr,       \* an_hw_change, the AN interrupts are enabled
  anHdlr,               \* the step of sbl_pml_hdlr()
  hwState, hwPage,      \* state machine and number of the partner's page
  hwFlag, hwRestarts,   \* error flag for a page, restarts so far
  lpCount, lpMode       \* pages and abilities of the partner

anVars == <<anPc, anErr, anTry, anTx, anPolls, anFix, anSerdes, anRx, anCount,
            anNo, anStops, anDone, anIntr, anHdlr, hwState, hwPage, hwFlag,
            hwRestarts, lpCount, lpMode>>
setup  == <<anTx, anPolls, lpCount, lpMode>>
pages  == <<anRx, anCount, anNo>>
signals == <<anDone, anIntr, hwFlag>>
hwPos  == <<hwState, hwPage, hwRestarts>>

NoPage == [np |-> FALSE, no |-> 0, try |-> 0]
NoPages == [i \in 0 .. MaxRxPages - 1 |-> NoPage]

AnInit ==
  /\ anPc = "idle" /\ anErr = "ok" /\ anTry = 0
  /\ anTx \in TxCounts /\ anPolls \in BOOLEAN
  /\ anFix \in {"off", "on"}
  /\ anSerdes = "DOWN"
  /\ anRx = NoPages /\ anCount = 0 /\ anNo = 0
  /\ anStops = {} /\ anDone = FALSE /\ anIntr = FALSE /\ anHdlr = "idle"
  /\ hwState = "reset" /\ hwPage = 0 /\ hwFlag = FALSE /\ hwRestarts = 0
  /\ lpCount \in LpCounts /\ lpMode \in {"common", "kr4", "none"}

AnGo(from, to)   == anPc = from /\ anPc' = to /\ UNCHANGED anErr
AnFail(from, e)  == anPc = from /\ anPc' = "failed" /\ anErr' = e
AnLeave(from, e) == anPc = from /\ anPc' = "cleanup" /\ anErr' = e

-----------------------------------------------------------------------------
(* The hardware: while it is busy it may complete a page of both sides, and *)
(* raises the flag.  It is done when neither side has another page.  The    *)
(* partner may start over.                                                  *)
HwOnly == UNCHANGED <<anPc, anErr, anTry, setup, anFix, anSerdes, pages,
                      anStops, anDone, anIntr, anHdlr>>

HwExchange ==
  /\ hwState = "busy"
  /\ hwPage' = hwPage + 1
  /\ hwState' = IF hwPage' >= anTx /\ hwPage' >= lpCount THEN "good" ELSE "ack"
  /\ hwFlag' = TRUE
  /\ HwOnly /\ UNCHANGED hwRestarts

HwRestart ==
  /\ hwState \in {"busy", "ack"} /\ hwPage > 0 /\ hwRestarts < Restarts
  /\ hwState' = "ack" /\ hwPage' = 1 /\ hwFlag' = TRUE
  /\ hwRestarts' = hwRestarts + 1
  /\ HwOnly

(* sbl_pml_hdlr() for SBL_AUTONEG_ERR_FLGS: disable, complete, and clear    *)
(* the flags at its end.                                                    *)
HdlrOnly == UNCHANGED <<anPc, anErr, anTry, setup, anFix, anSerdes, pages,
                        anStops, hwPos>>

AnHandler ==
  /\ \/ /\ anHdlr = "idle" /\ hwFlag /\ anIntr /\ anHdlr' = "disable"
        /\ UNCHANGED signals
     \/ /\ anHdlr = "disable" /\ anHdlr' = "complete"
        /\ anIntr' = FALSE /\ UNCHANGED <<anDone, hwFlag>>
     \/ /\ anHdlr = "complete" /\ anHdlr' = "clear"
        /\ anDone' = TRUE /\ UNCHANGED <<anIntr, hwFlag>>
     \/ /\ anHdlr = "clear" /\ anHdlr' = "idle"
        /\ hwFlag' = FALSE /\ UNCHANGED <<anDone, anIntr>>
  /\ HdlrOnly

(* A cancel, and the start timeout, at any time.                            *)
AnStop(why) ==
  /\ anPc # "idle" /\ why \notin anStops
  /\ anStops' = anStops \cup {why}
  /\ UNCHANGED <<anPc, anErr, anTry, setup, anFix, anSerdes, pages, signals,
                 anHdlr, hwPos>>

-----------------------------------------------------------------------------
(* The attempts.                                                            *)
ThreadOnly == UNCHANGED <<setup, anStops, anHdlr>>

(* Before the first attempt the PCS must be off, and the pages and the      *)
(* handler are set up; a call that fails there leaves the SerDes alone.     *)
(* (The validation before it, loopback included, returns with nothing done.)*)
SetupErrors == {"EBUSY", "EINVAL", "EALREADY", "EIO"}

AnBegin ==
  /\ \/ /\ AnGo("idle", "try") /\ anTry' = 0 /\ hwRestarts' = 0
        /\ anFix' = IF anFix = "applied" THEN "on" ELSE anFix
     \/ /\ \E e \in SetupErrors : AnLeave("idle", e)
        /\ UNCHANGED <<anTry, hwRestarts, anFix>>
  /\ ThreadOnly
  /\ UNCHANGED <<anSerdes, pages, signals, hwState, hwPage>>

AnTryAgain ==
  /\ \/ "timeout" \in anStops /\ AnLeave("try", "ETIMEDOUT")
     \/ anStops = {"cancel"} /\ AnLeave("try", "ECANCELED")
     \/ anStops = {} /\ AnGo("try", "serdes")
  /\ anTry' = IF anTry > MaxRetry THEN anTry ELSE anTry + 1
  /\ ThreadOnly
  /\ UNCHANGED <<anFix, anSerdes, pages, signals, hwPos>>

(* Mutant: the state of the SerDes is not looked at before it is started.   *)
AnSerdesUnchecked ==
  /\ \/ AnGo("serdes", "pml") /\ anSerdes' = "AUTONEG"
     \/ AnLeave("serdes", "EIO") /\ anSerdes' = "ERROR"
  /\ ThreadOnly
  /\ UNCHANGED <<anTry, anFix, pages, signals, hwPos>>

(* sbl_an_serdes_start()                                                    *)
AnSerdesStart ==
  /\ \/ /\ anSerdes = "DOWN" /\ AnGo("serdes", "pml")
        /\ anSerdes' = "AUTONEG"
     \/ /\ anSerdes = "DOWN" /\ AnLeave("serdes", "EIO")
        /\ anSerdes' = "ERROR"
     \/ /\ anSerdes # "DOWN" /\ AnLeave("serdes", "EUCLEAN")
        /\ UNCHANGED anSerdes
  /\ ThreadOnly
  /\ UNCHANGED <<anTry, anFix, pages, signals, hwPos>>

(* sbl_an_pml_setup() holds the state machine in reset and clears flags.    *)
AnPmlSetup ==
  /\ AnGo("pml", "base")
  /\ hwState' = "reset" /\ hwPage' = 0 /\ hwFlag' = FALSE
  /\ ThreadOnly
  /\ UNCHANGED <<anTry, anFix, anSerdes, pages, anDone, anIntr, hwRestarts>>

(* sbl_an_hw_wait_prepare(); the enabling of the interrupt may fail.        *)
WaitPrepare(from, to) ==
  /\ anDone' = FALSE /\ hwFlag' = FALSE
  /\ \/ AnGo(from, to) /\ anIntr' = TRUE
     \/ AnFail(from, "EIO") /\ UNCHANGED anIntr
StopCode == IF "cancel" \in anStops THEN "ECANCELED" ELSE "ETIMEDOUT"

(* sbl_an_exchange() up to the wait for the partner's base page.            *)
AnBase ==
  /\ \/ /\ anStops # {} /\ AnFail("base", StopCode)
        /\ UNCHANGED <<anRx, anCount, signals>>
     \/ /\ anStops = {} /\ WaitPrepare("base", "sendBase")
        /\ anRx' = NoPages /\ anCount' = 0
  /\ ThreadOnly
  /\ UNCHANGED <<anTry, anFix, anSerdes, anNo, hwPos>>

AnSendBase ==
  /\ AnGo("sendBase", "waitBase")
  /\ hwState' = "busy" /\ hwPage' = 0
  /\ ThreadOnly
  /\ UNCHANGED <<anTry, anFix, anSerdes, pages, signals, hwRestarts>>

(* The wait for an_hw_change ends with it or with the time of the attempt.  *)
(* Mutant: wait_for_completion() without a time.                            *)
WaitForever ==
  /\ anDone /\ anDone' = FALSE
  /\ AnGo("waitBase", "gotBase") \/ AnGo("waitNext", "gotNext")
  /\ ThreadOnly
  /\ UNCHANGED <<anTry, anFix, anSerdes, pages, anIntr, hwFlag, hwPos>>

AnWait ==
  /\ \/ /\ anDone /\ anDone' = FALSE
        /\ AnGo("waitBase", "gotBase") \/ AnGo("waitNext", "gotNext")
     \/ /\ ~anDone /\ UNCHANGED anDone
        /\ \E from \in {"waitBase", "waitNext"} : AnFail(from, "ETIME")
  /\ ThreadOnly
  /\ UNCHANGED <<anTry, anFix, anSerdes, pages, anIntr, hwFlag, hwPos>>

(* sbl_an_sm_is_np_exchange_done() of the switch variant, whose caller      *)
(* turns every error into ETIME.                                            *)
AnPoll ==
  /\ \/ anStops = {} /\ hwState \in {"ack", "good"} /\ AnGo("pollNext", "gotNext")
     \/ AnFail("pollNext", "ETIME")
  /\ ThreadOnly
  /\ UNCHANGED <<anTry, anFix, anSerdes, pages, signals, hwPos>>

ThePage == [np |-> hwPage < lpCount, no |-> hwPage, try |-> anTry]
Complete   == hwState = "good"
IsBasePage == hwState \in {"ack", "good"} /\ hwPage = 1

(* Mutant: a page counts although the exchange of the next goes on.         *)
AnyState == hwPage > 1

IsNextPage == hwState \in {"ack", "good"} /\ hwPage > 1

AnGotBase ==
  /\ \/ ~IsBasePage /\ AnFail("gotBase", "EBADE") /\ UNCHANGED pages
     \/ /\ IsBasePage
        /\ AnGo("gotBase", IF Complete THEN "match" ELSE "next")
        /\ anRx' = [anRx EXCEPT ![0] = ThePage] /\ anCount' = 1
        /\ anNo' = 1
  /\ ThreadOnly
  /\ UNCHANGED <<anTry, anFix, anSerdes, signals, hwPos>>

(* sbl_an_page_exchange(): our next page, or a null page if we have no more.*)
AnNext ==
  /\ \/ /\ anStops # {} /\ AnFail("next", StopCode) /\ UNCHANGED signals
     \/ /\ anStops = {} /\ anPolls /\ AnGo("next", "sendNext")
        /\ UNCHANGED signals
     \/ /\ anStops = {} /\ ~anPolls /\ WaitPrepare("next", "sendNext")
  /\ ThreadOnly
  /\ UNCHANGED <<anTry, anFix, anSerdes, pages, hwPos>>

AnSendNext ==
  /\ AnGo("sendNext", IF anPolls THEN "pollNext" ELSE "waitNext")
  /\ hwState' = IF hwState = "ack" THEN "busy" ELSE hwState
  /\ ThreadOnly
  /\ UNCHANGED <<anTry, anFix, anSerdes, pages, signals, hwPage, hwRestarts>>

(* The page is stored if the one before it announced it.  If it is not a    *)
(* next page, the loop goes on to send the same page again.                 *)
AnGotNext ==
  /\ anPc = "gotNext"
  /\ \/ /\ ~IsNextPage /\ AnGo("gotNext", IF Complete THEN "match" ELSE "next")
        /\ UNCHANGED pages
     \/ /\ IsNextPage
        /\ IF anRx[anNo - 1].np
           THEN anRx' = [anRx EXCEPT ![anNo] = ThePage] /\ anCount' = anCount + 1
           ELSE UNCHANGED <<anRx, anCount>>
        /\ anNo' = anNo + 1
        /\ IF anNo' >= MaxRxPages THEN AnFail("gotNext", "EPROTO")
           ELSE AnGo("gotNext", IF Complete THEN "match" ELSE "next")
  /\ ThreadOnly
  /\ UNCHANGED <<anTry, anFix, anSerdes, signals, hwPos>>

-----------------------------------------------------------------------------
(* What the loop of attempts does with an error of the exchange.            *)
Retries == /\ anPc = "failed" /\ anPc' = "try" /\ anErr' = "ok"
           /\ anSerdes' \in {"DOWN", "ERROR"}

AnFailed ==
  /\ \/ /\ anErr = "EPROTO" /\ anFix # "off"
        /\ \/ /\ lpMode = "kr4" /\ anPc = "failed" /\ anPc' = "match"
              /\ anFix' = "applied" /\ anErr' = "ok" /\ UNCHANGED anSerdes
           \/ lpMode # "kr4" /\ Retries /\ UNCHANGED anFix
     \/ /\ anErr = "EPROTO" /\ anFix = "off" /\ anPc = "failed"
        /\ anPc' = "match" /\ anErr' = "ok" /\ UNCHANGED <<anSerdes, anFix>>
     \/ anErr = "ETIME" /\ anTry < MaxRetry /\ Retries /\ UNCHANGED anFix
     \/ /\ \/ anErr = "ETIME" /\ anTry >= MaxRetry
           \/ anErr \notin {"EPROTO", "ETIME"}
        /\ AnLeave("failed", anErr) /\ UNCHANGED <<anSerdes, anFix>>
  /\ ThreadOnly
  /\ UNCHANGED <<anTry, pages, signals, hwPos>>

(* sbl_an_ability_match(): no common mode leads to another attempt, with    *)
(* the SerDes still started.                                                *)
AnMatch ==
  /\ \/ /\ lpMode = "common" \/ anFix = "applied"
        /\ AnLeave("match", "ok")
     \/ /\ lpMode # "common" /\ anFix # "applied"
        /\ AnGo("match", "try")
  /\ ThreadOnly
  /\ UNCHANGED <<anTry, anFix, anSerdes, pages, signals, hwPos>>

AnCleanup ==
  /\ anPc = "cleanup" /\ anPc' = "idle" /\ anErr' = "ok"
  /\ anSerdes' \in IF anSerdes = "AUTONEG" THEN {"DOWN", "ERROR"} ELSE {anSerdes}
  /\ anIntr' = FALSE /\ hwFlag' = FALSE
  /\ anStops' = {}
  /\ UNCHANGED <<anTry, setup, anFix, pages, anDone, anHdlr, hwPos>>

(* The cleanup of a failed start resets the SerDes.                         *)
AnReset ==
  /\ anPc = "idle" /\ anSerdes = "ERROR" /\ anSerdes' = "DOWN"
  /\ ThreadOnly
  /\ UNCHANGED <<anPc, anErr, anTry, anFix, pages, signals, hwPos>>

AnThread ==
  \/ AnTryAgain \/ AnSerdesStart \/ AnPmlSetup \/ AnBase \/ AnSendBase
  \/ AnWait \/ AnPoll \/ AnGotBase \/ AnNext \/ AnSendNext \/ AnGotNext
  \/ AnFailed \/ AnMatch \/ AnCleanup

AnNextState ==
  \/ AnThread \/ AnBegin \/ AnReset
  \/ AnHandler \/ HwExchange \/ HwRestart
  \/ \E why \in {"cancel", "timeout"} : AnStop(why)

AnSpec == AnInit /\ [][AnNextState]_anVars

(* The thread runs, and the start timeout passes.                           *)
AnFairness == WF_anVars(AnThread) /\ WF_anVars(AnStop("timeout"))

-----------------------------------------------------------------------------
AnTypeOK ==
  /\ anTry \in 0 .. MaxRetry + 1
  /\ anSerdes \in {"DOWN", "AUTONEG", "ERROR"}
  /\ anStops \subseteq {"cancel", "timeout"}
  /\ anCount \in 0 .. MaxRxPages /\ anNo \in 0 .. MaxRxPages
  /\ DOMAIN anRx = 0 .. MaxRxPages - 1
  /\ {anDone, anIntr, hwFlag} \subseteq BOOLEAN
  /\ anHdlr \in {"idle", "disable", "complete", "clear"}
  /\ hwState \in {"reset", "busy", "ack", "good"}
  /\ anFix \in {"off", "on", "applied"}

(* The mode and the options are resolved from pages that were received in   *)
(* the attempt that succeeded, never from one that an earlier attempt left  *)
(* in an_rx_page or that was not received at all.  And no page is taken     *)
(* twice, whatever the timing of the handler, unless the partner starts     *)
(* over: a completion that is left of an earlier wait must not have the     *)
(* page that is still in the registers stored again.  (A page may well be   *)
(* missed: the comment of sbl_an_exchange() knows.)                         *)
PagesAreFresh ==
  anPc = "match" =>
    /\ \A i \in 0 .. anCount - 1 : anRx[i].try = anTry
    /\ hwRestarts = 0 =>
         \A i, j \in 0 .. anCount - 1 : i < j => anRx[i].no < anRx[j].no

(* The base link's view of the call: the error is the one the call carries  *)
(* once it has decided to end.                                              *)
AnStage ==
  CASE anPc = "idle" -> "none"
    [] anPc \in {"try", "serdes"} -> "try"
    [] anPc = "cleanup" -> "done"
    [] OTHER -> "exchange"

AnFailure == IF anPc = "failed" THEN "ok" ELSE anErr

AnService == INSTANCE AutonegService WITH
  serdes <- anSerdes, stage <- AnStage, asked <- anStops, failure <- AnFailure

(* Whatever the partner, the pages and the handler do, the call keeps what  *)
(* the base link relies on: pages are exchanged only with the SerDes in     *)
(* autoneg, every way out, the retries included, leaves it stopped or in    *)
(* error, and ECANCELED or ETIMEDOUT is returned only to a call that was    *)
(* cancelled or is late.                                                    *)
ImplementsAnService == AnService!AnServiceSpec
=============================================================================
