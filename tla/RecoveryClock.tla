----------------------------- MODULE RecoveryClock -----------------------------
(***************************************************************************)
(* The times of PML recovery, in ticks: its polls, its timeout, the budget  *)
(* of recovery time per window, and the windows of FEC counts, which are    *)
(* discarded when a recovery falls into them.  A time stamp is kept as its  *)
(* age.  The handler, the recovery timer and the FEC work run beside each   *)
(* other; a poll may be late.  Counts only rise while a recovery runs.      *)
(***************************************************************************)
EXTENDS Integers

CONSTANTS
  Poll, Late,          \* SBL_PML_REC_POLL_INTERVAL, how late a poll may be
  Timeout,             \* pml_recovery.timeout
  MaxDuration, Window, \* pml_recovery.rl_max_duration, .rl_window_size
  Period,              \* SBL_FEC_MON_PERIOD
  Threshold, Adjust    \* of the rates: functions of "ucw", "ccw", "txr"

(* Recovery is over before a whole period of FEC counts has passed.  The    *)
(* thresholds and their adjustments are unsigned.                           *)
ASSUME ClockAssumption ==
  /\ {Poll, Timeout, MaxDuration, Window, Period} \subseteq Nat \ {0}
  /\ Late \in Nat /\ Timeout + Poll + Late < Period
  /\ \A k \in {"ucw", "ccw", "txr"} : Threshold[k] \in Nat /\ Adjust[k] \in Nat

NoAge == -1
ManyErrors == 2
OldAge == Window + Timeout + 2 * Period + 2   \* where an age stops

VARIABLES
  recOn, recAge, pollAge,  \* started; ages of init_ and last_poll_jiffies
  winAge, remaining,       \* age of rl_window_start, rl_time_remaining
  spent,                   \* history: ticks in recovery in the window, but
                           \* for those a cancel did not charge
  slotAge,                 \* age of fec_discard_time
  fecWait, fecPc,          \* ticks to fec_timer, step of the FEC work
  curAge, prevAge,         \* ages of fec_curr_cnts and fec_prev_cnts
  noise, rates,            \* counts since fec_curr_cnts, and its rates
  fecDown                  \* the FEC work has taken the link down

recClock == <<recOn, recAge, pollAge, winAge, remaining, spent>>
fecClock == <<fecWait, fecPc, curAge, prevAge, noise, rates, fecDown>>
clockVars == <<recClock, slotAge, fecClock>>

ClockInit ==
  /\ recOn = FALSE /\ recAge = 0 /\ pollAge = 0
  /\ winAge = NoAge /\ remaining = 0 /\ spent = 0
  /\ slotAge = OldAge
  /\ fecWait = Period /\ fecPc = "idle"
  /\ curAge = 0 /\ prevAge = 0 /\ noise = 0 /\ rates = 0 /\ fecDown = FALSE

Older(age) == IF age = NoAge \/ age >= OldAge THEN age ELSE age + 1

(* Stamps that no step will read any more have no age: those of a recovery  *)
(* that is over, of the counts compared, of a trigger before all counts.    *)
Since(running, age) == IF running THEN Older(age) ELSE 0
OldSlot == slotAge > curAge /\ ~(fecPc = "check" /\ slotAge <= prevAge)

(* sbl_pml_recovery_rate_test() for a recovery begun age ticks ago.         *)
WindowOver(age) == winAge = NoAge \/ winAge - age > Window
EnoughLeft(left) == left >= Poll

(* A tick: no poll later than Late; the FEC work begins when it is due and  *)
(* has ended when the next would.                                           *)
Tick ==
  /\ recOn => pollAge < Poll + Late
  /\ fecWait > 0 \/ fecPc = "check"
  /\ curAge < Period \/ fecPc = "idle"
  /\ recAge' = Since(recOn, recAge) /\ pollAge' = Since(recOn, pollAge)
  /\ IF ~recOn /\ WindowOver(0)
     THEN winAge' = NoAge /\ remaining' = 0 /\ spent' = 0
     ELSE /\ winAge' = Older(winAge)
          /\ spent' = IF recOn THEN spent + 1 ELSE spent
          /\ UNCHANGED remaining
  /\ slotAge' = IF OldSlot THEN OldAge ELSE Older(slotAge)
  /\ curAge' = Older(curAge) /\ prevAge' = Since(fecPc = "check", prevAge)
  /\ fecWait' = IF fecWait = 0 THEN 0 ELSE fecWait - 1
  /\ noise' \in IF recOn THEN {noise, ManyErrors} ELSE {noise}
  /\ UNCHANGED <<recOn, fecPc, rates, fecDown>>

-----------------------------------------------------------------------------
(* sbl_pml_recovery_monitor()                                               *)
(* Mutant: the start of a recovery is no trigger of the discard.            *)
StartUnmarked ==
  /\ ~recOn /\ ~fecDown
  /\ WindowOver(0) \/ EnoughLeft(remaining)
  /\ recOn' = TRUE /\ recAge' = 0 /\ pollAge' = 0
  /\ IF WindowOver(0)
     THEN winAge' = 0 /\ remaining' = MaxDuration /\ spent' = 0
     ELSE UNCHANGED <<winAge, remaining, spent>>
  /\ UNCHANGED <<slotAge, fecClock>>

RecoveryStarts ==
  /\ ~recOn /\ ~fecDown
  /\ WindowOver(0) \/ EnoughLeft(remaining)
  /\ recOn' = TRUE /\ recAge' = 0 /\ pollAge' = 0
  /\ IF WindowOver(0)
     THEN winAge' = 0 /\ remaining' = MaxDuration /\ spent' = 0
     ELSE UNCHANGED <<winAge, remaining, spent>>
  /\ slotAge' = 0
  /\ UNCHANGED fecClock

(* sbl_pml_recovery_monitor_fallback_timer(): the time since the last poll  *)
(* is charged; then the recovery has succeeded, has failed by its timeout   *)
(* or its budget, or is polled again.                                       *)
(* Mutant: a poll that goes on charges the interval, however late it is.    *)
ChargeInterval == remaining' = remaining - Poll

Charge == remaining' = remaining - pollAge

RecoveryPoll ==
  /\ recOn /\ pollAge >= Poll
  /\ Charge
  /\ pollAge' = 0
  /\ \/ recOn' = FALSE /\ slotAge' = 0
     \/ /\ recAge < Timeout /\ EnoughLeft(remaining')
        /\ UNCHANGED <<recOn, slotAge>>
  /\ UNCHANGED <<recAge, winAge, spent, fecClock>>

(* sbl_pml_recovery_cancel() does not charge the time since the last poll.  *)
RecoveryCancel ==
  /\ recOn /\ recOn' = FALSE /\ slotAge' = 0
  /\ spent' = spent - pollAge
  /\ UNCHANGED <<recAge, pollAge, winAge, remaining, fecClock>>

(* The handler of the degrade flags is a trigger as well.                   *)
DegradeMark ==
  /\ slotAge' = 0 /\ UNCHANGED <<recClock, fecClock>>

-----------------------------------------------------------------------------
(* sbl_fec_timer_work() and sbl_fec_rates_update(): nothing if the PCS is   *)
(* not aligned, which it may not be in a recovery, or the window too short. *)
FecSkips ==
  /\ fecPc = "idle" /\ fecWait = 0 /\ ~fecDown
  /\ recOn \/ curAge < Period
  /\ fecWait' = Period
  /\ UNCHANGED <<recClock, slotAge, fecPc, curAge, prevAge, noise, rates,
                 fecDown>>

FecReads ==
  /\ fecPc = "idle" /\ fecWait = 0 /\ ~fecDown /\ curAge >= Period
  /\ fecPc' = "check"
  /\ prevAge' = curAge /\ curAge' = 0
  /\ rates' = noise /\ noise' = 0
  /\ UNCHANGED <<recClock, slotAge, fecWait, fecDown>>

Discards == slotAge <= prevAge /\ slotAge > curAge

(* sbl_fec_ucw_rate_bad(), sbl_fec_ccw_rate_bad(), sbl_fec_txr_rate_bad():  *)
(* a threshold of zero means no test.                                       *)
Exceeds(rate, bad) == bad # 0 /\ rate > bad
UcwBad(rate) == Exceeds(rate, (Threshold["ucw"] * Adjust["ucw"]) \div 100)
CcwBad(rate) == Exceeds(rate, (Threshold["ccw"] * Adjust["ccw"]) \div 100)
TxrBad(rate) == Exceeds(rate, Threshold["txr"])

FecJudges ==
  /\ fecPc = "check" /\ fecPc' = "idle"
  /\ fecDown' = /\ ~Discards
                /\ UcwBad(rates) \/ CcwBad(rates) \/ TxrBad(rates)
  /\ rates' = 0
  /\ fecWait' = IF fecDown' THEN 0 ELSE Period
  /\ UNCHANGED <<recClock, slotAge, curAge, prevAge, noise>>

(* The client stops the link that went down and starts it again: the counts *)
(* begin anew.                                                              *)
FecRestart ==
  /\ fecDown /\ fecPc = "idle" /\ ~recOn
  /\ fecDown' = FALSE /\ curAge' = 0 /\ prevAge' = 0 /\ noise' = 0 /\ rates' = 0
  /\ fecWait' = Period
  /\ UNCHANGED <<recClock, slotAge, fecPc>>

ClockNext ==
  \/ Tick \/ RecoveryStarts \/ RecoveryPoll \/ RecoveryCancel \/ DegradeMark
  \/ FecSkips \/ FecReads \/ FecJudges \/ FecRestart

ClockSpec == ClockInit /\ [][ClockNext]_clockVars

-----------------------------------------------------------------------------
ClockTypeOK ==
  /\ recOn \in BOOLEAN /\ fecDown \in BOOLEAN
  /\ {recAge, pollAge, winAge, slotAge, curAge, prevAge}
       \subseteq NoAge .. OldAge
  /\ remaining \in -(Poll + Late) .. MaxDuration /\ spent \in Nat
  /\ fecWait \in 0 .. Period /\ fecPc \in {"idle", "check"}
  /\ {noise, rates} \subseteq {0, ManyErrors}

(* Over all recoveries of a window, the time spent in them is within the    *)
(* maximal duration, but for the lateness of one poll and what cancels did  *)
(* not charge, although it is charged piece by piece and only tested        *)
(* between the pieces.                                                      *)
BudgetKept == spent <= MaxDuration + Late

(* The FEC work takes a link down for the errors of a recovery only if a    *)
(* trigger of the discard replaced an earlier one after the counts of the   *)
(* window were read, or in that tick.                                       *)
AlarmOnlyByRace ==
  [][~fecDown /\ fecDown' => slotAge <= curAge]_clockVars
=============================================================================
