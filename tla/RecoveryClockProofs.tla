------------------------ MODULE RecoveryClockProofs ------------------------
(***************************************************************************)
(* The budget of PML recovery, for every window, timeout, poll interval and *)
(* lateness, if the maximal duration is at least one interval: the rate     *)
(* test lets the first recovery of a window start without a look at it.     *)
(* And the alarms of the FEC work, which a recovery raises by a race only.  *)
(* The other clock of the driver is the deadline of a start: what its       *)
(* extensions add to it, and whether they are enough.                       *)
(***************************************************************************)
EXTENDS RecoveryClock, StartTimeout, TLAPS

ClockTimes ==
  /\ remaining \in Int /\ spent \in Int
  /\ winAge \in Int /\ winAge >= NoAge /\ pollAge \in 0 .. Poll + Late

(* What has been charged is what was spent, up to the last poll.            *)
Charged ==
  /\ winAge = NoAge => ~recOn /\ spent = 0
  /\ winAge # NoAge /\ recOn => spent + remaining = MaxDuration + pollAge
  /\ winAge # NoAge /\ ~recOn => spent + remaining = MaxDuration

(* A recovery goes on with enough left for a poll, which may be late.       *)
NotOverdrawn ==
  /\ recOn => remaining >= Poll
  /\ winAge # NoAge /\ ~recOn => remaining >= -Late

BudgetInv == ClockTimes /\ Charged /\ NotOverdrawn

-----------------------------------------------------------------------------
(* The constants, as numbers.                                               *)
LEMMA ClockNumbers ==
  /\ Poll \in Nat \ {0} /\ Timeout \in Nat \ {0} /\ MaxDuration \in Nat \ {0}
  /\ Window \in Nat \ {0} /\ Period \in Nat \ {0} /\ Late \in Nat
  /\ OldAge \in Nat /\ Poll + Late < OldAge
<1>1. /\ Poll \in Nat \ {0} /\ Timeout \in Nat \ {0}
      /\ MaxDuration \in Nat \ {0} /\ Window \in Nat \ {0}
      /\ Period \in Nat \ {0} /\ Late \in Nat /\ Timeout + Poll + Late < Period
  BY ClockAssumption
<1> QED
  BY <1>1 DEF OldAge

(* The initial states satisfy the invariant.                                *)
LEMMA BudgetInit == ClockInit => BudgetInv
<1> SUFFICES ASSUME ClockInit PROVE BudgetInv
  OBVIOUS
<1>1. ClockTimes
  BY ClockNumbers DEF ClockInit, ClockTimes, NoAge
<1>2. Charged /\ NotOverdrawn
  BY DEF ClockInit, Charged, NotOverdrawn
<1> QED
  BY <1>1, <1>2 DEF BudgetInv

(* A tick adds one to what was spent and to the age of the last poll; a     *)
(* window that is over is forgotten.                                        *)
LEMMA BudgetTick ==
  ASSUME BudgetInv, Tick
  PROVE  BudgetInv'
<1> USE ClockNumbers DEF BudgetInv, ClockTimes, Charged, NotOverdrawn, NoAge
<1>1. recOn' = recOn /\ pollAge' = Since(recOn, pollAge)
  BY DEF Tick
<1>2. CASE recOn
  <2>1. pollAge < Poll + Late
    BY <1>2 DEF Tick
  <2>2. pollAge' = pollAge + 1
    BY <1>1, <1>2, <2>1 DEF Since, Older
  <2>3. spent' = spent + 1 /\ remaining' = remaining /\ winAge' = Older(winAge)
    BY <1>2 DEF Tick
  <2>4. winAge \in Int /\ winAge # -1 /\ (winAge' = winAge \/ winAge' = winAge + 1)
    BY <1>2, <2>3 DEF Older
  <2>5. recOn'
    BY <1>1, <1>2
  <2> QED
    BY <1>2, <2>1, <2>2, <2>3, <2>4, <2>5
<1>3. CASE ~recOn
  <2>1. pollAge' = 0
    BY <1>1, <1>3 DEF Since
  <2>2. CASE WindowOver(0)
    BY <1>1, <1>3, <2>1, <2>2 DEF Tick
  <2>3. CASE ~WindowOver(0)
    <3>1. /\ spent' = spent /\ remaining' = remaining
          /\ winAge' = winAge \/ winAge' = winAge + 1
      BY <1>3, <2>3 DEF Tick, Older
    <3>2. winAge # -1
      BY <2>3 DEF WindowOver
    <3> QED
      BY <1>1, <1>3, <2>1, <3>1, <3>2
  <2> QED
    BY <2>2, <2>3
<1> QED
  BY <1>2, <1>3

(* A recovery begins with a new budget, or with what is left of the one of  *)
(* the window.                                                              *)
LEMMA BudgetStart ==
  ASSUME BudgetInv, RecoveryStarts, MaxDuration >= Poll
  PROVE  BudgetInv'
<1> USE ClockNumbers DEF BudgetInv, ClockTimes, Charged, NotOverdrawn, NoAge
<1>1. recOn' = TRUE /\ pollAge' = 0 /\ ~recOn
  BY DEF RecoveryStarts
<1>2. CASE WindowOver(0)
  <2>1. winAge' = 0 /\ remaining' = MaxDuration /\ spent' = 0
    BY <1>2 DEF RecoveryStarts
  <2> QED
    BY <1>1, <2>1
<1>3. CASE ~WindowOver(0)
  <2>1. winAge' = winAge /\ remaining' = remaining /\ spent' = spent
    BY <1>3 DEF RecoveryStarts
  <2>2. winAge # -1 /\ remaining >= Poll
    BY <1>3 DEF RecoveryStarts, WindowOver, EnoughLeft
  <2> QED
    BY <1>1, <2>1, <2>2
<1> QED
  BY <1>2, <1>3

(* A poll charges the time since the last one, whatever its outcome.        *)
LEMMA BudgetPoll ==
  ASSUME BudgetInv, RecoveryPoll
  PROVE  BudgetInv'
<1> USE ClockNumbers DEF BudgetInv, ClockTimes, Charged, NotOverdrawn, NoAge
<1>1. /\ recOn /\ remaining' = remaining - pollAge /\ pollAge' = 0
      /\ winAge' = winAge /\ spent' = spent
  BY DEF RecoveryPoll, Charge
<1>2. \/ ~recOn'
      \/ recOn' /\ remaining' >= Poll
  BY DEF RecoveryPoll, EnoughLeft
<1> QED
  BY <1>1, <1>2

(* A cancel charges nothing, and takes that time out of the account.        *)
LEMMA BudgetCancel ==
  ASSUME BudgetInv, RecoveryCancel
  PROVE  BudgetInv'
<1> USE ClockNumbers DEF BudgetInv
<1>1. /\ recOn /\ recOn' = FALSE /\ remaining' = remaining
      /\ pollAge' = pollAge /\ winAge' = winAge /\ spent' = spent - pollAge
  BY DEF RecoveryCancel
<1>2. ClockTimes'
  BY <1>1 DEF ClockTimes
<1>3. Charged'
  BY <1>1 DEF ClockTimes, Charged
<1>4. NotOverdrawn'
  BY <1>1 DEF ClockTimes, Charged, NotOverdrawn
<1> QED
  BY <1>2, <1>3, <1>4

-----------------------------------------------------------------------------
(* The invariant holds in every reachable state.                            *)
LEMMA BudgetInvariant ==
  ASSUME MaxDuration >= Poll
  PROVE  ClockSpec => []BudgetInv
<1>1. BudgetInv /\ [ClockNext]_clockVars => BudgetInv'
  <2> SUFFICES ASSUME BudgetInv, [ClockNext]_clockVars PROVE BudgetInv'
    OBVIOUS
  <2>1. CASE UNCHANGED recClock
    BY <2>1 DEF recClock, BudgetInv, ClockTimes, Charged, NotOverdrawn
  <2>2. CASE Tick
    BY <2>2, BudgetTick
  <2>3. CASE RecoveryStarts
    BY <2>3, BudgetStart
  <2>4. CASE RecoveryPoll
    BY <2>4, BudgetPoll
  <2>5. CASE RecoveryCancel
    BY <2>5, BudgetCancel
  <2>6. ASSUME DegradeMark \/ FecSkips \/ FecReads \/ FecJudges \/ FecRestart
        PROVE  UNCHANGED recClock
    BY <2>6 DEF DegradeMark, FecSkips, FecReads, FecJudges, FecRestart, recClock
  <2> QED
    BY <2>1, <2>2, <2>3, <2>4, <2>5, <2>6 DEF ClockNext, clockVars
<1> QED
  BY <1>1, BudgetInit, PTL DEF ClockSpec

(* The recoveries of one window spend no more than the maximal duration and *)
(* the lateness of one poll, for every window, timeout, interval and        *)
(* lateness: sbl_pml_recovery_rate_test() with the charge of each poll.     *)
THEOREM BudgetIsKept ==
  ASSUME MaxDuration >= Poll
  PROVE  ClockSpec => []BudgetKept
<1>1. BudgetInv => BudgetKept
  BY ClockNumbers
     DEF BudgetInv, ClockTimes, Charged, NotOverdrawn, BudgetKept
<1> QED
  BY <1>1, BudgetInvariant, PTL

-----------------------------------------------------------------------------
(* What is proved of the alarms.  The ages are bounded, and a recovery is   *)
(* over before a period of FEC counts has passed.                           *)
Ages == {recAge, pollAge, slotAge, curAge, prevAge} \subseteq 0 .. OldAge

RecoveryShort ==
  recOn => pollAge <= Poll + Late /\ recAge - pollAge < Timeout

(* Errors are counted in a recovery only, whose beginning and end are       *)
(* triggers of the discard: counts with errors have one of them in their    *)
(* window, or a recovery that still runs began before it.                   *)
NoiseMarked ==
  /\ recOn /\ recAge <= curAge => slotAge <= recAge
  /\ noise # 0 => recOn \/ slotAge <= curAge
  /\ fecPc = "check" /\ rates # 0 => slotAge <= prevAge

AlarmInv == Ages /\ RecoveryShort /\ NoiseMarked

(* An age grows by one until it stops, and stays in its order with others.  *)
LEMMA OlderIs ==
  ASSUME NEW a \in 0 .. OldAge
  PROVE  /\ Older(a) \in 0 .. OldAge
         /\ a < OldAge => Older(a) = a + 1
         /\ \A b \in 0 .. OldAge : a <= b => Older(a) <= Older(b)
<1> USE ClockNumbers DEF Older, NoAge
<1>1. Older(a) \in 0 .. OldAge /\ (a < OldAge => Older(a) = a + 1)
  OBVIOUS
<1>2. ASSUME NEW b \in 0 .. OldAge, a <= b PROVE Older(a) <= Older(b)
  BY <1>2
<1> QED
  BY <1>1, <1>2

(* A recovery under way is younger than a period of counts.                 *)
LEMMA RecoveryIsYoung ==
  ASSUME Ages, RecoveryShort, recOn
  PROVE  /\ recAge < Period /\ recAge < OldAge /\ pollAge < OldAge
<1>1. /\ Poll \in Nat /\ Late \in Nat /\ Timeout \in Nat /\ Period \in Nat
      /\ Window \in Nat /\ Timeout + Poll + Late < Period
  BY ClockAssumption
<1>2. OldAge = Window + Timeout + 2 * Period + 2
  BY DEF OldAge
<1>3. recAge \in Int /\ pollAge \in Int
  BY <1>1, <1>2 DEF Ages
<1> QED
  BY <1>1, <1>2, <1>3 DEF RecoveryShort

(* A rate of zero is never bad.                                             *)
LEMMA ZeroIsGood == ~UcwBad(0) /\ ~CcwBad(0) /\ ~TxrBad(0)
<1>1. \A a, b \in Nat : a * b \in Nat
  OBVIOUS
<1>2. \A n \in Nat : n \div 100 \in Nat
  OBVIOUS
<1>3. \A n \in Nat : ~(0 > n)
  OBVIOUS
<1>4. \A k \in {"ucw", "ccw", "txr"} : Threshold[k] \in Nat /\ Adjust[k] \in Nat
  BY ClockAssumption
<1>5. /\ (Threshold["ucw"] * Adjust["ucw"]) \div 100 \in Nat
      /\ (Threshold["ccw"] * Adjust["ccw"]) \div 100 \in Nat
  <2>1. /\ Threshold["ucw"] * Adjust["ucw"] \in Nat
        /\ Threshold["ccw"] * Adjust["ccw"] \in Nat
    BY <1>1, <1>4
  <2> QED
    BY <1>2, <2>1
<1>6. \A n \in Nat : ~Exceeds(0, n)
  BY <1>3 DEF Exceeds
<1> QED
  BY <1>4, <1>5, <1>6 DEF UcwBad, CcwBad, TxrBad

(* The initial states satisfy the invariant.                                *)
LEMMA AlarmInit == ClockInit => AlarmInv
<1> SUFFICES ASSUME ClockInit PROVE AlarmInv
  OBVIOUS
<1>1. OldAge \in Nat
  BY ClockNumbers
<1>2. 0 \in 0 .. OldAge /\ OldAge \in 0 .. OldAge
  BY <1>1
<1>3. Ages
  BY <1>2 DEF ClockInit, Ages
<1>4. RecoveryShort /\ NoiseMarked
  BY DEF ClockInit, RecoveryShort, NoiseMarked
<1> QED
  BY <1>3, <1>4 DEF AlarmInv

(* A tick ages the slot with the window it falls into, and forgets it only  *)
(* when it is older than all counts.                                        *)
LEMMA AlarmTick ==
  ASSUME AlarmInv, Tick
  PROVE  AlarmInv'
<1>1. /\ recAge \in 0 .. OldAge /\ pollAge \in 0 .. OldAge
      /\ slotAge \in 0 .. OldAge /\ curAge \in 0 .. OldAge
      /\ prevAge \in 0 .. OldAge /\ OldAge \in Nat
  BY ClockNumbers DEF AlarmInv, Ages
<1>2. /\ recOn' = recOn /\ fecPc' = fecPc /\ rates' = rates
      /\ recAge' = Since(recOn, recAge) /\ pollAge' = Since(recOn, pollAge)
      /\ curAge' = Older(curAge) /\ prevAge' = Since(fecPc = "check", prevAge)
      /\ slotAge' = IF OldSlot THEN OldAge ELSE Older(slotAge)
  BY DEF Tick
<1>3. /\ recOn => recAge' = Older(recAge) /\ pollAge' = Older(pollAge)
      /\ ~recOn => recAge' = 0 /\ pollAge' = 0
      /\ fecPc = "check" => prevAge' = Older(prevAge)
      /\ fecPc # "check" => prevAge' = 0
      /\ OldSlot => slotAge' = OldAge
      /\ ~OldSlot => slotAge' = Older(slotAge)
  BY <1>2 DEF Since
<1>4. \A a \in 0 .. OldAge :
        /\ Older(a) \in 0 .. OldAge
        /\ a < OldAge => Older(a) = a + 1
        /\ \A b \in 0 .. OldAge : a <= b => Older(a) <= Older(b)
  BY OlderIs
<1>5. Ages'
  <2>1. OldAge \in 0 .. OldAge /\ 0 \in 0 .. OldAge
    BY <1>1
  <2>2. /\ recAge' \in 0 .. OldAge /\ pollAge' \in 0 .. OldAge
        /\ prevAge' \in 0 .. OldAge /\ slotAge' \in 0 .. OldAge
        /\ curAge' \in 0 .. OldAge
    BY <1>1, <1>2, <1>3, <1>4, <2>1
  <2>3. OldAge' = OldAge
    BY DEF OldAge
  <2> QED
    BY <2>2, <2>3 DEF Ages
<1>6. ASSUME recOn
      PROVE  recAge' = recAge + 1 /\ pollAge' = pollAge + 1
  <2>1. recAge < OldAge /\ pollAge < OldAge
    BY <1>6, RecoveryIsYoung DEF AlarmInv
  <2> QED
    BY <1>1, <1>3, <1>4, <1>6, <2>1
<1>7. RecoveryShort'
  <2> SUFFICES ASSUME recOn
               PROVE  pollAge' <= Poll + Late /\ recAge' - pollAge' < Timeout
    BY <1>2 DEF RecoveryShort
  <2>1. pollAge < Poll + Late /\ recAge - pollAge < Timeout
    BY DEF Tick, AlarmInv, RecoveryShort
  <2> QED
    BY <1>1, <1>6, <2>1, ClockNumbers
<1>8. slotAge <= curAge => slotAge' <= curAge'
  BY <1>1, <1>2, <1>3, <1>4 DEF OldSlot
<1>9. ASSUME recOn, recAge' <= curAge' PROVE slotAge' <= recAge'
  <2>1. recAge <= curAge
    <3>1. CASE curAge < OldAge
      <4>1. curAge' = curAge + 1
        BY <1>1, <1>2, <1>4, <3>1
      <4>2. recAge' = recAge + 1
        BY <1>6, <1>9
      <4> QED
        BY <1>1, <1>9, <4>1, <4>2
    <3>2. CASE ~(curAge < OldAge)
      BY <1>1, <3>2
    <3> QED
      BY <3>1, <3>2
  <2>2. slotAge <= recAge
    BY <1>9, <2>1 DEF AlarmInv, NoiseMarked
  <2>3. ~OldSlot
    BY <1>1, <2>1, <2>2 DEF OldSlot
  <2> QED
    BY <1>1, <1>3, <1>4, <1>9, <2>2, <2>3
<1>10. ASSUME noise' # 0, ~recOn PROVE slotAge' <= curAge'
  <2>1. noise # 0
    BY <1>10 DEF Tick
  <2> QED
    BY <1>8, <1>10, <2>1 DEF AlarmInv, NoiseMarked
<1>11. ASSUME fecPc = "check", rates # 0 PROVE slotAge' <= prevAge'
  <2>1. slotAge <= prevAge
    BY <1>11 DEF AlarmInv, NoiseMarked
  <2>2. ~OldSlot
    BY <1>11, <2>1 DEF OldSlot
  <2> QED
    BY <1>1, <1>3, <1>4, <1>11, <2>1, <2>2
<1> QED
  BY <1>2, <1>5, <1>7, <1>9, <1>10, <1>11 DEF AlarmInv, NoiseMarked

(* The other steps: a recovery marks its beginning and its end, and a       *)
(* window that is closed while one runs has begun before it.                *)
LEMMA AlarmNext == AlarmInv /\ [ClockNext]_clockVars => AlarmInv'
<1> SUFFICES ASSUME AlarmInv, [ClockNext]_clockVars PROVE AlarmInv'
  OBVIOUS
<1>1. /\ recAge \in 0 .. OldAge /\ pollAge \in 0 .. OldAge
      /\ slotAge \in 0 .. OldAge /\ curAge \in 0 .. OldAge
      /\ prevAge \in 0 .. OldAge /\ OldAge \in Nat
      /\ 0 \in 0 .. OldAge /\ OldAge' = OldAge
  BY ClockNumbers DEF AlarmInv, Ages, OldAge
<1>2. CASE Tick
  BY <1>2, AlarmTick
<1>3. CASE RecoveryStarts
  <2>1. /\ recOn' = TRUE /\ recAge' = 0 /\ pollAge' = 0 /\ slotAge' = 0
        /\ UNCHANGED fecClock
    BY <1>3 DEF RecoveryStarts
  <2>2. Ages'
    BY <1>1, <2>1 DEF Ages, fecClock
  <2>3. RecoveryShort'
    BY <2>1, ClockNumbers DEF RecoveryShort
  <2> QED
    BY <1>1, <2>1, <2>2, <2>3 DEF AlarmInv, NoiseMarked, fecClock
<1>4. CASE RecoveryPoll
  <2>1. /\ recOn /\ pollAge' = 0 /\ recAge' = recAge /\ UNCHANGED fecClock
        /\ \/ recOn' = FALSE /\ slotAge' = 0
           \/ recAge < Timeout /\ recOn' = recOn /\ slotAge' = slotAge
    BY <1>4 DEF RecoveryPoll
  <2>2. Ages'
    BY <1>1, <2>1 DEF Ages, fecClock
  <2>3. RecoveryShort'
    BY <1>1, <2>1, ClockNumbers DEF RecoveryShort
  <2>4. UNCHANGED <<recAge, curAge, prevAge, noise, rates, fecPc>>
    BY <2>1 DEF fecClock
  <2>5. NoiseMarked'
    <3>1. CASE recOn' = FALSE /\ slotAge' = 0
      <4>1. 0 <= curAge /\ 0 <= prevAge
        BY <1>1
      <4> QED
        BY <2>4, <3>1, <4>1 DEF NoiseMarked
    <3>2. CASE recOn' = recOn /\ slotAge' = slotAge
      BY <2>4, <3>2 DEF AlarmInv, NoiseMarked
    <3> QED
      BY <2>1, <3>1, <3>2
  <2> QED
    BY <2>2, <2>3, <2>5 DEF AlarmInv
<1>5. CASE RecoveryCancel
  <2>1. /\ recOn' = FALSE /\ slotAge' = 0
        /\ UNCHANGED <<recAge, pollAge, fecClock>>
    BY <1>5 DEF RecoveryCancel
  <2>2. Ages'
    BY <1>1, <2>1 DEF Ages, fecClock
  <2> QED
    BY <1>1, <2>1, <2>2 DEF AlarmInv, RecoveryShort, NoiseMarked, fecClock
<1>6. CASE DegradeMark
  <2>1. slotAge' = 0 /\ UNCHANGED <<recOn, recAge, pollAge, fecClock>>
    BY <1>6 DEF DegradeMark, recClock
  <2>2. Ages' /\ RecoveryShort'
    BY <1>1, <2>1 DEF AlarmInv, Ages, RecoveryShort, fecClock
  <2>3. NoiseMarked'
    BY <1>1, <2>1 DEF NoiseMarked, fecClock
  <2> QED
    BY <2>2, <2>3 DEF AlarmInv
<1>7. CASE FecSkips
  BY <1>7 DEF FecSkips, recClock, AlarmInv, Ages, RecoveryShort, NoiseMarked,
     OldAge
<1>8. CASE FecReads
  <2>1. /\ curAge >= Period /\ fecPc' = "check" /\ prevAge' = curAge
        /\ curAge' = 0 /\ rates' = noise /\ noise' = 0
        /\ UNCHANGED <<recOn, recAge, pollAge, slotAge>>
    BY <1>8 DEF FecReads, recClock
  <2>2. Ages' /\ RecoveryShort'
    BY <1>1, <2>1 DEF AlarmInv, Ages, RecoveryShort
  <2>3. ASSUME recOn PROVE slotAge <= recAge /\ recAge <= curAge
    <3>1. recAge < Period
      BY <2>3, RecoveryIsYoung DEF AlarmInv
    <3>2. recAge <= curAge
      BY <1>1, <2>1, <3>1, ClockNumbers
    <3> QED
      BY <2>3, <3>2 DEF AlarmInv, NoiseMarked
  <2>4. noise # 0 => slotAge <= curAge
    BY <1>1, <2>3 DEF AlarmInv, NoiseMarked
  <2>5. NoiseMarked'
    BY <2>1, <2>3, <2>4 DEF NoiseMarked
  <2> QED
    BY <2>2, <2>5 DEF AlarmInv
<1>9. CASE FecJudges
  BY <1>9 DEF FecJudges, recClock, AlarmInv, Ages, RecoveryShort, NoiseMarked,
     OldAge
<1>10. CASE FecRestart
  <2>1. /\ recOn = FALSE /\ curAge' = 0 /\ prevAge' = 0 /\ noise' = 0
        /\ rates' = 0 /\ UNCHANGED <<recOn, recAge, pollAge, slotAge, fecPc>>
    BY <1>10 DEF FecRestart, recClock
  <2>2. Ages'
    BY <1>1, <2>1 DEF Ages
  <2> QED
    BY <2>1, <2>2 DEF AlarmInv, RecoveryShort, NoiseMarked
<1>11. CASE UNCHANGED clockVars
  BY <1>11 DEF clockVars, recClock, fecClock, AlarmInv, Ages, RecoveryShort,
     NoiseMarked, OldAge
<1> QED
  BY <1>2, <1>3, <1>4, <1>5, <1>6, <1>7, <1>8, <1>9, <1>10, <1>11 DEF ClockNext

(* The invariant holds in every reachable state.                            *)
THEOREM AlarmsHold == ClockSpec => []AlarmInv
  BY AlarmInit, AlarmNext, PTL DEF ClockSpec

(* The FEC work takes a link down for the errors of a recovery only if the  *)
(* time it discards by was replaced after the counts were read, or in that  *)
(* tick (AlarmOnlyByRace), for every timeout, interval, lateness, period    *)
(* and threshold: the trigger at the beginning or the end of a recovery     *)
(* falls into every window in which it caused errors.                       *)
THEOREM AlarmNeedsRace == ClockSpec => AlarmOnlyByRace
<1> DEFINE OnlyByRace == ~fecDown /\ fecDown' => slotAge <= curAge
<1>1. AlarmInv /\ [ClockNext]_clockVars => [OnlyByRace]_clockVars
  <2> SUFFICES ASSUME AlarmInv, ClockNext, ~fecDown, fecDown'
               PROVE  slotAge <= curAge
    OBVIOUS
  <2>1. FecJudges
    BY DEF ClockNext, Tick, RecoveryStarts, RecoveryPoll, RecoveryCancel,
       DegradeMark, FecSkips, FecReads, FecRestart, fecClock
  <2>2. /\ fecPc = "check" /\ ~Discards
        /\ UcwBad(rates) \/ CcwBad(rates) \/ TxrBad(rates)
    BY <2>1 DEF FecJudges
  <2>3. rates # 0
    BY <2>2, ZeroIsGood
  <2>4. slotAge <= prevAge
    BY <2>2, <2>3 DEF AlarmInv, NoiseMarked
  <2>5. slotAge \in Int /\ curAge \in Int
    BY ClockNumbers DEF AlarmInv, Ages
  <2> QED
    BY <2>2, <2>4, <2>5 DEF Discards
<1>2. AlarmOnlyByRace <=> [][OnlyByRace]_clockVars
  BY DEF AlarmOnlyByRace
<1> HIDE DEF OnlyByRace
<1>3. ClockSpec => [][OnlyByRace]_clockVars
  BY <1>1, AlarmsHold, PTL DEF ClockSpec
<1> QED
  BY <1>2, <1>3

-----------------------------------------------------------------------------
(* While a recovery runs something is left of its budget, and the time      *)
(* since the last poll is part of what was spent.                           *)
Spending ==
  /\ remaining \in -(Poll + Late) .. MaxDuration /\ spent \in Nat
  /\ recOn => remaining > 0 /\ pollAge <= spent

ClockTyped ==
  /\ recOn \in BOOLEAN /\ fecDown \in BOOLEAN
  /\ winAge \in NoAge .. OldAge
  /\ fecWait \in 0 .. Period /\ fecPc \in {"idle", "check"}
  /\ {noise, rates} \subseteq {0, ManyErrors}

(* What one step leaves of the budget.                                      *)
LEMMA SpendingNext ==
  Spending /\ AlarmInv /\ [ClockNext]_clockVars => Spending'
<1> SUFFICES ASSUME Spending, AlarmInv, [ClockNext]_clockVars PROVE Spending'
  OBVIOUS
<1>0. /\ pollAge \in 0 .. OldAge /\ remaining \in Int /\ spent \in Nat
      /\ recOn => pollAge <= Poll + Late
  BY ClockNumbers DEF AlarmInv, Ages, RecoveryShort, Spending
<1> USE ClockNumbers DEF Spending
<1>1. CASE UNCHANGED recClock
  BY <1>1 DEF recClock
<1>2. CASE Tick
  <2>1. recOn' = recOn /\ pollAge' = Since(recOn, pollAge)
    BY <1>2 DEF Tick
  <2>2. CASE recOn
    <3>1. /\ remaining' = remaining /\ spent' = spent + 1
          /\ pollAge' = pollAge \/ pollAge' = pollAge + 1
      BY <1>2, <2>1, <2>2 DEF Tick, Since, Older
    <3>2. remaining > 0 /\ pollAge <= spent
      BY <2>2
    <3>3. spent' \in Nat /\ pollAge' <= spent'
      BY <1>0, <3>1, <3>2
    <3> QED BY <1>0, <3>1, <3>2, <3>3
  <2>3. CASE ~recOn
    <3>1. \/ remaining' = 0 /\ spent' = 0
          \/ remaining' = remaining /\ spent' = spent
      BY <1>2, <2>3 DEF Tick
    <3> QED BY <1>0, <2>1, <2>3, <3>1
  <2> QED BY <2>2, <2>3
<1>3. CASE RecoveryStarts
  <2>1. /\ pollAge' = 0
        /\ \/ remaining' = MaxDuration /\ spent' = 0
           \/ remaining' = remaining /\ spent' = spent /\ remaining >= Poll
    BY <1>3 DEF RecoveryStarts, EnoughLeft
  <2> QED BY <1>0, <2>1
<1>4. CASE RecoveryPoll
  <2>1. /\ recOn /\ pollAge' = 0 /\ spent' = spent
        /\ remaining' = remaining - pollAge
        /\ recOn' => remaining' >= Poll
    BY <1>4 DEF RecoveryPoll, Charge, EnoughLeft
  <2> QED BY <1>0, <2>1
<1>5. CASE RecoveryCancel
  <2>1. /\ recOn /\ recOn' = FALSE /\ remaining' = remaining
        /\ spent' = spent - pollAge
    BY <1>5 DEF RecoveryCancel
  <2> QED BY <1>0, <2>1
<1>6. ASSUME DegradeMark \/ FecSkips \/ FecReads \/ FecJudges \/ FecRestart
      PROVE  UNCHANGED recClock
  BY <1>6 DEF DegradeMark, FecSkips, FecReads, FecJudges, FecRestart, recClock
<1> QED BY <1>1, <1>2, <1>3, <1>4, <1>5, <1>6 DEF ClockNext, clockVars

(* The other variables.                                                     *)
LEMMA ClockTypedNext == ClockTyped /\ [ClockNext]_clockVars => ClockTyped'
<1> SUFFICES ASSUME ClockTyped, [ClockNext]_clockVars PROVE ClockTyped'
  OBVIOUS
<1>1. recOn' \in BOOLEAN
  <2>1. recOn' \in {recOn, TRUE, FALSE}
    BY DEF ClockNext, Tick, RecoveryStarts, RecoveryPoll, RecoveryCancel,
       DegradeMark, FecSkips, FecReads, FecJudges, FecRestart, clockVars,
       recClock
  <2> QED BY <2>1, Zenon DEF ClockTyped
<1>2. fecDown' \in BOOLEAN
  <2>1. CASE FecJudges
    BY <2>1, Zenon DEF FecJudges
  <2>2. CASE ~FecJudges
    <3>1. fecDown' \in {fecDown, FALSE}
      BY <2>2 DEF ClockNext, Tick, RecoveryStarts, RecoveryPoll, RecoveryCancel,
         DegradeMark, FecSkips, FecReads, FecRestart, clockVars, fecClock
    <3> QED BY <3>1, Zenon DEF ClockTyped
  <2> QED BY <2>1, <2>2
<1>3. winAge' \in NoAge .. OldAge
  <2>1. winAge' \in {winAge, 0, NoAge, Older(winAge)}
    BY DEF ClockNext, Tick, RecoveryStarts, RecoveryPoll, RecoveryCancel,
       DegradeMark, FecSkips, FecReads, FecJudges, FecRestart, clockVars,
       recClock
  <2> QED BY <2>1, ClockNumbers DEF ClockTyped, Older, NoAge
<1>4. fecWait' \in 0 .. Period
  <2>1. \/ fecWait' \in {fecWait, 0, Period}
        \/ fecWait # 0 /\ fecWait' = fecWait - 1
    BY DEF ClockNext, Tick, RecoveryStarts, RecoveryPoll, RecoveryCancel,
       DegradeMark, FecSkips, FecReads, FecJudges, FecRestart, clockVars,
       fecClock
  <2> QED BY <2>1, ClockNumbers DEF ClockTyped
<1>5. /\ fecPc' \in {"idle", "check"}
      /\ {noise', rates'} \subseteq {0, ManyErrors}
  BY DEF ClockNext, Tick, RecoveryStarts, RecoveryPoll, RecoveryCancel,
     DegradeMark, FecSkips, FecReads, FecJudges, FecRestart, clockVars, fecClock,
     ClockTyped
<1> QED BY <1>1, <1>2, <1>3, <1>4, <1>5 DEF ClockTyped, OldAge, ManyErrors

(* Times and counts keep their types, for all constants: with a recovery    *)
(* that ends as soon as its budget is used up, the budget is never          *)
(* overdrawn by more than a late poll, also when it is below one interval.  *)
THEOREM ClockTypes == ClockSpec => []ClockTypeOK
<1>1. ClockInit => Spending /\ ClockTyped
  <2> SUFFICES ASSUME ClockInit PROVE Spending /\ ClockTyped
    OBVIOUS
  <2>1. Spending
    BY ClockNumbers DEF ClockInit, Spending
  <2>2. recOn \in BOOLEAN /\ fecDown \in BOOLEAN
    BY Zenon DEF ClockInit
  <2>3. winAge \in NoAge .. OldAge /\ fecWait \in 0 .. Period
    BY ClockNumbers DEF ClockInit, NoAge
  <2> QED BY <2>1, <2>2, <2>3 DEF ClockInit, ClockTyped
<1>2. AlarmInv /\ Spending /\ ClockTyped => ClockTypeOK
  <2>1. 0 .. OldAge \subseteq NoAge .. OldAge
    BY ClockNumbers DEF NoAge
  <2> QED BY <2>1 DEF AlarmInv, Ages, Spending, ClockTyped, ClockTypeOK
<1> QED BY <1>1, <1>2, SpendingNext, ClockTypedNext, AlarmsHold, PTL
        DEF ClockSpec

-----------------------------------------------------------------------------
(* The deadline, where it is now, is that of the begin or of autoneg with   *)
(* what the extensions may have added.                                      *)
DeadlineInv ==
  /\ TimeoutTypeOK
  /\ stage # "idle" => left + elapsed <= limit + Extra

(* An extension adds what is required or nothing, and leaves at least that  *)
(* much to a deadline that has not passed.                                  *)
LEMMA ExtensionIsEnough ==
  ASSUME left \in Int, NEW required \in Nat, EnsureRemaining(required)
  PROVE  /\ left' \in Int /\ left' <= left + required
         /\ anActive => left' = left
         /\ ~anActive /\ ~TimedOut => left' >= required
  BY DEF EnsureRemaining, TimedOut

(* Every step of a start keeps the deadline where it may be.                *)
LEMMA DeadlineNext == DeadlineInv /\ [TimeoutNext]_timeoutVars => DeadlineInv'
<1> SUFFICES ASSUME DeadlineInv, [TimeoutNext]_timeoutVars PROVE DeadlineInv'
  OBVIOUS
<1> USE DEF DeadlineInv, TimeoutTypeOK
<1>1. CASE StartBegins
  <2>1. /\ stage' = "mode" /\ limit' \in Nat /\ left' = limit'
        /\ elapsed' = 0 /\ tuneNeed' \in Nat /\ anActive' = FALSE
    BY <1>1, TimeoutAssumption DEF StartBegins
  <2>2. anActive' \in BOOLEAN
    BY <2>1, Zenon
  <2>3. left' + elapsed' <= limit' + Extra'
    BY <2>1 DEF Extra
  <2> QED BY <2>1, <2>2, <2>3
<1>2. CASE TimePasses
  BY <1>2 DEF TimePasses, Extra
<1>3. CASE ModeIsSet
  BY <1>3 DEF ModeIsSet, Extra
<1>4. CASE ModeIsAgreed
  <2>1. /\ stage' = "serdes" /\ left' \in Nat /\ anActive' = TRUE
        /\ limit' = elapsed + left' /\ UNCHANGED <<elapsed, tuneNeed>>
    BY <1>4, TimeoutAssumption DEF ModeIsAgreed
  <2> QED BY <2>1 DEF Extra
<1>5. CASE TuneBegins
  <2>1. /\ left' \in Int /\ left' <= left + tuneNeed
        /\ anActive => left' = left
    BY <1>5, ExtensionIsEnough DEF TuneBegins
  <2> QED BY <1>5, <2>1 DEF TuneBegins, Extra
<1>6. CASE PmlBegins
  <2>1. PmlNeed \in Nat
    BY TimeoutAssumption
  <2>2. /\ left' \in Int /\ left' <= left + PmlNeed
        /\ anActive => left' = left
    BY <1>6, <2>1, ExtensionIsEnough DEF PmlBegins
  <2> QED BY <1>6, <2>1, <2>2 DEF PmlBegins, Extra
<1>7. CASE StartEnds
  BY <1>7 DEF StartEnds
<1>8. CASE UNCHANGED timeoutVars
  BY <1>8 DEF timeoutVars, Extra
<1> QED
  BY <1>1, <1>2, <1>3, <1>4, <1>5, <1>6, <1>7, <1>8 DEF TimeoutNext

(* The deadline of a start is where it may be.                              *)
LEMMA DeadlineHolds == TimeoutSpec => []DeadlineInv
<1>1. TimeoutInit => DeadlineInv
  <2> SUFFICES ASSUME TimeoutInit PROVE DeadlineInv
    OBVIOUS
  <2>1. anActive \in BOOLEAN
    BY Zenon DEF TimeoutInit
  <2> QED BY <2>1 DEF TimeoutInit, DeadlineInv, TimeoutTypeOK
<1> QED BY <1>1, DeadlineNext, PTL DEF TimeoutSpec

(* The deadline and its parts are numbers, whatever passes of time and      *)
(* extensions come in between.                                              *)
THEOREM TimeoutTypes == TimeoutSpec => []TimeoutTypeOK
<1>1. DeadlineInv => TimeoutTypeOK
  BY DEF DeadlineInv
<1> QED BY <1>1, DeadlineHolds, PTL

(* A start whose waits go on is within its limit, for all timeouts that     *)
(* attributes, modes and autoneg may ask for: no slow step or late          *)
(* extension lets sbl_base_link_start() wait longer than its start timeout  *)
(* with the two extensions, or than the timeout of autoneg without any.     *)
THEOREM StartIsLimited == TimeoutSpec => []GoesOnInTime
<1>1. DeadlineInv => GoesOnInTime
  <2> SUFFICES ASSUME DeadlineInv, stage # "idle", ~TimedOut
               PROVE  elapsed <= limit + Extra
    BY DEF GoesOnInTime
  <2>1. Extra \in Int
    BY TimeoutAssumption DEF DeadlineInv, TimeoutTypeOK, Extra
  <2>2. left + elapsed <= limit + Extra /\ left >= 0
    BY DEF DeadlineInv, TimeoutTypeOK, TimedOut
  <2> QED BY <2>1, <2>2 DEF DeadlineInv, TimeoutTypeOK
<1> QED BY <1>1, DeadlineHolds, PTL

(* Tuning and bring-up begin with the time they need if the deadline has    *)
(* not passed, whatever was left and however much they need.                *)
THEOREM NeedsAreMet == TimeoutSpec => ExtensionSuffices
<1> DEFINE Suffices ==
      \A s \in {"tune", "pml"} :
        Entered(s) /\ ~anActive /\ ~TimedOut => left' >= Need(s)
<1>1. DeadlineInv /\ [TimeoutNext]_timeoutVars => [Suffices]_timeoutVars
  <2> SUFFICES ASSUME DeadlineInv, TimeoutNext, NEW s \in {"tune", "pml"},
                      Entered(s), ~anActive, ~TimedOut
               PROVE  left' >= Need(s)
    OBVIOUS
  <2>1. left \in Int /\ tuneNeed \in Nat /\ PmlNeed \in Nat
    BY TimeoutAssumption DEF DeadlineInv, TimeoutTypeOK
  <2>2. \/ TuneBegins /\ s = "tune"
        \/ PmlBegins /\ s = "pml"
    BY DEF TimeoutNext, Entered, StartBegins, TimePasses, ModeIsSet,
       ModeIsAgreed, TuneBegins, PmlBegins, StartEnds
  <2>3. CASE TuneBegins /\ s = "tune"
    BY <2>1, <2>3, ExtensionIsEnough DEF TuneBegins, Need
  <2>4. CASE PmlBegins /\ s = "pml"
    BY <2>1, <2>4, ExtensionIsEnough DEF PmlBegins, Need
  <2> QED BY <2>2, <2>3, <2>4
<1> QED BY <1>1, DeadlineHolds, PTL DEF TimeoutSpec, ExtensionSuffices
=============================================================================
