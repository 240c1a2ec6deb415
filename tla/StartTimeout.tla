----------------------------- MODULE StartTimeout -----------------------------
(***************************************************************************)
(* The deadline of a start, in ticks: set at its beginning, replaced when   *)
(* autoneg agrees on a mode, and extended before the tuning and before the  *)
(* bring-up of PCS, MAC and LLR.  The deadline is kept as the time that is  *)
(* left to it, which is negative when it has passed.  The waits of a start  *)
(* test it; other steps, such as a reload of the firmware or the            *)
(* configuration of the SerDes, take their time without a test, and a wait  *)
(* that succeeds does not look at it.                                       *)
(***************************************************************************)
EXTENDS Integers

CONSTANTS
  StartLimits,   \* blattr.start_timeout
  TuneNeeds,     \* 2 * (blattr.dfe_timeout + blattr.dfe_pre_delay)
  PmlNeed,       \* SBL_PML_MIN_START_TIME
  AnLimits,      \* the timeouts of sbl_an_update_timeout()
  Horizon        \* bound: where the time of a start stops

ASSUME TimeoutAssumption ==
  /\ StartLimits \cup TuneNeeds \cup AnLimits \subseteq Nat
  /\ PmlNeed \in Nat /\ Horizon \in Nat

VARIABLES
  stage,      \* where sbl_base_link_start() is
  left,       \* last_start_jiffy - jiffies
  elapsed,    \* jiffies since start_time_begin
  anActive,   \* an_timeout_active
  tuneNeed,   \* what the tuning of this start asks for
  limit       \* history: the deadline without extensions, since the begin

timeoutVars == <<stage, left, elapsed, anActive, tuneNeed, limit>>

TimeoutInit ==
  /\ stage = "idle" /\ left = 0 /\ elapsed = 0 /\ anActive = FALSE
  /\ tuneNeed = 0 /\ limit = 0

(* sbl_start_timeout(): what each wait of a start tests.                    *)
TimedOut == left < 0

(* sbl_start_timeout_ensure_remaining()                                     *)
(* Mutant: the timeout of autoneg is extended, too.                         *)
EnsureAlways(required) ==
  left' = IF left > 0 /\ left >= required THEN left ELSE left + required

(* Mutant: a deadline that has just come is not extended.                   *)
EnsureBefore(required) ==
  left' = IF anActive \/ left <= 0 \/ left >= required
          THEN left ELSE left + required

EnsureRemaining(required) ==
  left' = IF anActive \/ (left > 0 /\ left >= required)
          THEN left ELSE left + required

-----------------------------------------------------------------------------
(* sbl_link_init_start_timeout()                                            *)
StartBegins ==
  /\ stage = "idle" /\ stage' = "mode"
  /\ limit' \in StartLimits /\ left' = limit' /\ elapsed' = 0
  /\ tuneNeed' \in TuneNeeds /\ anActive' = FALSE

TimePasses ==
  /\ stage # "idle" /\ elapsed < Horizon
  /\ left' = left - 1 /\ elapsed' = elapsed + 1
  /\ UNCHANGED <<stage, anActive, tuneNeed, limit>>

(* The mode is that of the configuration or of the cable, or of autoneg     *)
(* without a timeout of its own.                                            *)
ModeIsSet ==
  /\ stage = "mode" /\ stage' = "serdes"
  /\ UNCHANGED <<left, elapsed, anActive, tuneNeed, limit>>

(* sbl_an_update_timeout(), sbl_link_update_start_timeout()                 *)
ModeIsAgreed ==
  /\ stage = "mode" /\ stage' = "serdes"
  /\ left' \in AnLimits /\ anActive' = TRUE /\ limit' = elapsed + left'
  /\ UNCHANGED <<elapsed, tuneNeed>>

(* sbl_serdes_start(), after the detection of the partner, the              *)
(* configuration of the SerDes and the wait for the optics.                 *)
TuneBegins ==
  /\ stage = "serdes" /\ stage' = "tune"
  /\ EnsureRemaining(tuneNeed)
  /\ UNCHANGED <<elapsed, anActive, tuneNeed, limit>>

(* sbl_pml_start(), after a tune or the saved parameters.                   *)
PmlBegins ==
  /\ stage = "tune" /\ stage' = "pml"
  /\ EnsureRemaining(PmlNeed)
  /\ UNCHANGED <<elapsed, anActive, tuneNeed, limit>>

(* The link is up, or a step has failed, was cancelled or has timed out.    *)
StartEnds ==
  /\ stage # "idle" /\ stage' = "idle"
  /\ UNCHANGED <<left, elapsed, anActive, tuneNeed, limit>>

TimeoutNext ==
  \/ StartBegins \/ TimePasses \/ ModeIsSet \/ ModeIsAgreed \/ TuneBegins
  \/ PmlBegins \/ StartEnds

TimeoutSpec == TimeoutInit /\ [][TimeoutNext]_timeoutVars

-----------------------------------------------------------------------------
TimeoutTypeOK ==
  /\ stage \in {"idle", "mode", "serdes", "tune", "pml"}
  /\ left \in Int /\ elapsed \in Nat /\ anActive \in BOOLEAN
  /\ tuneNeed \in Nat /\ limit \in Nat

(* What the extensions so far may have added; autoneg allows none.          *)
Extra == IF anActive THEN 0
         ELSE CASE stage = "tune" -> tuneNeed
                [] stage = "pml" -> tuneNeed + PmlNeed
                [] OTHER -> 0

(* A start whose waits still go on is within its limit: its start timeout   *)
(* with one extension for the tuning and one for the bring-up, or, once     *)
(* autoneg has agreed on a mode, the timeout of that mode and no extension  *)
(* at all, so that both partners give up at the same time.                  *)
GoesOnInTime == stage # "idle" /\ ~TimedOut => elapsed <= limit + Extra

Need(s) == IF s = "tune" THEN tuneNeed ELSE PmlNeed
Entered(s) == stage # s /\ stage' = s

(* The tuning and the bring-up begin with the time they need, unless autoneg*)
(* has set the deadline.  If it had passed before, sbl_timers.c:125 extends *)
(* it from where it was, not from now, and less is left.                    *)
ExtensionSuffices ==
  [][\A s \in {"tune", "pml"} :
       Entered(s) /\ ~anActive /\ ~TimedOut => left' >= Need(s)]_timeoutVars
=============================================================================
