# Verification of the Slingshot base link driver (sbl)

The base link driver brings the port of a Cassini NIC or a Rosetta switch up
and down: it negotiates with the partner, tunes the SerDes, starts the PCS, MAC
and link level retry (LLR), watches the link for faults, recovers from short
ones and reports the others. This directory models that driver in TLA+, checks
the models with TLC on small instances and proves their safety properties with
TLAPS for every instance. All source paths below are relative to
`src/drivers/net/ethernet/hpe/sbl/`.

## Inventory

| Component | State | Operations | Source |
|---|---|---|---|
| Base link | `blstate`, `blerr`, attributes, media, `start_cancelled`, options; `busy_mtx`, `data_lock` | configure, start, stop, reset, clean up after a failed start, enable and cancel a start | `sbl_link.c` |
| Fault handler, recovery | `ERR_FLG`, `intr_err_flgs`, enabled interrupts, `pml_recovery` (`started`, timer, time window) | install, enable, disable, remove the handler; the handler; recovery monitor, timer, cancel | `sbl_pml.c` |
| FEC monitor | `fec_timer`, `fec_timer_work`, counters and rates, discard window | timer, work, rate thresholds | `sbl_fec.c` |
| Media | media attributes, supported modes, cable lengths | config, unconfig, validate | `sbl_media.c` |
| Autonegotiation | `an_hw_change`, exchanged pages, `lp_*` | attempt loop, page exchange, interrupt, ability match | `sbl_link_an.c`, `nic/`, `sw/` |
| SerDes | `sstate`, `reload_serdes_fw`, saved tuning parameters, configurations | start, stop, reset, partner detection, autoneg variants | `sbl_serdes.c`, `sbl_serdes_fn.c` |
| PCS | `CFG_PCS`, `STS_RX_PCS`, alignment markers, lane degrade | AM start, wait for up, alignment, stop | `sbl_pml_pcs.c` |
| LLR | `CFG_LLR_SM`, capacity, loop time | configure, start, detect, stop | `sbl_pml_llr.c` |
| MAC | registers | configure, start, stop | `sbl_pml_mac.c` |
| Start timeout, timing records | deadline in jiffies | begin, extend, test | `sbl_timers.c` |
| SerDes operation interface | `serdes_mtx`, hardware busy flag | perform an operation, poll its end | `sbl_pml_serdes_op.c` |
| SBus | the ring's operation register, result code, overrun | operation with retries, ring reset, SBM interrupt, burst | `sbl_sbm_serdes*.c` |
| Firmware | `sbm_fw_mtx`, `sbus_ring_mtx`, `reload_sbm_fw`, CRC and versions | load, verify, reload of SerDes and SBM, resets | `sbl_serdes_fn.c` |
| SerDes configuration | `serdes_config_list`, key, tag | add, delete, clear, look up, apply | `sbl_serdes.c`, `sbl_serdes_fn.c` |
| Instance | the link database, work and timers | create, delete | `sbl_inst.c` |
| Counters, debug options, messages, module glue, test module | | | the rest |

How they interact. A client thread calls the exported functions of
`sbl_link.c`. Start, stop, reset and cleanup hold `busy_mtx` throughout and
write the link's state under it, mostly without the data lock. Configuration,
enable and cancel take only the data lock and may therefore overlap them. The
fault interrupt calls `sbl_pml_hdlr()`, which starts a recovery - a timer that
polls the PCS - or calls the client back with a link down alert. The FEC timer
queues a work item, which may alert too. Handler, recovery timer and FEC work
hold no lock when they look at the state of the link, and they share
`pml_recovery` and the interrupt enables with the callers.

What is hard here is therefore concurrency: every one of these parties acts
between any two steps of the others. Below the base link, the parts it calls add
their own: threads of several ports share the SBus rings and the firmware of
their SBus master, every step on a SerDes may fail at any lane, and each wait of
a start ends by success, by the start timeout or by a cancel. PROJECT.json lists
the hazards with their lines. For each component, what makes it correct:

- base link: operations exclude each other; a port that is down or
  unconfigured has nothing registered, running or armed for it; an error
  state has its error; every call ends; a failed step leaves a state from
  which the port can be brought down.
- faults and recovery: one recovery at a time; a link that is up is watched or
  its client has been told; every fault is recovered, reported or ended by a
  stop; every recovery ends; a stop leaves none behind.
- FEC monitor: a link that is up is checked periodically, one that is down
  is not.
- PCS and SerDes: the PCS outlasts the SerDes on optical ports; a port that
  is down has its SerDes off.
- autonegotiation: attempts are bounded by the start timeout; a retry starts
  from the state the first attempt started from; the pages that are matched
  are those of this attempt.
- recovery and FEC clocks: recoveries stay within their budget of time; the
  errors that a recovery causes do not take the link down.
- SerDes: RUNNING means that every lane of the mode is tuned or restored; a tune
  never meets a running pcal; whatever step fails, the next caller finds one
  of the states it knows.
- SerDes interface and SBus: a caller gets the answer to its own request;
  success means that the operation was done, after any retries; a burst writes
  the whole image.
- firmware: nobody uses a SPICO that is being loaded, success means verified,
  no request for a reload is forgotten, and no caller waits for ever.
- configurations: one entry per key, the most specific entry wins, and its
  values reach the lanes it is for.
- PML: a link that comes up has all of PCS, MAC and LLR as its attributes ask,
  whatever failed starts left behind. (The gap is the exception: finding 2.)

## Modules

| Module | What it models |
|---|---|
| `LinkState` | the shared state of one port; the functions the parties share: interrupt registration, link down alert, PML and SerDes stop and reset; how a caller moves from step to step |
| `PmlFault` | the hardware (PCS lost, remote fault, restored, error flags), `sbl_pml_hdlr()` step by step, the recovery timer |
| `FecMonitor` | `sbl_fec_timer()` and `sbl_fec_timer_work()` |
| `LinkStart` | `sbl_base_link_start()` with the autoneg loop, one action per call it makes, and every error exit |
| `LinkStop` | stop, reset and start-failure cleanup, which share the removal of the handler and the cancelling of a recovery |
| `LinkConfig` | base link and media configuration, enable and cancel |
| `BaseLink` | all of these interleaved, the client contract, fairness, type invariant and properties |
| `LinkLifecycle` | the abstract specification: states, transitions and the watch for faults as a client sees them |
| `QuietInv` | the inductive invariant behind `QuietWhenDown` |
| `BaseLinkClaims` | what comments say and the code does not do |
| `Firmware` | loading, verifying and reloading the firmware of SerDes and SBus master by several threads, with the mutexes they take in their order; the two kinds of reset; readers of status files |
| `SerdesOp` | `sbl_pml_serdes_op()`: mutex, busy flag, timeout and the late answer; a read-modify-write through it |
| `Sbus` | `sbl_sbus_op_aux()` with retries and ring resets, `sbl_sbm_spico_int()`, `sbl_spico_burst_upload()` |
| `SerdesStart` | the SerDes of a port: configuration, tuning, saved parameters, pcal, stop and reset, each able to fail at any lane |
| `SerdesService` | the abstract specification: the SerDes as the base link sees it |
| `SerdesConfig` | the list of configurations, their lookup, and the lane loop that applies them |
| `Autoneg` | `sbl_link_autoneg()` with the page exchange, the completion and its interrupt, against a partner that may start over |
| `PmlStart` | the bring-up of PCS, MAC and LLR: waits, mode resolution, loop time, and what stop and cleanup leave |
| `AutonegService` | the abstract specification: autonegotiation as the base link sees it |
| `RecoveryClock` | time: the budget of recoveries, and the FEC work with its discard window |
| `StartTimeout` | the deadline of a start, its replacement by autoneg and its two extensions |
| `BaseLinkProofs`, `LifecycleProofs`, `WatchProofs` | proofs about `BaseLink`, each on top of the one before |
| `FirmwareProofs` | proofs about `Firmware` |
| `SerdesOpProofs` | proofs about `SerdesOp` and `Sbus` |
| `RecoveryClockProofs` | proofs about `RecoveryClock` and `StartTimeout` |
| `StartProofs` | proofs about `SerdesConfig`, `Autoneg`, `PmlStart` and `SerdesStart` |
| `PartsProofs` | the parts together, from the proofs about each |
| `MCBaseLink`, `MCParts`, `MCProgress`, `MCPml`, `MCValues` | instances for TLC |

How they fit together. `LinkStart` and `LinkStop` take what the parts do as one
step with the outcomes it may have: `StartSerdes` those of `SerdesStart`,
`AnExchange` those of `Autoneg`, `StartPml` those of `PmlStart`,
`StartFirmware` those of `Firmware`, `HdlrRate` and `RecPollGiveUp` those of
`RecoveryClock`. `SerdesService` states that contract for the SerDes, and
`ImplementsService` checks that `SerdesStart` keeps it: which states a call is
accepted in, which it may end in and when a reload of the firmware is due.
`AutonegService` states it for autonegotiation, and `ImplementsAnService` checks
that `Autoneg` keeps it: a call that fails while it is set up leaves the SerDes
alone, pages are exchanged with the SerDes in autoneg, a cancel or the timeout is
blamed only if there was one, the SerDes is out of autoneg at the end. The service
lets an attempt find the SerDes still in autoneg and fail with EUCLEAN, as the code
does; that this is not what the retry is for is finding 4. (The errors of the
exchange, ETIME and EBADE, are one in `LinkStart`, which does not tell them
apart; a failed enabling of the interrupt is the EIO of both.) In
`SerdesStart` the reads and writes of a lane are one step that may fail; below
it, `SerdesOp` and `Sbus` show what the success of such a step means, and
`Firmware` what its mutexes keep apart.

State and code. Each variable is a field of `struct sbl_link` or a register
(the declarations in `LinkState` name them). Registers that are only written
and read back as a whole are left out; `llrLimited` keeps of
`CFG_LLR_SM.replay_ct_max` whether it is below "unlimited", because the set of
monitored flags is computed from that register each time it is needed. `pcs`
is what `STS_RX_PCS` and the remote fault status say together. `pc` is a
thread's position in its function: a step is one call or the statements
between two calls that only this thread can see, so every read of shared
state and every write has the interleavings that the code has. `err` is the
local `err` of the thread that holds `busy_mtx`. `alerted` is a history
variable, not state of the driver; so are `verified` (`Firmware`), `ready`
and `atCall` (`SerdesStart`), `clean` and `sent` (`Sbus`: the bytes that writes
have carried, in their order), `hpcAsked` and `loopFor` (`PmlStart`: whether this
start has resolved LLR with HPC, and for which cable the loop time was measured),
`spent` and `noise` (`RecoveryClock`) and the numbers that mark a page (`Autoneg`) or a
request (`SerdesOp`). A start that ends in success has its state
change and the arming of the FEC timer as two steps (`StartDone`, `StartArm`),
a configuration its check and its write, since holders of `busy_mtx` write the
state without the data lock.

Assumptions about what is not in the repository, or not in the model:

- The framework's interrupt operations fail only if `OpsMayFail`; its removal
  of a handler waits for a running one iff `RemoveWaits` (like `free_irq`).
  Both values are checked.
- A flag in `ERR_FLG` is latched when its condition appears and stays until
  it is cleared. `FaultIsReported` depends on this and says so.
- The client contract (`SerialClient`, in `BaseLink`): start, reset, cleanup,
  config and media changes of one port come from one state machine, so they do
  not overlap each other, and cleanup is called for a port in error. Stop,
  cancel and enable may come at any time, media removal during a stop too:
  the code admits STOPPING there. Without the contract, the unlocked write of
  a configuration can undo any state change; no property is claimed then.

## Runs

| Run | Question | Distinct states |
|---|---|---|
| `Cables` | one client, electrical (autoneg) or optical cable, hardware dropping the PCS at any time: is a port that is up watched and one that is down off; does a stop end the recovery; does the PCS outlast an optical SerDes | 1.3 M |
| `Clients` | two clients, all nine calls: is a port at rest quiet, is the inductive invariant an invariant, is `LinkLifecycle` implemented | 570 k |
| `DebugOptions` | a port in local loopback with `INHIBIT_CLEANUP` and `KEEP_SERDES_UP`, whose error rate raises the interrupt: is a port at rest quiet | 690 k |
| `OpsFail` | failing interrupt operations, a remove that does not wait, a replay limit that changes: does a stop compute the flags that the start registered | 760 k |
| `Faults` | do operations and recoveries end in spite of faults | 149 k |
| `Parts` | the safety of every part below the base link | 1.19 M |
| `Progress` | do operations end with two overlapping clients; do the firmware operations end; does every loop inside a start end | 99 k |
| `ClaimFec`, `ClaimGap`, `ClaimFault`, `ClaimRetry`, `ClaimInterrupts` | one comment each, with its counterexample | |

`Parts` and `Progress` choose one part at the start of a behaviour and leave the
others at rest, so that each part is explored with its own constants and one
run covers them all; the parts have no variable in common. A property of the base
link that a theorem states for every cable, debug option and failing operation is
checked in one run only.

Properties of the base link, in `BaseLink`: `TypeOK`; `QuietWhenDown` (no
registration, no running handler at rest); `UpIsMonitored`; `UpHasFecCheck`;
`SerdesOffWhenDown`; `ErrorHasReason`; `RecoveryExclusive` (handler, timer and
callback never find two recoveries, though `started` is not locked);
`MonitorFlagsMatchLlr` (stop computes the flags that start registered);
`StopCancelsRecovery`; `PcsHeldWhileSerdesRuns`; `ImplementsLifecycle`;
`OpsTerminate`; `RecoveryEnds`.

Properties of the parts:

| Property | Module | What it says |
|---|---|---|
| `UploadExclusive` | `Firmware` | while the SBus master of a ring is loaded, no other thread loads a SerDes through it |
| `NoInterruptInLoad` | `Firmware` | no interrupt of a SPICO that is being loaded or reset |
| `SuccessIsVerified` | `Firmware` | a load that reports success has seen the CRC pass after the last write |
| `RequestServed` | `Firmware` | a request for a reload always has a thread that will look at it |
| `NoDeadlock` | `Firmware` | no threads wait for each other's mutexes, or for one that was not given back |
| `FwOpsEnd` | `Firmware` | every operation ends: no deadlock over the three kinds of mutex, no mutex kept on an error path |
| `OwnResult`, `RmwTakesEffect` | `SerdesOp` | with timeouts and late answers, a result belongs to its request, and a read-modify-write that succeeds has changed its bits only |
| `SbusSuccessIsDone` | `Sbus` | with retries, overruns and ring resets, success means done |
| `BurstWritesImage` | `Sbus` | the writes of a burst carry the image from its first byte on, in order, none twice and none past the end, also if one fails; all of it if the upload succeeds; for every even size of four or more |
| `RunningIsReady` | `SerdesStart` | a SerDes is RUNNING only with all lanes tuned or restored |
| `TuneWithoutPcal` | `SerdesStart` | no lane is tuned while its pcal runs |
| `ImplementsService` | `SerdesStart` | the SerDes is what the base link takes it for |
| `KeysAreUnique`, `LookupMostSpecific`| `SerdesConfig` | the list holds no two entries of one key; a lookup gives the most specific match, the first of equals |
| `PagesAreFresh` | `Autoneg` | abilities are matched on pages of this attempt, in their order |
| `ImplementsAnService` | `Autoneg` | autonegotiation is what the base link takes it for |
| `UpIsWhole` | `PmlStart` | a link that comes up has PCS, lanes, lane degrade, MAC and LLR as mode and options ask, with no stage left open; its gap is the one this start asked for, or the HPC gap if LLR runs and an earlier start had resolved HPC |
| `LoopTimeFits` | `PmlStart` | LLR runs on a loop time measured, for this cable and loopback |
| `BudgetKept` | `RecoveryClock` | recoveries of one window take no more than the budget and one late poll |
| `AlarmOnlyByRace` | `RecoveryClock` | errors of a recovery take the link down only in the one race that the discard slot leaves |
| `GoesOnInTime` | `StartTimeout` | a start that still waits is within its timeout and its two extensions, or within the timeout of autoneg |
| `ExtensionSuffices` | `StartTimeout` | tuning and bring-up begin with the time they need, unless the deadline has passed |
| `StartStepsEnd` | `MCProgress` | tuning, autonegotiation and the waits of PCS and LLR end |

Where a property does not hold, and is not claimed: `UpHasFecCheck` with
clients that cancel (a cancel just after the start has armed the timer deletes
it, `sbl_link.c:761`); `ErrorHasReason` with `INHIBIT_CLEANUP`, where an alert
sets the error without any lock; `SerdesOffWhenDown` with the debug options,
whose purpose is to leave things running (the recovery is cancelled
with them too: `StopLeavesNoRecovery` does not exclude them).
`SuccessIsVerified` with `SBL_DEBUG_INHIBIT_RELOAD_SBM_FW`, where
`sbl_serdes_firmware_flash_safe()` may return a result it never set
(`sbl_serdes_fn.c:632`). `FwOpsEnd` and `NoDeadlock` with the test module's stop of a SerDes:
it takes the mutex of the ring before that of the port (`sbl_serdes_fn.c:4195`),
a soft reset takes them the other way (`sbl_serdes_fn.c:2279`), and only
`busy_mtx`, which the test module does not take, keeps the two of one port apart.
An inter-frame gap that depends only on the start that brings the link up
(finding 2). That no FEC work alerts during or after a stop (`sbl_fec.c:614`): the
work looks at the state once, and a stop does not wait for it.
`ExtensionSuffices` for a deadline that has passed: it is extended from where it
was (`sbl_timers.c:125`), not from now, so that a start which is late by as much as
it needs times out at the next test.

Bounds. `PollBudget = 1` allows a recovery to poll once more before it gives
up, which gives timer callbacks both before and after another fault; more polls
repeat the same states. `AnTries` is 1, or 2 where the second attempt is the
question. One client thread suffices for the races between a caller and the
interrupt, timers and work, which do not depend on who calls; two are used for
races between callers. Hardware flags are split between the runs: a lost PCS
in `Cables` and `Faults`, a high error rate and a degrade failure in
`DebugOptions` and `OpsFail`. The flags only differ in what the handler does
with them, and LLR overrun takes the path of a high error rate. No run
disables the deadlock check.

Bounds of the parts. `Firmware`: two threads on two ports of one ring, which
share two of the three kinds of mutex; `Progress` has them on one port, where
they share all three. `Parts` has initialisation, reset, stop and a reader,
`Progress` the other operations too. `SerdesOp`: two threads, tags 0 and 1 to tell a request from
the one before. `Sbus`: the retry limit of the code; images of up to 24 bytes,
which gives every remainder of the bursts of six, any of whose writes may fail; two polls of an interrupt.
`SerdesStart`: two lanes, so that a failure may come before, between or after
them, and modes whose receive and transmit lanes differ. `SerdesConfig`: five
entries, of which two share a key, two others may match one lane equally well and
one is a default, in lists of three. `Autoneg`: two
pages to send, three to receive, two attempts, one restart of the partner; partners
that share a mode, share one after the fixup or share none, the last two with an
adapter that waits for the interrupt (a switch polls only for next pages).
`PmlStart`: a mode with all lanes and one with half; LLR that is
resolved by pages, of partners with and without HPC, or by detection on an Ethernet
link with lane degrade, and LLR that is
monitored in a fabric link in local loopback, between which the port may be
reconfigured; an optical cable, on which the PCS outlasts the SerDes, of a length that
bounds the loop time or of one that the port does not know (EBADRQC); two clear
faults in a row. `RecoveryClock`: a window
of four ticks, polls each two, so that two recoveries fall into one window, and
a FEC period longer than both; a poll comes up to one tick late. `StartTimeout`:
eight ticks, four times the start timeout, so that either extension may come too
late; a timeout of autoneg that is shorter than it and one that is longer.

Fairness. `WaitFairness` requires that a caller, the handler and the recovery
timer are run as long as they can: the kernel schedules threads, softirqs and
interrupts. A caller that waits for `busy_mtx`, for the data lock or for
`timer_delete_sync()` cannot run and nothing is assumed of it until it can.
In `Progress` the same is required of the threads of the
parts; strong fairness for the threads of `Firmware` stands for the queues of a
kernel mutex, which hands it to the first that waits. The start timeout passes, since
it is time, and a SPICO need never answer.
`Fairness` adds the FEC timer and work; the counterexample of `ClaimFault` is
given under it. Nothing obliges the hardware to restore a link, to raise a flag or to be
quiet, and nothing obliges a client to call. Loops that end at the start timeout
(autoneg) are bounded by `AnTries`: each attempt takes time from the deadline.

## Findings

1. `StopEndsFecCheck`: `sbl_base_link_stop()` deletes the FEC timer but does
   not wait for queued work, which sets the timer again (`sbl_fec.c:648`).
2. `GapAsAsked`: `llr_options` gains the HPC bit when a start resolves LLR with
   HPC (`sbl_pml_llr.c:359`, `376`) and never loses it, so a later start that
   resolves "LLR mode on without HPC" still gets the HPC gap
   (`sbl_pml_llr.c:490`).
3. `FaultIsReported`: a fault between the recovery timer's look at the PCS and
   the end of the recovery, or between the handler's look at the status and
   its clearing of the flags, is neither recovered nor reported.
4. `RetryCanStartSerdes`: the retry after an ability mismatch leaves the
   SerDes in autoneg, where the next attempt fails with EUCLEAN.
5. `InterruptsFit`: the values of a configuration are one variable of the lane
   loop, so a lane that no configuration matches is sent the interrupts of
   the lane before it (`sbl_serdes_fn.c:3823`).

## Proofs

Every safety property of a passing run is proved for all values of the
constants, and so are the three refinements. A property alone is seldom inductive, and each proof begins
with the invariant that is: it says what is true at every step of the
operations, of which the property is what matters at the end.

Hypotheses. `ConstantsAssumption`, `AnTriesAssumption`, `ClientAssumption`,
`FirmwareAssumption`, `SerdesOpAssumption`, `SbusAssumption`, `LanesAssumption`,
`EntriesAssumption`, `AutonegAssumption`, `PmlAssumption`, `ClockAssumption` and
`TimeoutAssumption` say what the constants are; TLC evaluates them in every run. What a theorem
needs beyond them is written in it:

| Hypothesis | Needed by | Why the code needs it |
|---|---|---|
| `SerialClient` | every theorem of the base link but `TypeCorrect` | see Modules: a configuration is checked and written without a lock between |
| `Debug = {}` (with `SerialClient`: `Production`) | `ErrorHasItsReason`, `LifecycleImplemented`, `UpIsWatched`, `UpIsChecked`, `SerdesIsOff`, `OpticsAreSpared` | with `INHIBIT_CLEANUP` an alert sets the error without a lock and a cleanup skips its work; with `KEEP_SERDES_UP` a stop leaves the SerDes, the PCS and the state as they are |
| `RemoveWaits` | `RecoveryIsExclusive`, `StopLeavesNoRecovery` | a handler that still runs after its removal may start a recovery that was just cancelled |
| `"cancel" \notin Ops` | `UpIsChecked` | a cancel deletes the timer that the start has just armed |
| `TRUE \notin InhibitReload` | `SuccessOfFlash` | see Runs: a result that was never set |
| `"test" \notin FwOps` | `WaitsEnd` | see Runs: the test module takes two mutexes in the other order, without `busy_mtx` |
| `MaxDuration >= Poll` | `BudgetIsKept` | see below |

`BaseLinkProofs` proves `TypeCorrect`, that `Spec` implies `[]TypeOK`, for any
set of threads, media, attributes and debug options and any bounds. `TypeOK` is
inductive as it stands; it includes that a thread is at a step of its own
operation (`StepOf`), which every later proof needs to rule out actions. Each
operation has a lemma with one step per action.

`QuietAtRest` comes next: under the client contract, `Spec` implies
`[]QuietWhenDown`. The property alone is not inductive, because a port comes to
rest in the last step of a long operation. `InductiveQuiet` adds:

- `BusyHolder`, `LockHolder`: who is inside an operation holds its mutex, so
  two operations are never past their beginning together;
- `OneExclusive`: the client contract as an invariant;
- `UnwatchedQuiet`: from the removal of the handler to the end of stop, reset
  and cleanup, and between check and write of a configuration with nobody
  busy, nothing is registered;
- `StopShows`: STOPPING is only seen while a stop holds `busy_mtx`, so media
  removal, which is admitted in that state, does not meet a start;
- `ArmedUp`: a start at its last step has left the state it started from;
- `HandlerRegistered`: where removal waits, nothing registered means no
  handler running.

It is the only inductive invariant that is also an invariant of a run
(`Clients`), since it says by itself how the operations exclude each other
(`QuietIsInductive`).

`LifecycleProofs` adds `LifeInv`: the state of the port at each step of an
operation (`StateHeld`), the states a port can rest in (`RestStates`), that the
error is set exactly in the state ERROR, but for the time of a reset
(`ReasonKept`), and that a start which unwinds has an error (`StartErr`).
`ErrorHasItsReason` follows at once. `LifecycleImplemented` is the refinement of
`LinkLifecycle`: each action of `BaseLink` is shown to be a step of it or a
stutter. It needs `LifeInv` for the state an operation finds, `InductiveQuiet`
for the registration at its end, and one more invariant, `StartWatched`: a start
that is about to report the link up has registered the handler.

`WatchProofs` follows the parties that watch a link. `RecInv` has the recovery:
the timer and its callback are never active together (`OneActive`), and from the
cancelling in a stop to its end the flag stays clear (`CancelledAt`); the handler
cannot set it again since the interrupt is off and removed before. `FlagsInv`
has the flags: a start has none registered until the replay limit they depend on
is settled (`FlagsAt`). `UpInv` collects what a start has achieved at each step
(`UpAt`), and says that the interrupt of a registered handler is on or an alert
has been or will be given (`Covered`), so that a fault during the last steps of a
start is not lost. `OffInv` says where the SerDes is off on the way to the end of
an operation and at the beginning of the next (`OffAt`); `OpticsAreSpared` needs
it, as the steps that set the PML registers to their defaults are safe only
because they find the SerDes off.

`FirmwareProofs` proves `UploadIsExclusive` and `NoOperationInLoad`, for any
number of ports, rings and threads and any operations. Neither property names a
mutex, and the upload drops and takes `serdes_mtx` and `sbus_ring_mtx` several
times, so `LockInv` says who holds what: `PortOwned` and `FwOwned`, that a thread
at a step that needs `serdes_mtx` or `sbm_fw_mtx` holds it on all its ports or
rings. Each mutex has a lemma (`PortRespected`, `FwRespected`) that a step takes it
only when it is free and drops it only as its holder; both properties follow, as
two threads that meet on a port or a ring would hold the same mutex.
`RequestIsServed` rests on `RequestInv`: a thread that may raise a request, or
serves one, works for one port (`OnePort`), hence for one ring, and it goes
through the test of the request after it has raised it, on error paths too.
`SuccessOfFlash` rests on `SuccessInv`: operations that load the firmware of a
port exclude each other by `busy_mtx` (`BusyOwned`) or run alone before the
instance is there (`InitAlone`, `InitFirst`), so that between the last check of
the CRC and the return (`JudgedVerified`) nobody writes or resets the port.
`WaitsEnd` rests on `WaitInv`: a mutex is held by a thread that is at a step
which needs it (`PortHeld`, `RingHeld`, `FwHeld`), never by one that has returned.
A wait for `sbm_fw_mtx` then leads to a thread that waits for a port or a ring at
most. Between these two the code has both orders, a soft reset taking the ring
inside the port and a full reset the port inside the ring; the two are
operations under `busy_mtx`, so they never meet on one port, and a thread that
waits for a port inside the ring waits for one that waits for nothing.

`SerdesOpProofs` proves `ResultIsOwn` and `RmwIsApplied`, for any set of threads.
`OpInv` adds that the request a thread polls for is the one that the hardware has
(`PollsOwnRequest`, which the test of the busy bit gives, since a request that
timed out keeps the bit set) and that a write that has succeeded is not followed
by a late one (`NoLateWrite`). For the SBus below it, `SbusSuccess` rests on
`AttemptInv` and `ResultInv` (no attempt but the last is taken for a success, and a
result is read after the last poll), `BurstIsWhole` on `BurstInv` (what was sent
is the image up to the byte the burst is at, whichever write fails).

`RecoveryClockProofs` proves `BudgetIsKept` for all times. `Charged` keeps the
account: what was spent and what remains are the maximal duration, but for the
time since the last poll. The theorem needs `MaxDuration >= Poll`: the first
recovery of a window starts without a look at the budget, and nothing in the code
checks that `rl_max_duration` is at least the poll interval of 4 ms. With less,
the first poll of a window overdraws it.

`AlarmNeedsRace` is about the errors that a recovery itself causes. `AlarmInv`
bounds the ages of the triggers (`Ages`), says that a recovery is over before a
period of FEC counts has passed (`RecoveryShort`; the condition
`Timeout + Poll + Late < Period` is in `ClockAssumption`), and that counts with
errors have a trigger of the discard in their window (`NoiseMarked`). The one
window it leaves is the race of the property.

`StartIsLimited` and `NeedsAreMet` are about the deadline of a start.
`DeadlineInv` says where it is: at the limit set by the begin or by autoneg, plus
what the extensions so far may have added (`ExtensionIsEnough`: an extension adds
what is required or nothing).

`StartProofs` has the parts of a start:

- `NoKeyTwice` and `MostSpecificIsChosen`, from `ConfigInv`. The lookup
  compares the numbers of bits of the port mask, the lane mask and the media
  mask in turn; `Weight` puts the three into one number, whose order is that
  of the code for masks of the widths in `EntriesAssumption`, and the pass over
  the list finds a maximum of it.
- `MatchOnFreshPages`, from `PageInv`, which follows the pages from the base page,
  for which the buffer is cleared, through the next pages to the match; its
  `RegistersAhead` is what keeps a completion that was left over from having a
  page stored twice.
- `LoopTimeIsOfThisCable` and `UpAfterWholeStart`, from `TimeInv` (when the loop
  time is known, and what makes it void), `StageInfo` and `StageHw` (the
  information bits and the registers at each stage of a start) and `AskedInv`
  (what this start has asked for as gap, by stage). `UpAfterWholeStart` does not
  promise that gap: HPC kept in `llr_options` overrides it while LLR runs
  (finding 2).
- `ServiceImplemented`, the refinement of `SerdesService`, from `OpStep` (an
  operation is at a step of its own) and `Calls` (what it may have changed of the
  state it was called in).
- `AnServiceImplemented`, the refinement of `AutonegService`, from `AnCallInv`: the
  error a call will return is one that has happened (`ErrIsTrue`), and at every
  step of an exchange the SerDes is in autoneg (`InAutoneg`).
- `RunningHasLanes` and `PcalIsOffInTune`, from `LanesInv` and `PcalInv`: from
  which step on the lanes are set and ready, and in which steps pcal is off.

Types. `FwTypes`, `SerdesOpTypes`, `SbusTypes`, `ClockTypes`, `TimeoutTypes`,
`ConfigTypes`, `AnTypes`, `PsTypes` and `SdTypes` prove the type invariants of the
parts. Some need more than the types: the unsigned bound of a burst is
never that of an image too small for it (`SmallBurst`), the recovery time left is bounded by what was
spent (`Spending`), the number of pages by that of the registers (`CountsFit`),
and no automatic mode reaches a register before it is resolved. `PartsProofs` puts
them together: a behaviour of `PartsSpec` is one of the specification of each part
(`PartsBehave`), so everything proved of a part holds there, and `PartsTypes`
follows.

Lists of any length. The library's theorems of induction take an operator as a
parameter, which none of the provers can instantiate. `StartProofs` uses the
least-number principle instead, which the library states about sets (`LeastOf`,
then `UpTo`, and `PassExists` for the existence of a recursive pass); `Best` and
`Cleared` of `SerdesConfig` are recursive functions, not operators, so that they
can be reasoned about.

Only model-checked:

- `OpsTerminate`, `RecoveryEnds`, `FwOpsEnd`, `StartStepsEnd`: liveness under
  fairness needs ENABLED, which is out of the prover's reach.
- The findings are counterexamples of TLC: they show that a comment is wrong for
  one instance, which is enough.

The proofs are about each model by itself. That a part does what `BaseLink` takes
it to do is a theorem for the SerDes (`ServiceImplemented`) and for
autonegotiation (`AnServiceImplemented`); for the other parts it is the reading of
Modules above.

## Not modelled

Option setters and their effect on `options` bits (read as arbitrary values:
`SBL_DISABLE_PML_RECOVERY`, `is_degraded`); debug options other than those
named above; lane degrade warnings, counters, down origins, timing records
and the seconds of the start that sysfs shows;
the values written to the SerDes and those that tuning finds (a lane is ready or
not, its parameters valid or not); LLR capacities; contents of pages beyond what
the match tells apart; memory, and with it two leaks on error paths; a mixture
of two sets of saved parameters, which a reset that clears them without
`tuning_params_mtx` might leave; instance deletion, which must exclude every
other call; sysfs text, counters, messages, module glue.

## Plan

1. `PortLifetime`: instance deletion (`sbl_inst.c:389-430`) against timers,
   work and handler.
2. Option setters against a start (`sbl_link.c:518`).
3. Two partners that both run `Autoneg` and choose the same mode.
4. Abstract specifications of what `LinkStart` takes `PmlStart` and `Firmware` to
   do, as there are for the SerDes and autonegotiation, with their refinements.
