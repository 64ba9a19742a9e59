# A TLA+ model of the ATOMS3R amplitude-control firmware

The firmware in `src/src/` keeps a body that swings about its upright position
at a target amplitude. It reads an IMU, estimates the attitude, finds the peaks
and the central passages of the swing, and at each accepted passage chooses the
width of one current pulse of a motor behind an I2C driver. A run lasts 30 s, is
started and stopped over HTTP, and is logged together with the state of an LED
that a camera sees, so that log and video can be aligned afterwards.

This directory holds TLA+ modules of the parts of that program where
concurrency, ordering, timing and failure matter, the TLC configurations that
check them on small instances, and TLAPS proofs of the properties that carry the
most weight, for every value of the constants.

- `tlc -config X.cfg MCModule.tla` runs a check; `tlapm Module_proofs.tla`
  checks the proofs of a module.
- `PROJECT.json` lists components, runs, the mutation of the model each property
  is able to detect, the source lines of each definition, and the hazards the
  properties are for.

## 1. The system

Four tasks share the firmware.

| task | core | priority | does | source |
|---|---|---|---|---|
| IMU reader | 1 | 6 | polls the sensor, publishes samples in a queue | `imu_manager.cpp` |
| `run_control` worker | 1 | 4 | owns the controller during a run | `run_control_worker.h`, `main.cpp` `runControlStep` |
| Arduino task | 1 | 2 | owns the controller between runs; serves HTTP always | `main.cpp` `loop`, `web_ui.cpp` |
| motor I/O task | 0 | 4 | owns the I2C bus of the motor driver | `roller485_manager.cpp` `ioTaskLoop` |

| component | state it keeps | operations | interacts through | modules | status |
|---|---|---|---|---|---|
| motor driver | requested current, command queue, readiness, current audit; the device's registers | `setCurrentMa`, `stop`, the I/O loop | queue and volatile scalars between two cores | `RollerIo`, `RollerAudit` | modelled |
| ownership of the controller | `active_`, `stop_requested_`, snapshot, `audit_` | `start`, `requestStop`, one step, every HTTP handler | a spinlock, a task notification | `RunControl`, `RunOwnership`, `RunAudit` | modelled |
| IMU acquisition | sensor flags, sample queue, run boundary, latched fault, audit | `begin`, one poll, `setAcquisitionContext`, `update`, health check | bounded queue, sequence numbers | `ImuAcquisition`, `ImuReader`, `ImuStartup` | modelled, but for the poll profile |
| half-cycle controller | phase, half-cycle state, peak tracker, last peak and crossing, pending command, pulse | one step: sense, track, cross, pulse, end | samples in, `setCurrentMa` and `stop` out | `EnergyControl`, `SwingingControl` | modelled |
| pulse-width solver, previous-peak correction | an interval of widths; the integral of each side; the residual current | one decision per crossing | called at each accepted crossing | `PulseWidth`, `Prediction`, `Decision` | modelled |
| lifecycle of a run, LED, anchor rows | `status_.state`, sync step, re-initialisation, event id | `update` in each state, start, clear, emergency stop | the log and the video share the LED | `Experiment` | modelled |
| attitude, pose guide | the filter and its zero, the accelerometer's weight, the guide's hold | each sample, each update | the guide shares the LED, the re-initialisation the attitude | `Attitude` | control flow; numerics not |
| run log, solver audit, timing probe | rows, tables and ring in PSRAM, a probe under way | add, clear, freeze, download | written by the runner, read by HTTP | `Recorder`, `Metadata` | modelled |
| control page | buttons, display, requests under way | poll, start, stop, download | HTTP that loses, delays, reorders | `ControlPage` | modelled |
| Q1 shadow | its own crossing detector | each sample | beside the controller, writes the log | `Q1Shadow` | modelled |
| earlier modes, host tools, site | | | | - | not modelled |

What is hard in each, and what makes it right:

- **Motor driver.** Two cores interleave at every shared access; `stop()` has
  early returns that leave commands queued; three register writes can fail or
  be half applied; after a bus failure the device is set up again while the
  other core goes on calling. Right: the record of the device is true whenever
  it is trusted, a stop turns the motor off, the driver recovers unless it reports an
  error of its own again and again, the queue has
  room, a measured charge is of one pulse.
- **Ownership.** The controller has no lock: it is safe because exactly one task
  uses it at a time, decided by flags read before blocking calls. Right: one owner,
  no stop taken for another run, no lost wake-up, no old snapshot, an audit of
  one run although two tasks write it.
- **IMU acquisition.** Parts can fail to start; a run starts with the queue full
  of idle history, samples must then arrive without a gap, sequence numbers wrap;
  the sensor produces while it is read. Right: acquisition is never half up, no
  sample of a run is lost or reordered without a latched fault that ends the run,
  and the audit balances at every moment.
- **Half-cycle controller.** Crossings are found on an angle 3 ms ahead of the
  one peaks are found on; pulses end by polling; a decision can fail or be
  refused half way. Right: one pulse at most and one crossing per peak, the
  motor on only in a pulse something ends in time, no state without a way out,
  no extremum missed.
- **Solver.** A narrowing search replaced an exhaustive one; the integral must
  not wind up. Right: both searches select the width that trying every one would,
  the integral is bounded by what a pulse can do.
- **Lifecycle and attitude.** Stop and clear arrive in any state; updates are
  late; rows are rarer than updates; the attitude is made anew within a run.
  Right: the LED keeps its schedule, every phase and anchor is in the log once,
  the motor acts only on an angle of this run's attitude and zero, a run ends.
- **Log.** Tables and buffers are finite; a download freezes them; a probe waits
  for events that may not come; the text states its own length. Right: nothing
  of a run is dropped, what belongs together is together, a file is of one run.
- **Control page.** Answers come in any order or not at all, and the link to the file
  can be followed while it is locked. Right: a run the page knows of can be stopped, with
  one exception (section 3), and no second one started.

## 2. The modules

Which module builds on which (EXTENDS):

    RollerIo -> RollerAudit            RunOwnership <- RunControl -> RunAudit
    ImuAcquisition -> ImuReader -> ImuStartup           RunControl -> ControlPage
    EnergyControl -> SwingingControl -> Q1Shadow        Recorder -> Metadata
    PulseWidth, Prediction -> Decision                  Experiment -> Attitude

A module to the right runs the actions of the one to the left unchanged and adds
what surrounds them; `RunControl` instantiates `RunOwnership` and refines it.

The proofs are in modules of their own:

    RollerAudit     <- RollerIo_proofs         ImuStartup <- ImuStartup_proofs
    RunAudit        <- RunControl_proofs <- ControlPage_proofs -> ControlPage
    Q1Shadow        <- EnergyControl_proofs    Decision   <- PulseWidth_proofs
    Metadata        <- Recorder_proofs         Attitude   <- Attitude_proofs

**RollerIo.** `ctl` is where the control core is inside a call of `setCurrentMa` or
`stop`, `ioPc` where the I/O task is in its loop. Each action is one access to a
shared object (`requested_current_mA_`, the queue, `io_task_ready_`) with the
private work next to it. `believed` is what the caller was told. `device` holds the
registers CURRENT and OUTPUT of the motor driver; a failed transaction may leave
each register old or new, since an acknowledgement may be lost as well as a write.
A restart of the firmware does not reset the device, so `Init` allows any
registers. Readiness asks for more than a bus that works: `errorRaw`
is the device's own error register, which may hold anything whenever it is read, and
while it is set the initialisation begins again. `PulseDiscipline` is the caller's habit
of stopping a pulse before it starts the next. `sinceStop` is a history variable. **RollerAudit** adds the
readings of the measured current that sum a pulse's charge; `pulse` and `leftover`
are history.

**RunControl, RunOwnership.** The worker and the Arduino task, at the grain of the
places where one can preempt the other: the worker runs whenever it can
(`WorkerBlocks` guards every Arduino step). Each HTTP endpoint is a request of one
of five kinds. The controller is reduced to whether a run is on and how the last
one ended. `RunOwnership` is the protocol this implements, without tasks, locks or
requests: one owner, handed over with a run on, given back with it over. The
refinement mapping reads the owner off `active_`. **RunAudit** adds the audit that
both tasks keep of a run and the log reports: requests, stops taken, the ring of the
last steps, the deadline of the samples.

**ImuAcquisition.** Each access of the consumer to the queue is a step, a capture
of the reader is one (nothing on its core preempts it). Sequence numbers are modulo
`SeqMod` and compared by the sign of their difference. `lastLive` and `swept` are
history. `handleStart` also calls `update()` once while idle, before the start gate;
`Runner` stands for that pass with the others, since an idle pass delivers any
newest sample. **ImuReader** adds the poll (stamp, flags, transfer, each a step of
its own, because the sensor and the consumer go on meanwhile) and the audit of a
measurement. **ImuStartup** adds `begin()`: attempts, the warm stream, queue, timer,
task, the timer's start, and what is taken down when one fails. A reader that
already ticks before `started_` is noted does not latch a sample that is not finite;
no run can be on then.

**EnergyControl.** One step of the worker is five actions in a row, marked by `pc`:
`Sense` (`serviceFast`, and the arrival of a sample), the peak tracker, the crossing
test with the decision, the end of a pulse, the end of the run. `pc` makes the fixed
order of the code explicit; nothing but `EmergencyStop` comes between.

| model | code |
|---|---|
| `Sense` | `serviceFast`, `update` up to the motion |
| `MotionSkips`, `MotionFails`, `Motion` | early returns of `updateEnergyControlAutonomousMotion` |
| `TrackCandidate`, `TrackInterrupted`, `TrackReturn`, `TrackConfirmed` | `updateEnergyControlAutonomousPeakTracker` |
| `RecordPeak` | `recordEnergyControlAutonomousPeak` |
| `CrossIgnored`, `CrossSolverFails`, `CrossNoOutput`, `CrossRefused`, `CrossPulse` | `updateEnergyControlAutonomousAtZeroCross`, one action per way it returns |
| `PulseEnds`, `PulseGoesOn` | `updateEnergyControlAutonomousPulse` |
| `StepEnds`, `FinishRun` | the duration test of `update`, `finishRun` |

An angle is kept as an integer, of which the code's tests see side and size; the
rate and the detector angle are kept as signs. The solver is its outcome: no
prediction, no output, or a width. The interpolated time of a crossing is any time
between the two samples. `owed` is history: accepted peaks less accepted crossings.
**SwingingControl** puts the same actions under a body that really swings: the angle
goes to and fro between turns whose distance may change at each passage, the rate is
its direction, the detector angle is the angle `Lead` ticks ahead. The sample of a
turn or of a passage may be missing. Here the claims about the motion itself can
be stated, which an open environment cannot. **Q1Shadow** adds the detector that runs
beside it. In the autonomous mode `pitch_mekf_deg` is the detector angle, which runs
with the rate where the shadow's gate wants it opposed, so its log stays empty.

**PulseWidth.** `fast_pick_width` with its narrowing loop and its final scan, run for
the target and again for the corrected target, and the final comparison with no
pulse. The prediction is a function `energy` from widths to integers; its shape
appears only in `Unimodal`, a hypothesis of the property. The residual current of
the last pulse opposes the new one, so that the predicted charge dips in the first
few milliseconds; hence `Unimodal` asks nothing of the widths below `Settled`, the
first width that a narrowing step can evaluate. **Prediction** is that function in
integers: free peak with the previous-peak correction, charge, peak, potential. Its
units (0.01 degree, 0.01 mA s) make a very small charge add nothing, where the code's
floats add a little; no property rests on that.
**Decision** puts both into a run: the side of a crossing is the sign of its rate,
which the code compares with the last peak's only in a diagnostic column; peaks move the integral of their side unless the
anti-windup holds it, crossings decide, pulses leave a current. A decision fails when
a width the search looks at would leave the potential's domain: with the free peak
above about 13.5 degrees every decision does, and the body coasts. `most` and
`loose` are history.

**Experiment.** One action per state is one call of `update()` after a delay `gap`,
with whatever sample is new. Settling begins at a time read off the clock after the time
of the update, so that the update that ends the calibration may end settling as well
(`Calibrate`). `age` is the time since the present part of the run
began, `stepAge` the time since the LED step began. `log` keeps of the rows what the
alignment uses: the last row and the sequence of anchors (rows in a row with the
same event id are one anchor). In the measurement, current is on or off at will:
what it does is EnergyControl's. **Attitude** adds what else a sample does: an
attitude is named by the run it was made in, an angle by its attitude and the
attitude of its zero, the accelerometer's weight by its steps above the floor; and
the startup guide, which drives the same LED between runs.

**Recorder.** One update is four actions, marked by `pc`: sample, motion, the pulse's
end, the row; then the loop of a run reports its timing. Peaks, crossings and pulses
may come whenever their spacing allows. Rows are counted, with the runs and pulses
they show; tables and ring hold the events. `ended` is when the measurement was found
over: a pulse whose width reaches past it is cut. A probe is stored when its loop,
sample and row are captured, or at the end of the measurement. `file` is a download,
part by part, with what its header told of. **Metadata** is the text a download builds: only sizes and
what it tells are kept. The metadata of a reserve that failed is the short error
text (`ErrorText`).

**ControlPage.** The page's variables and the network: requests that wait, answers
under way in any order, either lost at any time. The device is `RunControl`, which
serves other browsers as well. `lock` disables a button but only restyles the link to
the file, which the keyboard still follows: `BeginDownload` has no guard. `frozenRun` and
`pressed` are history.

## 3. The runs

All bounds are CONSTANTS in the `.cfg` files or marked "bound" in a comment where
they are used.

| run | asks | bounds |
|---|---|---|
| `roller` | Do record, stop, queue, recovery and the measured charge hold up for two tasks on a failing bus? | queue of 4 and error limit of 3 as in the code, 3 failed transactions, currents of plus and minus 300 |
| `run_control` | Is there one owner, does every run end, with any requests at any time, and is the audit of one run? Is it the ownership protocol? | 3 runs; a ring of 2 steps counted up to three turns; requests counted up to 2 |
| `imu` | From `begin()` on: is acquisition whole, are samples read, queued and delivered without loss through a full queue and a wrap, does the audit balance? | queue of 2, numbers modulo 10, 2 attempts, a warm stream of 1 acceleration and 2 rates |
| `energy_control` | Is the half-cycle machine right whatever the samples are? | angles -1..2, two runs of 8 ticks, peaks confirmed by 2 samples |
| `swinging` | On a swinging body, is every extremum found, once, with its amplitude? Does the shadow stay silent? | a tick of 25 ms; guards, widths and half cycles in ticks as in `config.h`; 60 ticks |
| `experiment` | Do LED, log, attitude and the accelerometer's weight keep to the schedule whatever is late or stopped? | 2 runs; patterns of 3 steps; updates up to 2 ticks late |
| `pulse_width` | Does a run of decisions select what an exhaustive search would, and keep the integral bounded? | the firmware's numbers but for Ki; widths in units of 4 ms, 0..25, slack 2; amplitudes 5, 8 and 11 degrees, two rates, crossings of either side, the gap that the shortest half cycle of `config.h:319` leaves after the longest pulse, the reference voltage; one peak in a row without a completed decision |
| `recorder` | Is nothing dropped, and does what a log tells belong together? | 2 runs of 9 ticks, up to three crossings, text of up to 106 bytes |
| `control_page` | Do the buttons stay safe over a bad network? | 2 runs |
| `granted_pulse`, `candidate_side`, `settled` | Is a statement of the documents true of the code? | see section 6 |

Why the bounds are enough:

- *roller*: a bus error of each kind can hit any two consecutive transactions of
  a recovery and one more after it; three failed polls are what the error limit
  asks for. The device may report an error at every attempt, which the bound on failed
  transactions does not count. The proofs remove the bound for every safety property.
- *run_control*: a stop, snapshot, notification or audit slot of one run can meet
  the next run and the one after. The proofs remove the bound.
- *imu*: the queue is filled, overtaken and swept entirely within a run, and
  sequence numbers wrap with samples queued. Of the warm stream only its length
  matters, and how many attempts it took is forgotten once it is valid. The proofs
  remove the bounds for every safety property.
- *energy_control*: 8 ticks hold the kick, a peak, a crossing, the peak after it
  and the next crossing; a second run meets what the first left. Peaks are
  confirmed by 2 samples there and by 3, as in the code, in `swinging`. The proofs
  remove the bounds.
- *swinging*: three to four half cycles of two amplitudes, with passages from
  one to the other. What is proved of `EnergyControl` holds here too, and the silence
  of the shadow is proved for every swing.
- *experiment*: the delay is long enough to be late for a step and short enough
  to keep the order the code relies on (a phase is longer than a row period and
  two delays, which the real values, 300 ms and more against 20 ms, give with much
  room). The duration keeps the last mark clear of the run's end, as `config.h`
  does (an assumption of the module). The proofs remove the bounds; what order they
  need is stated by `MarksLast` and `PhasesLast`, which the run evaluates.
- *pulse_width*: a free peak below, at and above the target, a target out of reach
  of any pulse on one side for as many half cycles as one likes, and failing
  decisions in between. Ki is 3.7 mA s per degree, where `config.h:326` has 0.10: two
  peaks then take the integral to its limits, which with the firmware's takes dozens and
  more states than TLC can visit. The proofs remove the bounds for the search and the
  integral, for every Ki.
- *recorder*: the assumption relates capacities to the length of a run as the
  code's numbers do: 250 ms half cycles and 128 slots of the ring pass 30 s; 6 MB
  hold about 24,000 rows, and a run has at most 15,000. A tick is a millisecond in a
  pulse, where a row may come every other one, so a pulse of 1 may end unseen and one
  of 3 may not. The text passes a hundred bytes and its budget. The proofs remove the
  bounds for all but the text.
- *control_page*: an answer of the first run, or from before it, can meet the second.
  A `VIEW` leaves out `RunControl`'s own history variables, which nothing on the page
  depends on. The proofs remove the bound.

`CHECK_DEADLOCK FALSE` is set where the last run of the bound is simply over, or no
further peak is within the bound.

Some properties are conjunctions (`MotorFollowsPulse`, `HalfCyclesInOrder`,
`RunSamplesKept`, `SyncTiesVideo`, `PulsesTold`): each conjunct is a definition of
its own, and they are about the same promise.

What the properties leave open, because the code does:

- `PulsesTold` excepts pulses too short to meet a row. The probe of such a pulse may
  wait for a row that never comes; it then stays pending, blocks later probes of the
  run and is never stored. A pulse cut by the end of the run is logged with its full
  width.
- `BetaHeld` is about the measurement. A pulse cut by its end records no end, so that
  the hold does not apply in the end synchronisation.
- `ChargeOfOnePulse` excepts a pulse left by a `stop()` that gave up during a recovery:
  the next one applied on top of it adds to the same charge.
- `AuditBalances` allows one drop more than samples missing: one stamped just before
  the epoch but refused after it.
- `Recovers` supposes that the device stops reporting an error. `initializeIoOwner` asks
  for `roller_ok`, so with an error register that stays set the task initialises the
  device for ever, on a bus that works, and no run can start.
- `ButtonsSafe` excepts a download begun on a frozen display before a status has told
  of the run: `beginDownload` shows the last status, which is of before, and so locks
  EMERGENCY STOP until the next status arrives (the next poll, within a second or two on
  a good network). The link is then locked in its style, so this takes a press by
  keyboard. The page's test (`tools/test_v46aj_fixed_timing_ui.js:29`) has the emergency
  stop remain usable; it begins no download.
- `SelectsAsExhaustive` says nothing where the curve is not `Unimodal` past `Settled`: a
  large residual current that opposes the pulse makes the predicted charge dip further
  out than that, and the narrowing may then miss the best width.
- Nothing says that no pulse is given where the free swing suffices, because the code
  does not ensure it. With 25 mA left against the new pulse the width without effect is
  at 11 ms; the narrowing ends on 7..14, so that 0 is not tried; 11 ms move a charge of
  nearly nothing, the corrected target lies a hair above the passive energy, and a pulse
  of 11 ms is nearer to it than none.
- `BetaHeld` takes the accelerometer's floor as one constant; the code computes it anew
  for each pulse (`experiment_runner.cpp:5608`), from the battery's voltage.
- A stop accepted during the last step of a run is not consumed (`AuditOfOneRun`
  counts it as asked for): the run ends FINISHED, with the motor off either way.

## 4. Fairness

- `RollerIo`, `RollerAudit`: the I/O task keeps looping (it is alone at its priority
  on its core) and a call in progress returns. No call is ever forced.
- `RunControl`, `RunAudit`, `ControlPage`: weak fairness for the worker. Strong
  fairness for the Arduino task, which runs in the gaps the worker leaves while it
  waits for a sample, so its steps are enabled again and again but not always. A run
  has a fixed duration: an update that may end it for ever does. Nothing is assumed
  of browser or network.
- `ImuAcquisition`, `ImuStartup`: the consumer keeps running. Nothing is assumed of
  the sensor.
- `Experiment`, `Attitude`: the loop goes on calling `update()`.

The other modules state no fairness: that a run ends is asked of `Experiment`, where
it is a matter of time alone, and of `RunControl`.

## 5. What is proved

Each proof is of `Spec => []P` from an inductive invariant that TLC had found to
hold first, with one lemma that the initial states satisfy it and lemmas that every
action preserves it. The assumptions are the named `ASSUME` of the module (ranges
of the constants, and what relates them), which TLC evaluates in the runs. A
hypothesis that not every instance needs to meet is stated by the theorem itself.

**Liveness.** Two facts a liveness proof needs are beyond the provers, and each such
theorem names them as hypotheses instead of leaving them out:

- `Enabling`, in each proof module: where the fair actions are enabled. The provers know
  nothing of `ENABLED`; what `Enabling` says can be read off the guards (each of these
  actions has, in each of its states, an alternative without a fault that changes the
  state). It is a state predicate: given to TLC as an invariant beside the modules'
  own, it held on instances of the size of the runs.
- `Descent(n)`, for a natural number n of the state: if it falls again and again it also
  rises again and again. That is induction on n over the time of a behaviour, and no
  prover has induction with temporal formulas. The numbers are the faults the bus has
  left, the commands in the queue, what `update()` may still take, and the time left of
  a part of a run. None falls below zero: the type invariants bound the first three, and
  the clock of a run stops at `Duration`.

Given these, the proof is the whole argument: the stages a behaviour goes through, that
no step of anyone leaves a stage but for the next one or with less of the number
(`...Moves`, an action formula proved from the inductive invariant), and that fairness
then carries it to the end. A theorem with `Enabling` and no `Descent` needs no number.
TLC checks the same properties with neither hypothesis.

**RollerIo_proofs.** `TypeCorrect`, `RecordCorrect`, `StopLeavesMotorOff`,
`QueueNeverFull`, `ChargeCorrect`. `RecordMatchesDevice` is not inductive: it needs to
know at which places of the loop the task is ready, and that initialisation has made
the record true before readiness is declared (`RInv`). `OffAfterStopPass` needs more
(`SInv`): after a stop nothing is requested, and a pulse still waiting behind a drained
queue is known to the control core as requested, so that the next `stop()` flushes it.
`QueueHasRoom` has an invariant of its own (`QInv`) that counts the commands by what
the I/O task has withdrawn: one behind the zero of the last stop, and a further one
only between the withdrawal of the request and that of the queue. It shows that
three slots would be filled and four are not, for any number of faults; the theorem
assumes `QueueLen >= 4`. `ChargeOfOnePulse` rests on all of them: where no pulse was
left behind, at most one waits or is on (`PInv`), and the audit counts what its
history counts (`CInv`). It assumes `PulseDiscipline`, the caller's habit of stopping
each pulse; without it charges do add up. Liveness: `TaskRecovers` and `StopTurnsOff`.
A recovery goes from place to place and begins again only with a failed transaction
or with an error the device reports (`RecoveryMoves`); the failures run out, and the
errors end by the premise of `Recovers`. A motor that still turns after a stop (`Stopping`) is where the I/O
task drains the queue, which nobody fills meanwhile (`DrainMoves`); or where it has to
see the current on its record with nothing requested, and zeroes (`ZeroMoves`: here
`RecordMatchesDevice` is needed); or it fails (`FailureMoves`), and the initialisation
zeroes first (`ResetMoves`).

**RunControl_proofs.** `TypeCorrect`, `ExclusiveOwnership`, `SnapshotCurrency`,
`StopSafety`, `AuditCorrect`, and `RefinesOwnership`: every step of the tasks is a step
of `RunOwnership` or leaves it unchanged. The invariant relates the two tasks' places
to `active_` (`WorkerOwns`, `ArduinoOwns`), says that an owned run is on but for the end
of its last step, and keeps the books of the stop requests. For the audit it adds
which run the audit is of at each place (`AuditEpoch`), how its counts follow the stop
requests (`AuditBooks`), and that the slot of step n is n modulo the ring's length
(`LastSteps`), for a ring of any length. Liveness: `RunsEnd`, and with it `Implementation`:
the tasks implement `RunOwnership` with the fairness it asks for. The wake-up of the
worker must not be lost (`WakeUp`): between the hand-over and the notification it is the
Arduino task that has it, and a notification left from the run before only makes the
worker turn over once (`WorkerTurns`). A run is then with the worker, which comes to its
update again and again (`WorkerMoves`), or with nobody while the worker sleeps; then the
Arduino task is enabled all the time and comes to the hand-over (`ArduinoMoves`).
`Implementation` also assumes `OwnershipEnabling`: the abstract steps are enabled at most
where their guards hold. TLC does not evaluate `ENABLED` under the refinement mapping;
the guards are those of `RunOwnership`, read through it.

**ControlPage_proofs.** `ButtonsAreSafe`, and `ThawCorrect` for the action property
`ThawsWhenOver`. The first is inductive as it stands: each handler that unlocks a
button tests what forbids it, and the one handler that locks the stop of a frozen display
is the exception it states. The second needs to know what an answer under way may
say (`AnswerInv`): a status tells a run no later than the device's, and one that still
counts for a frozen display no earlier than the run it was frozen for. It uses
`RunControl`'s invariant, since `told` is read off its snapshot.

**EnergyControl_proofs.** `TypeCorrect`, `MotorCorrect`, `MachineLive`,
`Alternation` and the action property `CommandedSide`. The invariant adds: the clock
has not reached the end when a step begins (`StepInv`); the kick comes before any
half cycle, and a half cycle that waits is a controlled one (`KickFirst`), without
which neither the motor's nor the machine's property survives `PulseEnds`; `owed` is
what the half-cycle state says (`OwedIsState`); a candidate seen while a command is
pending is on the commanded side (`CandidateSide`). A second invariant is about
times (`TimeInv`): no event is later than the sample it came with (`Stamped`), and a
pulse that outlived its width is met by the very step that notices it
(`PulseInTime`). `SwingImplements` shows that `SwingingControl` implements
`EnergyControl`, so that all of this holds on a swing. `ShadowCorrect` is about every
swing: the detector angle, that of the body `Lead` ticks ahead, changes side only
towards where the body then is going. It assumes `Lead > 0`, or that no swing is of a
single tick: the code leads by 3000 us (`config.h:99`), and without a lead a body that
turns on the very next tick would cross against its rate.

`NoneMissed` and the action property `PeaksAreExtrema` follow the body through the half
of the swing whose extremum is due. `Ahead` is the side of that extremum, `Progress` how
far the body is: from `-Lead`, where the last crossing was accepted, over the amplitude
at the turn to `2 * amplitude - Lead`, where the next is. Each state of the controller is
somewhere in it (`SwingInv`): kick and pulse are over by the turn (`PulseCourse`), the
candidate is the last sample on the way out and then counts its returns
(`CandidateCourse`), a sample is missing only at the turn or at the centre (`Sampled`),
and the sample before the crossing was still on the old side (`Remembered`), so that the
crossing is seen and no guard by time refuses it. A peak is then always confirmed within
`ConfirmSamples + 1` ticks of its turn. The theorems assume `SwingFits`, which says how
much room that needs: from the turn to the passage of the detector angle there is a
sample that may be missing and those that confirm; kick and pulse end by the turn; the
least times between events are shorter than the half cycle. The firmware's numbers meet
it: in the shortest half cycle `config.h:319` quotes, 317 ms, a quarter swing is 158 ms,
kick and pulses last 100 ms at most, the least times are 125 ms and 250 ms, and lead and
confirming samples take about 10 ms. The instance of `swinging` has far less room
(`Lead + ConfirmSamples + 1` is 6 of 7 ticks).
Where the solver may fail, the property is false (section 6).

**PulseWidth_proofs.** `TypeCorrect` and `SearchIsExhaustive`. The invariant
says that the interval still holds the width wanted (`Kept`: of two
interior widths the worse one and what lies beyond it can be dropped, by
`Unimodal`) and that `best` is the first best of those tried (`BestSoFar`).
`DecisionIsExhaustive` says the same of `Decision`: each decision begins its searches
afresh, on a curve made from the residual current and the integral, and a failure
leaves nothing behind. The run checks them in units of 4 ms; the theorems cover the
code's range and slack, and every curve and target. `AntiWindup`: the integral of a
side moves only by a peak, by at most one step; a command at no limit corrects no more
charge than the longest pulse could have moved, so the integral is no larger then, and
at a limit the anti-windup holds it (`LimitInv`).
It uses the assumption `LongestMovesMost`, that what is left of the last current does
not make a shorter pulse move more charge than the longest; TLC evaluates it on the
firmware's own table.

**Attitude_proofs.** `MotorUpright`: the motor drives only on an attitude and a zero
of this run. The invariant follows the start synchronisation: until the attitude is
made anew its pattern is in the first step, whatever the delays (the average is
shorter than that step), the count is that of the upright samples in a row, and from
then on attitude, zero and angle are of this run (`MadeAnew`, `AngleOfRun`). The
action property `BetaCorrect` needs that the weight is the ceiling until the first
pulse, and that after a pulse it is known how long the motor has been off (`BetaInv`). `VideoCorrect` is about the schedule and the anchors. How a late
update walks through a pattern is a recursive function (`Advance`), and so is the time
a pattern's first steps take (`Over`): the proof establishes by induction that the walk
stops in the step that holds the time elapsed, or past the last. `VideoInv` then says in
which step the pattern is, which anchors the rows hold, and at which mark of the
measurement the last row was. `LedCorrect`, an action property, adds how long the LED
has been as it is compared with the time since the last row (`LedInv`). Both assume
an order of the constants that the code has with much room: `MarksLast` (a mark, and
the time between two, lasts a row period and a delay) and `PhasesLast` (so does every
phase of the LED); the code's phases last 300 ms and more, so with rows every 20 ms
they hold for every delay up to 280 ms. The induction is over the steps of a pattern
for a fixed function, from the least element of a set of naturals (`NatInductive`).
Liveness: `RunsEnd`. Each update of a run takes its delay from what is left of the part
(`UpdateAges`), which rises only where the next part begins (`PartMoves`); that a part
never outlasts its clock (`ClockInv`) needs none of the hypotheses on the rows.

**Recorder_proofs.** `TypeCorrect`, `OneRun`, `NothingDropped`, `AuditOfEvents`,
`PulsesAreTold`; and `MetadataReads`, by which they hold under `Metadata` as well. A file
tells what the tables hold because a download and a run exclude each other (`FInv`),
and rows and probes are of one run (`LInv`). That everything fits is arithmetic of
time: each part of a run is left within a delay of its end (`DInv`); every row but a
few took its period (`RInv`); a crossing takes a half cycle, a peak its crossing, a
probe its pulse (`EInv`). The audit chains the events (`AInv`). `PulsesTold` needs how
events, pulse and probe are linked (`VInv`), the order of what the probe has seen
(`PInv`), that a row comes within a period of a pulse's beginning, before a long pulse
is over (`WInv`), and that a crossing comes with a sample, which the probe of a long
pulse has then had (`SInv`). `MetadataIsTold` is about the text of a file. What a table
tells is an induction over its items (`TableTells`), and the head fits what is left of the
budget because the ring and the probes do (`HeadFits`). Its length tells itself because
four guesses are enough (`FourGuesses`): no guess is less than the one before, all lie
within the digits of the last, and numbers of three different lengths are further apart
than that (`ThreeApart`, from `DigitsGrow` and `DigitsFew`), so that the length can
change once and the guess after the change stands. The number of digits is a recursive
function; that there is exactly one such function is proved first (`DigitsUnique`,
`DigitsExist`). The text then stays as it was built until its file is sent (`MInv`).

**ImuStartup_proofs.** `StartsWhole`, `TypeCorrect` (the type invariant of
`ImuAcquisition` under reader and startup), the action properties `ReadsAreKept` and
`DeliveryCorrect`, `SamplesKept`, and `ReaderAuditCorrect`. `NoHalfStart` needs what
exists at each stage of `begin()` (`Built`), that the valid stream comes before the
first part (`Streamed`) and that a run needs `started_` (`StartedLast`).

The rest is about a run, for every length of the queue and modulus of the sequence
numbers (`QueueLen`, `SeqMod`); a run is assumed shorter than half the modulus, as the
comparison by sign needs (`RunFits`: 2^31 samples). A few lemmas say what a difference
modulo `SeqMod` is (`AheadIs`, `AheadOfInc`, `InARow`, `EpochSplits`); above them
nothing is modular. The queue holds the latest samples in a row (`Consecutive`) until
a fault is latched, so how many of them are idle history is a difference of two
lengths, and the invariant says when it is zero and how much of a queue's worth
`update()` may still discard (`KeptInv`). `Consecutive` fails with the fault, while
the sample under way is still delivered: `HeldInv` says of it, fault or not, that it
is the one due (`FirstIsDue`). For the audit, a run is measured only after its first
`update()` swept the history (`PhaseInv`), so that all that is on its way is of the run
(`OnlyRun`) and a full queue has no sample to give up; the epoch then splits what is on
its way in two, and the books are kept by where (`Books`): a poll stamped before the
epoch and published after it moves the epoch to its own sample, and can only be the
one drop too many.

Liveness: `TroubleEndsRun`. Wherever the fault or the silence meets the owner, its pass
comes to the check of the acquisition's health (`PassMoves`, `LastMoves`); the loops that
discard and drain take a sample with each turn, and at most a queue's worth
(`TakeMoves`), however fast the reader fills the queue behind them.

Only model-checked:

- the hypotheses of the liveness theorems (`Enabling`, `OwnershipEnabling`, `Descent`).
  The runs of section 3 check the liveness properties themselves, without them, on their
  instances;
- the three properties the code violates (section 6), which are false.

Every property of a passing run is stated by a theorem.

## 6. Where code and documents differ

Each is a run whose property is the statement of the document, violated by what
the code does.

- `granted_pulse`: the audit distinguishes a pulse computed from one output, and
  takes `setCurrentMa` returning true for the latter. The command is queued
  before the request is recorded; in between the I/O task can apply it, see
  nothing requested, and zero it. The pulse is granted and the motor stays off.
- `candidate_side`: the note on the peak-side fix says no candidate is made until
  the angle is on the side commanded. After a decision whose prediction left the
  potential's domain no side is pending, so the tracker starts on the old side
  and the next extremum is missed. Without such a failure (`swinging`) no
  extremum is missed.
- `settled`: the validation guide has the operator wait for settling until the
  UI allows a start. The settling time is read off the clock after the time of the
  update that begins it; where a millisecond begins between the two, their unsigned
  difference wraps and settling is over at once. A clear during settling also allows
  a start at once.

## 7. Not modelled, and why

- The attitude filters' arithmetic, and the values of angle and bias: TLC and TLAPS
  do not reach floating point. A gap between samples that is longer than the filter
  takes is skipped and its rotation lost while the run goes on (`mekf6.cpp:127`), and
  a calibration resumed after a stop averages over fewer samples
  (`experiment_runner.cpp:413`): with the pulse that is not needed
  (`experiment_runner.cpp:2934`, section 3) the hazards without a property.
- The statistics of the poll profile (`imu_poll_profile.h`): their product with the
  reader is too large. A poll that spans the epoch is counted by the audit and not by
  the profile.
- Columns of the rows, the checksum's arithmetic, wording of JSON, HTML, displays.
- The earlier modes (batch sweep, Q identification, V0, beta): no registered
  endpoint starts them. `solver_shadow_pending_` is never set, so
  `runEnergyControlAutonomousSolverShadow` never records, and the side-response
  correction is compiled out (`SideCorrection = FALSE`).
- Host tools, documents and site.
- Clock wrap after 49 days of uptime.
