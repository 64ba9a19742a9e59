---------------------------- MODULE EnergyControl ----------------------------
(***************************************************************************)
(* The measurement part of an autonomous run: half-cycle controller of      *)
(* ExperimentRunner.  Each physical half cycle is to be one accepted peak,  *)
(* one accepted central passage after it, and at most one current pulse.    *)
(*                                                                         *)
(* One step of the worker is five actions, marked by pc: serviceFast and    *)
(* the arrival of a sample (sense), the peak tracker (track), the crossing  *)
(* test and the solver (cross), the end of a pulse (pulse), the end of the  *)
(* run (end).  The solver is kept to its outcome, an angle to its side and  *)
(* size, a rate and the detector angle to their signs.                      *)
(***************************************************************************)
EXTENDS Integers

CONSTANTS
  Angles,          \* the adopted angles a sample may show
  Widths,          \* the pulse widths the solver may choose, 0 apart
  KickWidth,       \* START_KICK_PULSE_MS
  Duration,        \* DURATION_MS
  MaxGap,          \* bound: ticks between two steps
  MinHalfCycle,    \* MIN_HALF_CYCLE_MS
  MinZeroToPeak,   \* MIN_ZERO_TO_PEAK_MS
  ConfirmSamples,  \* PEAK_CONFIRM_SAMPLES
  SolverMayFail,   \* whether a prediction may leave the potential's domain
  MaxRuns          \* bound: runs in a behaviour

ASSUME EnergyControlAssumption ==
  /\ Angles \subseteq Int
  /\ Widths \subseteq Nat \ {0} /\ KickWidth \in Nat \ {0}
  /\ Duration \in Nat \ {0} /\ MaxGap \in Nat \ {0}
  /\ MinHalfCycle \in Nat /\ MinZeroToPeak \in Nat
  /\ ConfirmSamples \in Nat \ {0}
  /\ SolverMayFail \in BOOLEAN /\ MaxRuns \in Nat

VARIABLES
  state,      \* status_.state, coarsened to the measurement
  pc,         \* where the step is
  run,        \* runs begun
  now,        \* t_test: ticks since the run began
  sample,     \* the reading this step works on, dropped when motion is done
  phase,      \* energy_control_autonomous_phase_
  half,       \* energy_control_autonomous_half_cycle_state_
  motor,      \* whether the last Roller call asked for current
  pulse,      \* status_.pulse_active, ..._pulse_authorized_, start, width
  tracker,    \* the peak tracker and its candidate
  lastPeak,   \* ..._last_peak_*
  consumed,   \* ..._zero_cross_consumed_for_peak_
  lastCross,  \* ..._last_accepted_zero_cross_*
  pending,    \* ..._pending_peak_, ..._pending_next_side_
  previous,   \* ..._previous_detector_*: detector sign, rate sign and time
  owed        \* history: accepted peaks less accepted crossings

motorVars   == <<motor, pulse>>
eventVars   == <<lastPeak, consumed, lastCross, pending>>
vars == <<state, pc, run, now, sample, phase, half, motorVars, tracker, eventVars,
          previous, owed>>

Phases     == {"IDLE", "STRONG_START_KICK", "WAIT_FIRST_PEAK", "ENERGY_CONTROL", "HOLD", "STOP"}
HalfStates == {"WAIT_PEAK", "WAIT_ZERO_CROSS", "PULSE_ACTIVE"}
Signs      == -1 .. 1
Times      == 0 .. Duration + MaxGap

Sign(x)  == IF x > 0 THEN 1 ELSE IF x < 0 THEN -1 ELSE 0
Size(x)  == IF x < 0 THEN -x ELSE x
SideOf(rate) == IF rate >= 0 THEN 1 ELSE -1
Sizes    == {Size(a) : a \in Angles} \cup {0}

NoSample == [kind |-> "none", angle |-> 0, detector |-> 0, rate |-> 0]
Samples  == {NoSample, [NoSample EXCEPT !.kind = "nonfinite"]} \cup
              [kind : {"fresh"}, angle : Angles, detector : Signs, rate : Signs]

(* resetEnergyControlAutonomousPeakTracker(enable). *)
FreshTracker(enable) ==
  [enabled |-> enable, started |-> FALSE, side |-> 0, size |-> 0, ms |-> 0, returns |-> 0]

PulseType   == [active : BOOLEAN, authorized : BOOLEAN, start : Times,
                width : Widths \cup {0, KickWidth}]
TrackerType == [enabled : BOOLEAN, started : BOOLEAN, side : Signs, size : Sizes,
                ms : Times, returns : 0 .. ConfirmSamples - 1]
PeakType    == [valid : BOOLEAN, side : Signs, size : Sizes, ms : Times]
CrossType   == [valid : BOOLEAN, ms : Times]
PendingType == [on : BOOLEAN, side : Signs]
PreviousType == [has : BOOLEAN, detector : Signs, rate : Signs, ms : Times]

TypeOK ==
  /\ state \in {"idle", "running", "end_sync", "estop"}
  /\ pc \in {"sense", "track", "cross", "pulse", "end"}
  /\ run \in 0 .. MaxRuns /\ now \in Times
  /\ sample \in Samples
  /\ phase \in Phases /\ half \in HalfStates
  /\ motor \in BOOLEAN /\ pulse \in PulseType
  /\ tracker \in TrackerType
  /\ lastPeak \in PeakType /\ consumed \in BOOLEAN
  /\ lastCross \in CrossType /\ pending \in PendingType /\ previous \in PreviousType
  /\ owed \in Int

Running == state = "running"
At(label) == Running /\ pc = label
Controlling == phase \in {"ENERGY_CONTROL", "HOLD"}

StopMotor ==
  /\ motor' = FALSE
  /\ pulse' = [pulse EXCEPT !.active = FALSE, !.authorized = FALSE]

(* A pulse start that setCurrentMa granted. *)
StartPulse(width) ==
  /\ motor' = TRUE
  /\ pulse' = [active |-> TRUE, authorized |-> TRUE, start |-> now', width |-> width]

Init ==
  /\ state = "idle" /\ pc = "sense" /\ run = 0 /\ now = 0 /\ sample = NoSample
  /\ phase = "IDLE" /\ half = "WAIT_PEAK"
  /\ motor = FALSE
  /\ pulse = [active |-> FALSE, authorized |-> FALSE, start |-> 0, width |-> 0]
  /\ tracker = FreshTracker(FALSE)
  /\ lastPeak = [valid |-> FALSE, side |-> 0, size |-> 0, ms |-> 0]
  /\ consumed = FALSE
  /\ lastCross = [valid |-> FALSE, ms |-> 0]
  /\ pending = [on |-> FALSE, side |-> 0]
  /\ previous = [has |-> FALSE, detector |-> 0, rate |-> 0, ms |-> 0]
  /\ owed = 0

-----------------------------------------------------------------------------
(* The start of a measurement. *)

(* Mutant: the reset leaves the last run's events behind. *)
ResetKeepsEvents ==
  /\ half' = "WAIT_PEAK"
  /\ tracker' = FreshTracker(FALSE)
  /\ UNCHANGED eventVars
  /\ previous' = [has |-> FALSE, detector |-> 0, rate |-> 0, ms |-> 0]

(* resetEnergyControlAutonomous. *)
ResetControl ==
  /\ half' = "WAIT_PEAK"
  /\ tracker' = FreshTracker(FALSE)
  /\ lastPeak' = [valid |-> FALSE, side |-> 0, size |-> 0, ms |-> 0]
  /\ consumed' = FALSE
  /\ lastCross' = [valid |-> FALSE, ms |-> 0]
  /\ pending' = [on |-> FALSE, side |-> 0]
  /\ previous' = [has |-> FALSE, detector |-> 0, rate |-> 0, ms |-> 0]

(* Everything is reset, the motor stopped, and the start kick asked for; a kick
   the Roller refuses leaves the run to its duration without control. *)
BeginMeasurement ==
  /\ ~Running /\ run < MaxRuns
  /\ state' = "running" /\ pc' = "sense"
  /\ run' = run + 1 /\ now' = 0 /\ sample' = NoSample
  /\ ResetControl
  /\ \/ phase' = "STRONG_START_KICK" /\ StartPulse(KickWidth)
     \/ phase' = "STOP" /\ StopMotor
  /\ owed' = 0

-----------------------------------------------------------------------------
(* A step: what comes before runner.update(). *)

PulseLive == Running /\ pulse.active /\ pulse.authorized

(* serviceFast stops a motor no live pulse accounts for; update() then works on
   the latest reading, which may be the one of the step before. *)
Sense(s, gap) ==
  /\ At("sense")
  /\ IF PulseLive THEN UNCHANGED motorVars ELSE StopMotor
  /\ now' = now + gap /\ sample' = s
  /\ pc' = "track"
  /\ UNCHANGED <<state, run, phase, half, tracker, eventVars, previous, owed>>

(* requestEmergencyStop, by the user or the health check. *)
EmergencyStop ==
  /\ At("sense")
  /\ state' = "estop" /\ StopMotor
  /\ UNCHANGED <<pc, run, now, sample, phase, half, tracker, eventVars, previous, owed>>

-----------------------------------------------------------------------------
(* updateEnergyControlAutonomousMotion up to the tracker. *)

MotionDone == pc' = "pulse" /\ sample' = NoSample

MotionSkips ==
  /\ At("track")
  /\ sample.kind = "none" \/ phase \in {"IDLE", "STOP"}
  /\ MotionDone
  /\ UNCHANGED <<state, run, now, phase, half, motorVars, tracker, eventVars, previous,
                 owed>>

MotionFails ==
  /\ At("track")
  /\ sample.kind = "nonfinite" /\ phase \notin {"IDLE", "STOP"}
  /\ phase' = "STOP"
  /\ state' = "estop" /\ StopMotor
  /\ pc' = "sense" /\ sample' = NoSample
  /\ UNCHANGED <<run, now, half, tracker, eventVars, previous, owed>>

PreviousIsThis ==
  previous' = [has |-> TRUE, detector |-> sample.detector, rate |-> sample.rate, ms |-> now]

(* The first sample of a run has nothing to cross from. *)
Motion ==
  /\ At("track")
  /\ sample.kind = "fresh" /\ phase \notin {"IDLE", "STOP"}
  /\ IF previous.has THEN pc' = "cross" /\ UNCHANGED <<sample, previous>>
                     ELSE MotionDone /\ PreviousIsThis
  /\ UNCHANGED <<state, run, now, motorVars>>

(* Mutant: no such wait. *)
AnySide == FALSE

(* After a pulse or a crossing without one the angle may still be on the old
   side: tracking waits for the side that was commanded. *)
WrongSide == pending.on /\ Sign(sample.angle) # pending.side

Tracking ==
  /\ half = "WAIT_PEAK" /\ ~pulse.active /\ tracker.enabled
  /\ phase \notin {"IDLE", "STRONG_START_KICK", "STOP"}
  /\ sample.angle # 0 /\ ~WrongSide

TrackNothing ==
  /\ Motion /\ ~Tracking
  /\ UNCHANGED <<phase, half, tracker, eventVars, owed>>

Outward == Sign(sample.angle) = tracker.side /\ Size(sample.angle) >= tracker.size

(* A new candidate, or a larger angle on the same side. *)
TrackCandidate ==
  /\ Motion /\ Tracking
  /\ ~tracker.started \/ Outward
  /\ tracker' = [tracker EXCEPT !.started = TRUE, !.side = Sign(sample.angle),
                                !.size = Size(sample.angle), !.ms = now, !.returns = 0]
  /\ UNCHANGED <<phase, half, eventVars, owed>>

Returning == Size(sample.angle) < tracker.size /\ sample.rate = -tracker.side

TrackInterrupted ==
  /\ Motion /\ Tracking
  /\ tracker.started /\ ~Outward /\ ~Returning
  /\ tracker' = [tracker EXCEPT !.returns = 0]
  /\ UNCHANGED <<phase, half, eventVars, owed>>

TrackReturn ==
  /\ Motion /\ Tracking
  /\ tracker.started /\ ~Outward /\ Returning
  /\ tracker.returns + 1 < ConfirmSamples
  /\ tracker' = [tracker EXCEPT !.returns = @ + 1]
  /\ UNCHANGED <<phase, half, eventVars, owed>>

PeakTooSoon ==
  /\ phase # "WAIT_FIRST_PEAK" /\ lastCross.valid
  /\ tracker.ms - lastCross.ms < MinZeroToPeak

(* Mutant: the amplitude is that of the confirming sample. *)
RecordSample ==
  /\ lastPeak' = [valid |-> TRUE, side |-> tracker.side, size |-> Size(sample.angle),
                  ms |-> tracker.ms]
  /\ pending' = [pending EXCEPT !.on = FALSE]
  /\ consumed' = FALSE
  /\ half' = "WAIT_ZERO_CROSS"
  /\ tracker' = FreshTracker(FALSE)
  /\ phase' \in {"HOLD", "ENERGY_CONTROL"}
  /\ owed' = owed + 1
  /\ UNCHANGED lastCross

(* Mutant: the half cycle does not move on. *)
RecordPeakTwice ==
  /\ lastPeak' = [valid |-> TRUE, side |-> tracker.side, size |-> tracker.size,
                  ms |-> tracker.ms]
  /\ pending' = [pending EXCEPT !.on = FALSE]
  /\ consumed' = FALSE
  /\ half' = half
  /\ tracker' = FreshTracker(TRUE)
  /\ phase' \in {"HOLD", "ENERGY_CONTROL"}
  /\ owed' = owed + 1
  /\ UNCHANGED lastCross

(* recordEnergyControlAutonomousPeak. *)
RecordPeak ==
  /\ lastPeak' = [valid |-> TRUE, side |-> tracker.side, size |-> tracker.size,
                  ms |-> tracker.ms]
  /\ pending' = [pending EXCEPT !.on = FALSE]
  /\ consumed' = FALSE
  /\ half' = "WAIT_ZERO_CROSS"
  /\ tracker' = FreshTracker(FALSE)
  /\ phase' \in {"HOLD", "ENERGY_CONTROL"}
  /\ owed' = owed + 1
  /\ UNCHANGED lastCross

TrackConfirmed ==
  /\ Motion /\ Tracking
  /\ tracker.started /\ ~Outward /\ Returning
  /\ tracker.returns + 1 >= ConfirmSamples
  /\ IF PeakTooSoon
       THEN tracker' = FreshTracker(TRUE) /\ UNCHANGED <<phase, half, eventVars, owed>>
       ELSE RecordPeak

-----------------------------------------------------------------------------
(* The crossing test, in the same call, and updateEnergyControlAutonomousAt-  *)
(* ZeroCross.                                                                *)

Crossing == \/ previous.detector < 0 /\ sample.detector >= 0
            \/ previous.detector > 0 /\ sample.detector <= 0

CrossingCounts ==
  /\ Crossing /\ ~pulse.active
  /\ half = "WAIT_ZERO_CROSS" /\ Controlling
  /\ lastPeak.valid /\ ~consumed

TooSoon(c) == lastCross.valid /\ c - lastCross.ms < MinHalfCycle

(* No crossing to act upon, or one whose interpolated time is too close to the
   one before. *)
CrossIgnored ==
  /\ At("cross")
  /\ CrossingCounts => \E c \in previous.ms .. now : TooSoon(c)
  /\ PreviousIsThis /\ MotionDone
  /\ UNCHANGED <<state, run, now, phase, half, motorVars, tracker, eventVars, owed>>

CrossAccepted ==
  /\ At("cross") /\ CrossingCounts
  /\ \E c \in previous.ms .. now : ~TooSoon(c) /\ lastCross' = [valid |-> TRUE, ms |-> c]
  /\ PreviousIsThis /\ MotionDone
  /\ consumed' = TRUE
  /\ owed' = owed - 1
  /\ UNCHANGED <<state, run, now, phase, lastPeak>>

RearmForNextPeak == half' = "WAIT_PEAK" /\ tracker' = FreshTracker(TRUE)

(* The side of the interpolated rate, whichever way the two samples weigh. *)
CommandSide ==
  \E rate \in {previous.rate, sample.rate} : pending' = [on |-> TRUE, side |-> SideOf(rate)]

(* A prediction outside the domain of the potential: no command, no side. *)
CrossSolverFails ==
  /\ SolverMayFail
  /\ CrossAccepted
  /\ RearmForNextPeak
  /\ UNCHANGED <<motorVars, pending>>

CrossNoOutput ==
  /\ CrossAccepted
  /\ CommandSide /\ RearmForNextPeak
  /\ UNCHANGED motorVars

(* The Roller is not ready or refuses the current. *)
CrossRefused ==
  /\ CrossAccepted
  /\ CommandSide /\ RearmForNextPeak
  /\ StopMotor

CrossPulse(width) ==
  /\ CrossAccepted
  /\ CommandSide
  /\ half' = "PULSE_ACTIVE" /\ tracker' = FreshTracker(FALSE)
  /\ StartPulse(width)

-----------------------------------------------------------------------------
(* updateEnergyControlAutonomousPulse and the end of the run. *)

(* Mutant: one tick late. *)
PulseOverdue == pulse.active /\ now - pulse.start > pulse.width

PulseOver == pulse.active /\ now - pulse.start >= pulse.width

PulseGoesOn ==
  /\ At("pulse") /\ ~PulseOver
  /\ pc' = "end"
  /\ UNCHANGED <<state, run, now, sample, phase, half, motorVars, tracker, eventVars,
                 previous, owed>>

(* Mutant: only the kick rearms the tracker. *)
PulseEndsUnarmed ==
  /\ At("pulse") /\ PulseOver
  /\ pc' = "end"
  /\ motor' = FALSE
  /\ pulse' = [pulse EXCEPT !.active = FALSE, !.authorized = FALSE, !.width = 0]
  /\ phase' = IF phase = "STRONG_START_KICK" THEN "WAIT_FIRST_PEAK" ELSE phase
  /\ IF phase = "STRONG_START_KICK" THEN RearmForNextPeak ELSE UNCHANGED <<half, tracker>>
  /\ UNCHANGED <<state, run, now, sample, eventVars, previous, owed>>

PulseEnds ==
  /\ At("pulse") /\ PulseOver
  /\ pc' = "end"
  /\ motor' = FALSE
  /\ pulse' = [pulse EXCEPT !.active = FALSE, !.authorized = FALSE, !.width = 0]
  /\ phase' = IF phase = "STRONG_START_KICK" THEN "WAIT_FIRST_PEAK" ELSE phase
  /\ IF phase = "STRONG_START_KICK" \/ half = "PULSE_ACTIVE"
       THEN RearmForNextPeak
       ELSE UNCHANGED <<half, tracker>>
  /\ UNCHANGED <<state, run, now, sample, eventVars, previous, owed>>

StepEnds ==
  /\ At("end") /\ now < Duration
  /\ pc' = "sense"
  /\ UNCHANGED <<state, run, now, sample, phase, half, motorVars, tracker, eventVars,
                 previous, owed>>

(* Mutant: the run ends without stopping the motor. *)
FinishRunDriving ==
  /\ At("end") /\ now >= Duration
  /\ state' = "end_sync" /\ pc' = "sense"
  /\ UNCHANGED <<run, now, sample, phase, half, motorVars, tracker, eventVars, previous,
                 owed>>

FinishRun ==
  /\ At("end") /\ now >= Duration
  /\ state' = "end_sync" /\ pc' = "sense"
  /\ StopMotor
  /\ UNCHANGED <<run, now, sample, phase, half, tracker, eventVars, previous, owed>>

-----------------------------------------------------------------------------

(* What a step does once its sample is there. *)
React == \/ MotionSkips \/ MotionFails
         \/ TrackNothing \/ TrackCandidate \/ TrackInterrupted \/ TrackReturn \/ TrackConfirmed
         \/ CrossIgnored \/ CrossSolverFails \/ CrossNoOutput \/ CrossRefused
         \/ \E width \in Widths : CrossPulse(width)
         \/ PulseGoesOn \/ PulseEnds \/ StepEnds \/ FinishRun

Next == \/ BeginMeasurement
        \/ \E s \in Samples, gap \in 1 .. MaxGap : Sense(s, gap)
        \/ EmergencyStop
        \/ React

Spec == Init /\ [][Next]_vars

-----------------------------------------------------------------------------

(* Current is asked for exactly while a pulse is active, and a pulse only while
   the run is on, authorized, and in a phase or half-cycle state that ends it. *)
MotorOnlyInPulse ==
  /\ motor <=> pulse.active
  /\ pulse.active => /\ Running /\ pulse.authorized
                     /\ phase = "STRONG_START_KICK" \/ half = "PULSE_ACTIVE"

(* A step never leaves behind a pulse whose width is over, whether it came with
   a sample or not. *)
PulseOnTime == pc = "sense" /\ pulse.active => now < pulse.start + pulse.width

(* The motor follows the pulse, and the pulse the clock (serviceFast,
   updateEnergyControlAutonomousPulse and every stop). *)
MotorFollowsPulse == MotorOnlyInPulse /\ PulseOnTime

(* Each state the half-cycle machine waits in can be left: it waits for a pulse
   that is active, for a peak with a tracker that is armed, or for a crossing
   that would be accepted. *)
NeverStuck ==
  Running /\ phase \notin {"STRONG_START_KICK", "STOP"} =>
    CASE half = "PULSE_ACTIVE"    -> pulse.active
      [] half = "WAIT_PEAK"       -> tracker.enabled
      [] half = "WAIT_ZERO_CROSS" -> Controlling /\ lastPeak.valid /\ ~consumed

(* Accepted peaks and accepted crossings alternate, the peak first. *)
OneCrossingPerPeak == owed \in 0 .. 1

(* The accepted times are those of one half cycle after another: a peak at least
   MinZeroToPeak after the last crossing, a crossing not before its peak. *)
EventsInOrder ==
  /\ lastPeak.valid /\ lastCross.valid /\ ~consumed =>
       lastPeak.ms - lastCross.ms >= MinZeroToPeak
  /\ consumed => lastPeak.valid /\ lastCross.valid /\ lastCross.ms >= lastPeak.ms
  /\ tracker.started /\ lastCross.valid => tracker.ms >= lastCross.ms

(* One half cycle after another, in what is accepted and in the times that are
   kept of it (recordEnergyControlAutonomousPeak and the test of the crossing). *)
HalfCyclesInOrder == OneCrossingPerPeak /\ EventsInOrder

(* A peak accepted while a command is pending is on the side commanded. *)
PeakOnCommandedSide ==
  [][lastPeak'.valid /\ lastPeak' # lastPeak /\ pending.on => lastPeak'.side = pending.side]_vars

=============================================================================
