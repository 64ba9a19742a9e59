------------------------- MODULE EnergyControl_proofs -------------------------
(***************************************************************************)
(* Proofs about EnergyControl: the motor is on only in a pulse, which ends in *)
(* time, the half-cycle machine never waits for what cannot come, and peaks  *)
(* and crossings alternate in order, for every sequence of samples and every *)
(* value of the constants.  A swinging body is one such sequence, the shadow *)
(* detector beside the controller is silent on every swing, and no extremum  *)
(* of a swing that leaves the guards their room goes by without its peak.    *)
(***************************************************************************)
EXTENDS Q1Shadow, TLAPS

(* What the steps of the worker pass from one to the next. *)
StepInv ==
  /\ Running /\ pc = "sense" => now < Duration
  /\ pc = "cross" => sample.kind = "fresh" /\ phase \notin {"IDLE", "STOP"}

(* The kick comes before any half cycle, and a run in a half cycle is controlled. *)
KickFirst ==
  Running =>
    /\ phase = "STRONG_START_KICK" => pulse.active /\ half = "WAIT_PEAK"
    /\ half = "WAIT_ZERO_CROSS" => Controlling /\ lastPeak.valid /\ ~consumed
    /\ half = "PULSE_ACTIVE" => pulse.active /\ Controlling

(* owed counts what the half-cycle state knows. *)
OwedIsState == owed = IF half = "WAIT_ZERO_CROSS" THEN 1 ELSE 0

(* A candidate seen while a command is pending is on the side commanded. *)
CandidateSide == pending.on /\ tracker.started => tracker.side = pending.side

Typed == TypeOK /\ StepInv
IInv  == Typed /\ MotorOnlyInPulse /\ NeverStuck /\ KickFirst /\ OwedIsState /\ CandidateSide

-----------------------------------------------------------------------------

(* The sizes a sample may show. *)
LEMMA SampleSize ==
  ASSUME TypeOK, sample.kind = "fresh"
  PROVE  /\ sample.angle \in Angles /\ sample.angle \in Int
         /\ Size(sample.angle) \in Sizes /\ Sign(sample.angle) \in Signs
         /\ sample.detector \in Signs /\ sample.rate \in Signs
BY EnergyControlAssumption DEF TypeOK, Samples, NoSample, Sizes, Sign, Signs

LEMMA FreshTrackerType ==
  ASSUME NEW b \in BOOLEAN
  PROVE  FreshTracker(b) \in TrackerType
BY EnergyControlAssumption DEF FreshTracker, TrackerType, Signs, Sizes, Times

LEMMA InitTyped == Init => Typed
<1> SUFFICES ASSUME Init PROVE Typed
  OBVIOUS
<1>1. tracker \in TrackerType
  BY FreshTrackerType DEF Init
<1>2. 0 \in Times /\ 0 \in Signs /\ 0 \in Sizes /\ 0 \in 0 .. MaxRuns
  BY EnergyControlAssumption DEF Times, Signs, Sizes
<1>3. /\ pulse \in PulseType /\ lastPeak \in PeakType /\ lastCross \in CrossType
      /\ pending \in PendingType /\ previous \in PreviousType
  BY <1>2 DEF Init, PulseType, PeakType, CrossType, PendingType, PreviousType
<1>4. /\ sample \in Samples /\ phase \in Phases /\ half \in HalfStates
      /\ state = "idle" /\ pc = "sense" /\ run = 0 /\ now = 0 /\ motor \in BOOLEAN
      /\ consumed \in BOOLEAN /\ owed = 0
  BY DEF Init, Samples, Phases, HalfStates
<1>5. TypeOK
  BY <1>1, <1>2, <1>3, <1>4 DEF TypeOK
<1>6. StepInv
  BY <1>4, EnergyControlAssumption DEF StepInv
<1> QED BY <1>5, <1>6 DEF Typed

(* Stopping and starting a pulse keep the types. *)
LEMMA MotorTyped ==
  ASSUME TypeOK,
         \/ StopMotor
         \/ UNCHANGED motorVars
         \/ now' \in Times /\ \E width \in Widths \cup {KickWidth} : StartPulse(width)
  PROVE  /\ motor' \in BOOLEAN
         /\ pulse' \in PulseType
<1>1. CASE StopMotor \/ UNCHANGED motorVars
  BY <1>1 DEF TypeOK, StopMotor, motorVars, PulseType
<1>2. CASE now' \in Times /\ \E width \in Widths \cup {KickWidth} : StartPulse(width)
  BY <1>2 DEF StartPulse, PulseType
<1> QED BY <1>1, <1>2

LEMMA NextTyped == Typed /\ [Next]_vars => Typed'
<1> SUFFICES ASSUME Typed, [Next]_vars PROVE Typed'
  OBVIOUS
<1> USE EnergyControlAssumption DEF Typed
<1>0. 0 \in Times /\ 0 \in Signs /\ 0 \in Sizes /\ now \in Nat /\ run \in Nat
  BY DEF Times, Signs, Sizes, TypeOK
<1>1. CASE BeginMeasurement
  <2>1. now' \in Times /\ now' < Duration /\ run' \in 0 .. MaxRuns
    BY <1>0, <1>1 DEF BeginMeasurement, TypeOK
  <2>2. /\ motor' \in BOOLEAN
        /\ pulse' \in PulseType
    <3>1. StopMotor \/ StartPulse(KickWidth)
      BY <1>1 DEF BeginMeasurement
    <3> QED BY <2>1, <3>1, MotorTyped
  <2>3. tracker' \in TrackerType
    BY <1>1, FreshTrackerType DEF BeginMeasurement, ResetControl
  <2>4. /\ lastPeak' \in PeakType /\ lastCross' \in CrossType /\ consumed' \in BOOLEAN
        /\ pending' \in PendingType /\ previous' \in PreviousType /\ half' \in HalfStates
    BY <1>0, <1>1
    DEF BeginMeasurement, ResetControl, PeakType, CrossType, PendingType, PreviousType, HalfStates
  <2> QED BY <1>1, <2>1, <2>2, <2>3, <2>4
      DEF BeginMeasurement, TypeOK, StepInv, Samples, Phases
<1>2. ASSUME NEW s \in Samples, NEW gap \in 1 .. MaxGap, Sense(s, gap) PROVE Typed'
  <2>1. now' \in Times
    BY <1>0, <1>2 DEF Sense, At, StepInv, Times
  <2>2. /\ motor' \in BOOLEAN
        /\ pulse' \in PulseType
    <3>1. StopMotor \/ UNCHANGED motorVars
      BY <1>2 DEF Sense
    <3> QED BY <3>1, MotorTyped
  <2> QED BY <1>2, <2>1, <2>2 DEF Sense, TypeOK, StepInv, eventVars, At, Running
<1>3. CASE EmergencyStop
  BY <1>3, MotorTyped DEF EmergencyStop, TypeOK, StepInv, eventVars, At, Running
<1>4. CASE MotionSkips
  BY <1>4 DEF MotionSkips, MotionDone, TypeOK, StepInv, eventVars, motorVars, Samples, At
<1>5. CASE MotionFails
  BY <1>5, MotorTyped
  DEF MotionFails, TypeOK, StepInv, eventVars, Samples, At, Running, Phases
<1>6. ASSUME Motion PROVE /\ state' \in {"idle", "running", "end_sync", "estop"}
                          /\ pc' \in {"cross", "pulse"} /\ run' = run /\ now' = now
                          /\ sample' \in Samples /\ UNCHANGED motorVars
                          /\ previous' \in PreviousType
                          /\ pc' = "cross" => sample'.kind = "fresh" /\ phase \notin {"IDLE", "STOP"}
                          /\ sample.kind = "fresh"
  <2>1. sample.kind = "fresh" /\ phase \notin {"IDLE", "STOP"}
    BY <1>6 DEF Motion
  <2>2. CASE previous.has
    BY <1>6, <2>1, <2>2 DEF Motion, TypeOK
  <2>3. CASE ~previous.has
    <3>1. previous' \in PreviousType
      <4>1. PreviousIsThis
        BY <1>6, <2>3 DEF Motion
      <4>2. now \in Times /\ sample.detector \in Signs /\ sample.rate \in Signs
        BY <2>1, SampleSize DEF TypeOK
      <4> QED BY <4>1, <4>2 DEF PreviousIsThis, PreviousType
    <3> QED BY <1>6, <2>1, <2>3, <3>1 DEF Motion, MotionDone, TypeOK, Samples
  <2> QED BY <2>2, <2>3
<1>7. CASE TrackNothing
  BY <1>6, <1>7 DEF TrackNothing, TypeOK, StepInv, eventVars, motorVars
<1>8. CASE TrackCandidate
  <2>1. /\ tracker'.started = TRUE
        /\ tracker' \in TrackerType
    <3>1. now \in Times /\ Size(sample.angle) \in Sizes /\ Sign(sample.angle) \in Signs
      BY <1>6, <1>8, SampleSize DEF TrackCandidate, TypeOK
    <3>2. tracker \in TrackerType /\ 0 \in 0 .. ConfirmSamples - 1
      BY DEF TypeOK
    <3>3. tracker' = [tracker EXCEPT !.started = TRUE, !.side = Sign(sample.angle),
                                     !.size = Size(sample.angle), !.ms = now, !.returns = 0]
      BY <1>8 DEF TrackCandidate
    <3> HIDE DEF Typed
    <3> QED BY <3>1, <3>2, <3>3 DEF TrackerType
  <2> QED BY <1>6, <1>8, <2>1 DEF TrackCandidate, TypeOK, StepInv, eventVars, motorVars
<1>9. CASE TrackInterrupted \/ TrackReturn
  <2>1. tracker' \in TrackerType
    BY <1>9 DEF TrackInterrupted, TrackReturn, TypeOK, TrackerType
  <2> QED BY <1>6, <1>9, <2>1
      DEF TrackInterrupted, TrackReturn, TypeOK, StepInv, eventVars, motorVars
<1>10. CASE TrackConfirmed
  <2>1. CASE PeakTooSoon
    BY <1>6, <1>10, <2>1, FreshTrackerType
    DEF TrackConfirmed, TypeOK, StepInv, eventVars, motorVars
  <2>2. CASE ~PeakTooSoon
    <3>1. lastPeak' \in PeakType
      <4>1. tracker.side \in Signs /\ tracker.size \in Sizes /\ tracker.ms \in Times
        BY DEF TypeOK, TrackerType
      <4>2. lastPeak' = [valid |-> TRUE, side |-> tracker.side, size |-> tracker.size,
                         ms |-> tracker.ms]
        BY <1>10, <2>2 DEF TrackConfirmed, RecordPeak
      <4> QED BY <4>1, <4>2 DEF PeakType
    <3>2. pending' \in PendingType
      BY <1>10, <2>2 DEF TrackConfirmed, RecordPeak, TypeOK, PendingType
    <3>3. tracker' \in TrackerType /\ half' \in HalfStates /\ phase' \in Phases \ {"IDLE", "STOP"}
          /\ consumed' \in BOOLEAN /\ owed' \in Int /\ lastCross' \in CrossType
      <4>1. RecordPeak
        BY <1>10, <2>2 DEF TrackConfirmed
      <4>2. owed' \in Int /\ lastCross' \in CrossType
        BY <4>1 DEF RecordPeak, TypeOK
      <4> QED BY <4>1, <4>2, FreshTrackerType DEF RecordPeak, HalfStates, Phases
    <3>4. Motion
      BY <1>10 DEF TrackConfirmed
    <3>5. motor' \in BOOLEAN /\ pulse' \in PulseType
      BY <1>6, <3>4 DEF motorVars, TypeOK
    <3>6. TypeOK'
      BY <1>6, <3>1, <3>2, <3>3, <3>4, <3>5 DEF TypeOK
    <3>7. StepInv'
      BY <1>6, <3>3, <3>4 DEF StepInv
    <3> QED BY <3>6, <3>7
  <2> QED BY <2>1, <2>2
<1>11. ASSUME At("cross")
       PROVE  /\ previous.ms .. now \subseteq Times
              /\ PreviousIsThis => previous' \in PreviousType
              /\ MotionDone => pc' = "pulse" /\ sample' \in Samples
              /\ previous.rate \in Signs /\ sample.rate \in Signs
  <2>1. sample.kind = "fresh"
    BY <1>11 DEF At, StepInv
  <2>2. previous.ms \in Times /\ previous.rate \in Signs /\ now \in Times
    BY DEF TypeOK, PreviousType
  <2>3. PreviousIsThis => previous' \in PreviousType
    BY <2>1, <2>2, SampleSize DEF PreviousIsThis, PreviousType
  <2>4. MotionDone => pc' = "pulse" /\ sample' \in Samples
    BY DEF MotionDone, Samples
  <2> QED BY <2>1, <2>2, <2>3, <2>4, SampleSize DEF Times
<1>12. CASE CrossIgnored
  BY <1>11, <1>12 DEF CrossIgnored, TypeOK, StepInv, eventVars, motorVars
<1>13. ASSUME CrossAccepted
       PROVE  /\ state' = state /\ run' = run /\ now' = now /\ phase' = phase /\ lastPeak' = lastPeak
              /\ pc' = "pulse" /\ sample' \in Samples
              /\ previous' \in PreviousType
              /\ lastCross' \in CrossType
              /\ consumed' \in BOOLEAN /\ owed' \in Int
  BY <1>11, <1>13 DEF CrossAccepted, TypeOK, CrossType
<1>14. ASSUME At("cross"), CommandSide PROVE pending' \in PendingType
  BY <1>11, <1>14 DEF CommandSide, SideOf, Signs, PendingType
<1>15. ASSUME RearmForNextPeak
       PROVE  /\ half' \in HalfStates
              /\ tracker' \in TrackerType
  BY <1>15, FreshTrackerType DEF RearmForNextPeak, HalfStates
<1>16. CASE CrossSolverFails
  BY <1>13, <1>15, <1>16 DEF CrossSolverFails, TypeOK, StepInv, motorVars
<1>17. CASE CrossNoOutput
  <2>1. At("cross")
    BY <1>17 DEF CrossNoOutput, CrossAccepted
  <2> QED BY <1>13, <1>14, <1>15, <1>17, <2>1 DEF CrossNoOutput, TypeOK, StepInv, motorVars
<1>18. CASE CrossRefused
  <2>1. At("cross")
    BY <1>18 DEF CrossRefused, CrossAccepted
  <2> QED BY <1>13, <1>14, <1>15, <1>18, <2>1, MotorTyped DEF CrossRefused, TypeOK, StepInv
<1>19. ASSUME NEW width \in Widths, CrossPulse(width) PROVE Typed'
  <2>1. At("cross") /\ now' \in Times
    BY <1>13, <1>19 DEF CrossPulse, CrossAccepted, TypeOK
  <2>2. /\ motor' \in BOOLEAN
        /\ pulse' \in PulseType
    BY <1>19, <2>1, MotorTyped DEF CrossPulse
  <2> QED BY <1>13, <1>14, <1>19, <2>1, <2>2, FreshTrackerType
      DEF CrossPulse, TypeOK, StepInv, HalfStates
<1>20. CASE PulseGoesOn
  BY <1>20 DEF PulseGoesOn, TypeOK, StepInv, eventVars, motorVars
<1>21. CASE PulseEnds
  <2>1. /\ half' \in HalfStates
        /\ tracker' \in TrackerType
    BY <1>15, <1>21 DEF PulseEnds, TypeOK
  <2>2. pulse' \in PulseType
    BY <1>21 DEF PulseEnds, TypeOK, PulseType
  <2> QED BY <1>21, <2>1, <2>2 DEF PulseEnds, TypeOK, StepInv, eventVars, Phases
<1>22. CASE StepEnds
  BY <1>22 DEF StepEnds, TypeOK, StepInv, eventVars, motorVars
<1>23. CASE FinishRun
  BY <1>23, MotorTyped DEF FinishRun, TypeOK, StepInv, eventVars, Running
<1>24. CASE UNCHANGED vars
  BY <1>24 DEF vars, TypeOK, StepInv, eventVars, motorVars, Running
<1> QED BY <1>1, <1>2, <1>3, <1>4, <1>5, <1>7, <1>8, <1>9, <1>10, <1>12, <1>16, <1>17, <1>18,
           <1>19, <1>20, <1>21, <1>22, <1>23, <1>24 DEF Next, React

(* Every reachable state of the half-cycle controller is well typed: the count of
   returning samples, the sides and the clock stay in their ranges.
   updateEnergyControlAutonomousMotion and its callers. *)
THEOREM TypeCorrect == Spec => []TypeOK
<1> QED BY InitTyped, NextTyped, PTL DEF Spec, Typed

-----------------------------------------------------------------------------

(* The kick and the half cycles, the motor and the count, the tracker's side:
   what a step changes of them. *)
Control == MotorOnlyInPulse /\ NeverStuck /\ KickFirst /\ OwedIsState /\ CandidateSide

LEMMA InitControl == Init => Control
BY DEF Init, Control, MotorOnlyInPulse, NeverStuck, KickFirst, OwedIsState, CandidateSide,
       Running, FreshTracker

LEMMA NextControl == IInv /\ [Next]_vars => Control'
<1> SUFFICES ASSUME IInv, [Next]_vars PROVE Control'
  OBVIOUS
<1> USE DEF IInv
<1>0. /\ pulse \in PulseType /\ tracker \in TrackerType /\ pending \in PendingType
      /\ pulse.active \in BOOLEAN /\ pulse.authorized \in BOOLEAN /\ motor \in BOOLEAN
      /\ owed \in Int
  BY DEF Typed, TypeOK, PulseType
<1>1. CASE BeginMeasurement
  <2>1. /\ state' = "running" /\ half' = "WAIT_PEAK" /\ owed' = 0 /\ pending'.on = FALSE
    BY <1>1 DEF BeginMeasurement, ResetControl
  <2>2. CASE phase' = "STRONG_START_KICK" /\ StartPulse(KickWidth)
    BY <2>1, <2>2 DEF StartPulse, Control, MotorOnlyInPulse, NeverStuck, KickFirst, OwedIsState,
                      CandidateSide, Running
  <2>3. CASE phase' = "STOP" /\ StopMotor
    BY <1>0, <2>1, <2>3 DEF StopMotor, PulseType, Control, MotorOnlyInPulse, NeverStuck, KickFirst,
                            OwedIsState, CandidateSide, Running
  <2> QED BY <1>1, <2>2, <2>3 DEF BeginMeasurement
<1>2. ASSUME UNCHANGED <<state, phase, half, motorVars, tracker, lastPeak, consumed, pending, owed>>
      PROVE  Control'
  BY <1>2 DEF motorVars, Control, MotorOnlyInPulse, NeverStuck, KickFirst, OwedIsState,
              CandidateSide, Running, Controlling
<1>3. ASSUME NEW s \in Samples, NEW gap \in 1 .. MaxGap, Sense(s, gap) PROVE Control'
  <2>1. UNCHANGED <<state, phase, half, tracker, lastPeak, consumed, pending, owed>>
    BY <1>3 DEF Sense, eventVars
  <2>2. CASE PulseLive
    BY <1>3, <2>1, <2>2, <1>2 DEF Sense
  <2>3. CASE ~PulseLive
    <3>1. ~pulse.active
      BY <2>3 DEF PulseLive, MotorOnlyInPulse
    <3>2. StopMotor
      BY <1>3, <2>3 DEF Sense
    <3>3. ~motor' /\ ~pulse'.active
      BY <1>0, <3>2 DEF StopMotor, PulseType
    <3>4. MotorOnlyInPulse'
      BY <3>3 DEF MotorOnlyInPulse
    <3>5. KickFirst'
      BY <2>1, <3>1 DEF KickFirst, Running, Controlling
    <3>6. NeverStuck'
      <4>1. half \in HalfStates
        BY DEF Typed, TypeOK
      <4>2. Running => half # "PULSE_ACTIVE"
        BY <3>1 DEF KickFirst
      <4> QED BY <2>1, <4>1, <4>2 DEF NeverStuck, Running, Controlling, HalfStates
    <3>7. OwedIsState' /\ CandidateSide'
      BY <2>1 DEF OwedIsState, CandidateSide
    <3> QED BY <3>4, <3>5, <3>6, <3>7 DEF Control
  <2> QED BY <2>2, <2>3
<1>4. ASSUME state' = "estop" \/ state' = "end_sync", StopMotor,
             UNCHANGED <<half, tracker, pending, owed>>
      PROVE  Control'
  BY <1>0, <1>4 DEF StopMotor, PulseType, Control, MotorOnlyInPulse, NeverStuck, KickFirst,
                    OwedIsState, CandidateSide, Running
<1>5. CASE EmergencyStop \/ MotionFails \/ FinishRun
  BY <1>4, <1>5 DEF EmergencyStop, MotionFails, FinishRun, eventVars
<1>6. CASE MotionSkips \/ TrackNothing \/ CrossIgnored \/ PulseGoesOn \/ StepEnds \/ UNCHANGED vars
  BY <1>2, <1>6 DEF MotionSkips, TrackNothing, Motion, CrossIgnored, PulseGoesOn, StepEnds, vars,
                    eventVars
<1>7. ASSUME Tracking, Running
      PROVE  /\ half = "WAIT_PEAK" /\ owed = 0 /\ ~pulse.active /\ tracker.enabled
             /\ phase \notin {"IDLE", "STRONG_START_KICK", "STOP"}
             /\ pending.on => Sign(sample.angle) = pending.side
  BY <1>7 DEF Tracking, OwedIsState, WrongSide
<1>8. ASSUME Motion, Tracking
      PROVE  UNCHANGED <<state, motorVars>> /\ Running
  BY <1>8 DEF Motion, At
<1>9. CASE TrackCandidate \/ TrackInterrupted \/ TrackReturn
  <2>1. /\ Motion /\ Tracking /\ UNCHANGED <<phase, half, lastPeak, consumed, pending, owed>>
        /\ tracker'.enabled = tracker.enabled
    BY <1>0, <1>9 DEF TrackCandidate, TrackInterrupted, TrackReturn, eventVars, TrackerType
  <2>2. CandidateSide'
    <3>1. CASE TrackCandidate
      BY <1>0, <1>7, <1>8, <2>1, <3>1 DEF TrackCandidate, CandidateSide, TrackerType
    <3>2. CASE TrackInterrupted \/ TrackReturn
      BY <1>0, <2>1, <3>2 DEF TrackInterrupted, TrackReturn, CandidateSide, TrackerType
    <3> QED BY <1>9, <3>1, <3>2
  <2> QED BY <1>7, <1>8, <2>1, <2>2
      DEF motorVars, Control, MotorOnlyInPulse, NeverStuck, KickFirst, OwedIsState, Running
<1>10. CASE TrackConfirmed
  <2>1. Motion /\ Tracking /\ Running /\ UNCHANGED <<state, motorVars>>
    BY <1>8, <1>10 DEF TrackConfirmed
  <2>2. CASE PeakTooSoon
    <3>1. /\ UNCHANGED <<phase, half, lastPeak, consumed, pending, owed>>
          /\ tracker'.enabled /\ ~tracker'.started
      BY <1>10, <2>2 DEF TrackConfirmed, eventVars, FreshTracker
    <3> QED BY <1>7, <2>1, <3>1
        DEF motorVars, Control, MotorOnlyInPulse, NeverStuck, KickFirst, OwedIsState,
            CandidateSide, Running
  <2>3. CASE ~PeakTooSoon
    <3>1. /\ half' = "WAIT_ZERO_CROSS" /\ phase' \in {"HOLD", "ENERGY_CONTROL"}
          /\ lastPeak'.valid /\ ~consumed' /\ owed' = owed + 1 /\ ~tracker'.started
      BY <1>10, <2>3 DEF TrackConfirmed, RecordPeak, FreshTracker
    <3> QED BY <1>7, <2>1, <3>1
        DEF motorVars, Control, MotorOnlyInPulse, NeverStuck, KickFirst, OwedIsState,
            CandidateSide, Running, Controlling
  <2> QED BY <2>2, <2>3
<1>11. ASSUME CrossAccepted
       PROVE  /\ Running /\ ~pulse.active /\ Controlling /\ owed' = 0
              /\ UNCHANGED <<state, phase, lastPeak>>
  BY <1>0, <1>11 DEF CrossAccepted, CrossingCounts, At, OwedIsState
<1>12. ASSUME RearmForNextPeak
       PROVE  half' = "WAIT_PEAK" /\ tracker'.enabled /\ ~tracker'.started
  BY <1>12 DEF RearmForNextPeak, FreshTracker
<1>13. CASE CrossSolverFails \/ CrossNoOutput \/ CrossRefused
  <2>1. CrossAccepted /\ RearmForNextPeak /\ ~pulse.active /\ ~motor
    BY <1>11, <1>13 DEF CrossSolverFails, CrossNoOutput, CrossRefused, MotorOnlyInPulse
  <2>2. ~motor' /\ ~pulse'.active
    <3>1. CASE UNCHANGED motorVars
      BY <2>1, <3>1 DEF motorVars
    <3>2. CASE StopMotor
      BY <1>0, <3>2 DEF StopMotor, PulseType
    <3> QED BY <1>13, <3>1, <3>2 DEF CrossSolverFails, CrossNoOutput, CrossRefused
  <2> QED BY <1>11, <1>12, <2>1, <2>2
      DEF Control, MotorOnlyInPulse, NeverStuck, KickFirst, OwedIsState, CandidateSide, Running,
          Controlling
<1>14. ASSUME NEW width \in Widths, CrossPulse(width) PROVE Control'
  <2>1. /\ CrossAccepted /\ half' = "PULSE_ACTIVE" /\ ~tracker'.started
        /\ motor' /\ pulse'.active /\ pulse'.authorized
    BY <1>14 DEF CrossPulse, FreshTracker, StartPulse
  <2> QED BY <1>11, <2>1
      DEF Control, MotorOnlyInPulse, NeverStuck, KickFirst, OwedIsState, CandidateSide, Running,
          Controlling
<1>15. CASE PulseEnds
  <2>1. /\ Running /\ pulse.active /\ ~motor' /\ ~pulse'.active
        /\ UNCHANGED <<state, lastPeak, consumed, pending, owed>>
    BY <1>0, <1>15 DEF PulseEnds, PulseOver, At, PulseType, eventVars
  <2>2. phase = "STRONG_START_KICK" \/ half = "PULSE_ACTIVE"
    BY <2>1 DEF MotorOnlyInPulse
  <2>3. RearmForNextPeak /\ phase' # "STRONG_START_KICK" /\ owed = 0
    BY <1>15, <2>1, <2>2 DEF PulseEnds, KickFirst, OwedIsState
  <2> QED BY <1>12, <2>1, <2>3
      DEF Control, MotorOnlyInPulse, NeverStuck, KickFirst, OwedIsState, CandidateSide, Running
<1> QED BY <1>1, <1>3, <1>5, <1>6, <1>9, <1>10, <1>13, <1>14, <1>15 DEF Next, React

(* The inductive invariant. *)
LEMMA Invariant == Spec => []IInv
<1>1. Init => IInv
  BY InitTyped, InitControl DEF IInv, Control
<1>2. IInv /\ [Next]_vars => IInv'
  BY NextTyped, NextControl DEF IInv, Control
<1> QED BY <1>1, <1>2, PTL DEF Spec

-----------------------------------------------------------------------------

(* What keeps the accepted times in their order: nothing is stamped later than
   now; but for the sample that is being crossed, a candidate is not later than
   the previous sample, nor is the peak a crossing is awaited for; and before the
   first peak there was no crossing. *)
Stamped ==
  /\ previous.ms <= now /\ tracker.ms <= now /\ lastCross.ms <= now
  /\ tracker.started /\ pc # "cross" => tracker.ms <= previous.ms
  /\ half = "WAIT_ZERO_CROSS" => lastPeak.ms <= previous.ms
  /\ phase \in {"STRONG_START_KICK", "WAIT_FIRST_PEAK"} => ~lastCross.valid

(* At the end of a step, too, no pulse is over that is still active. *)
PulseInTime == pc \in {"sense", "end"} /\ pulse.active => now < pulse.start + pulse.width

TimeInv == Stamped /\ EventsInOrder /\ PulseInTime

LEMMA InitTime == Init => TimeInv
BY DEF Init, TimeInv, Stamped, EventsInOrder, PulseInTime, FreshTracker

LEMMA NextTime == IInv /\ TimeInv /\ [Next]_vars => TimeInv'
<1> SUFFICES ASSUME IInv, TimeInv, [Next]_vars PROVE TimeInv'
  OBVIOUS
<1>0. /\ pulse \in PulseType /\ tracker \in TrackerType /\ previous \in PreviousType
      /\ lastPeak \in PeakType /\ lastCross \in CrossType /\ consumed \in BOOLEAN
      /\ now \in Nat /\ pulse.start \in Nat /\ pulse.width \in Nat /\ pulse.active \in BOOLEAN
      /\ previous.ms \in Nat /\ tracker.ms \in Nat /\ lastPeak.ms \in Nat /\ lastCross.ms \in Nat
      /\ MinZeroToPeak \in Nat
  <2>1. Times \subseteq Nat
    BY EnergyControlAssumption DEF Times
  <2>2. /\ pulse \in PulseType /\ tracker \in TrackerType /\ previous \in PreviousType
        /\ lastPeak \in PeakType /\ lastCross \in CrossType /\ consumed \in BOOLEAN /\ now \in Times
    BY DEF IInv, Typed, TypeOK
  <2>3. pulse.start \in Times /\ pulse.active \in BOOLEAN /\ pulse.width \in Widths \cup {0, KickWidth}
    BY <2>2 DEF PulseType
  <2>4. tracker.ms \in Times /\ previous.ms \in Times
    BY <2>2 DEF TrackerType, PreviousType
  <2>5. lastPeak.ms \in Times /\ lastCross.ms \in Times
    BY <2>2 DEF PeakType, CrossType
  <2>6. Widths \cup {0, KickWidth} \subseteq Nat
    BY EnergyControlAssumption
  <2>7. pulse.width \in Nat /\ MinZeroToPeak \in Nat
    BY <2>3, <2>6, EnergyControlAssumption
  <2> QED BY <2>1, <2>2, <2>3, <2>4, <2>5, <2>7
<1>1. CASE BeginMeasurement
  <2>1. /\ now' = 0 /\ pc' = "sense" /\ half' = "WAIT_PEAK" /\ ~consumed' /\ ~tracker'.started
        /\ previous'.ms = 0 /\ tracker'.ms = 0 /\ lastCross'.ms = 0 /\ ~lastCross'.valid
    BY <1>1 DEF BeginMeasurement, ResetControl, FreshTracker
  <2>2. PulseInTime'
    <3>1. CASE StartPulse(KickWidth)
      BY <2>1, <3>1, EnergyControlAssumption DEF StartPulse, PulseInTime
    <3>2. CASE StopMotor
      BY <1>0, <3>2 DEF StopMotor, PulseType, PulseInTime
    <3> QED BY <1>1, <3>1, <3>2 DEF BeginMeasurement
  <2> QED BY <2>1, <2>2 DEF TimeInv, Stamped, EventsInOrder
(* Nothing but the clock, the place in the step and the motor. *)
<1>2. ASSUME UNCHANGED <<half, tracker, eventVars, previous>>, now' \in Nat, now <= now',
             pc # "cross", phase' = phase \/ phase' = "STOP"
      PROVE  Stamped' /\ EventsInOrder'
  BY <1>0, <1>2 DEF eventVars, TimeInv, Stamped, EventsInOrder
<1>3. ASSUME StopMotor PROVE PulseInTime'
  BY <1>0, <1>3 DEF StopMotor, PulseType, PulseInTime
<1>4. ASSUME NEW s \in Samples, NEW gap \in 1 .. MaxGap, Sense(s, gap) PROVE TimeInv'
  <2>1. pc = "sense" /\ pc' = "track" /\ now' \in Nat /\ now <= now'
        /\ UNCHANGED <<phase, half, tracker, eventVars, previous>>
    BY <1>0, <1>4, EnergyControlAssumption DEF Sense, At
  <2> QED BY <1>2, <2>1 DEF PulseInTime, TimeInv
<1>5. CASE EmergencyStop \/ MotionFails \/ FinishRun
  <2>1. StopMotor /\ pc # "cross" /\ now' = now /\ UNCHANGED <<half, tracker, eventVars, previous>>
        /\ (phase' = phase \/ phase' = "STOP")
    BY <1>5 DEF EmergencyStop, MotionFails, FinishRun, At
  <2> QED BY <1>0, <1>2, <1>3, <2>1 DEF TimeInv
<1>6. CASE MotionSkips \/ PulseGoesOn \/ StepEnds
  <2>1. pc # "cross" /\ now' = now /\ UNCHANGED <<half, tracker, eventVars, previous, phase, motorVars>>
    BY <1>6 DEF MotionSkips, PulseGoesOn, StepEnds, At
  <2>2. PulseInTime'
    <3>1. CASE MotionSkips
      BY <3>1 DEF MotionSkips, MotionDone, PulseInTime
    <3>2. CASE PulseGoesOn
      BY <1>0, <2>1, <3>2 DEF PulseGoesOn, PulseOver, PulseInTime, motorVars
    <3>3. CASE StepEnds
      BY <2>1, <3>3 DEF StepEnds, At, TimeInv, PulseInTime, motorVars
    <3> QED BY <1>6, <3>1, <3>2, <3>3
  <2> QED BY <1>0, <1>2, <2>1, <2>2 DEF TimeInv
(* The sample becomes the previous one, at once or after the crossing test. *)
<1>7. ASSUME Motion
      PROVE  /\ pc = "track" /\ now' = now /\ PulseInTime'
             /\ \/ pc' = "cross" /\ UNCHANGED previous
                \/ pc' = "pulse" /\ previous'.ms = now
  <2>1. pc = "track" /\ now' = now
    BY <1>7 DEF Motion, At
  <2>2. CASE previous.has
    <3>1. pc' = "cross" /\ UNCHANGED previous
      BY <1>7, <2>2 DEF Motion
    <3> QED BY <2>1, <3>1 DEF PulseInTime
  <2>3. CASE ~previous.has
    <3>1. pc' = "pulse" /\ previous' = [has |-> TRUE, detector |-> sample.detector,
                                       rate |-> sample.rate, ms |-> now]
      BY <1>7, <2>3 DEF Motion, MotionDone, PreviousIsThis
    <3>2. previous'.ms = now
      BY <3>1
    <3> QED BY <2>1, <3>1, <3>2 DEF PulseInTime
  <2> QED BY <2>2, <2>3
<1>8. CASE TrackNothing \/ TrackInterrupted \/ TrackReturn
  <2>1. /\ Motion /\ UNCHANGED <<phase, half, eventVars>>
        /\ tracker'.started = tracker.started /\ tracker'.ms = tracker.ms
    BY <1>0, <1>8 DEF TrackNothing, TrackInterrupted, TrackReturn, TrackerType
  <2> QED BY <1>0, <1>7, <2>1 DEF eventVars, TimeInv, Stamped, EventsInOrder
<1>9. CASE TrackCandidate
  <2>1. Motion /\ UNCHANGED <<phase, half, eventVars>>
    BY <1>9 DEF TrackCandidate
  <2>2. tracker' = [tracker EXCEPT !.started = TRUE, !.side = Sign(sample.angle),
                                   !.size = Size(sample.angle), !.ms = now, !.returns = 0]
    BY <1>9 DEF TrackCandidate
  <2>3. tracker'.started /\ tracker'.ms = now
    BY <1>0, <2>2 DEF TrackerType
  <2> QED BY <1>0, <1>7, <2>1, <2>3 DEF eventVars, TimeInv, Stamped, EventsInOrder
<1>10. CASE TrackConfirmed
  <2>1. Motion /\ tracker.started
    BY <1>10 DEF TrackConfirmed
  <2>2. CASE PeakTooSoon
    <3>1. UNCHANGED <<phase, half, eventVars>> /\ ~tracker'.started /\ tracker'.ms = 0
      BY <1>10, <2>2 DEF TrackConfirmed, FreshTracker
    <3> QED BY <1>0, <1>7, <2>1, <3>1 DEF eventVars, TimeInv, Stamped, EventsInOrder
  <2>3. CASE ~PeakTooSoon
    <3>1. /\ half' = "WAIT_ZERO_CROSS" /\ ~consumed' /\ ~tracker'.started /\ tracker'.ms = 0
          /\ lastPeak'.ms = tracker.ms /\ lastCross' = lastCross /\ phase' \in {"HOLD", "ENERGY_CONTROL"}
      BY <1>10, <2>3 DEF TrackConfirmed, RecordPeak, FreshTracker
    <3>2. lastCross.valid => tracker.ms - lastCross.ms >= MinZeroToPeak
      BY <1>0, <2>3 DEF PeakTooSoon, TimeInv, Stamped
    <3> QED BY <1>0, <1>7, <2>1, <3>1, <3>2 DEF TimeInv, Stamped, EventsInOrder
  <2> QED BY <2>2, <2>3
<1>11. CASE CrossIgnored
  <2>1. /\ pc' = "pulse" /\ now' = now /\ previous'.ms = now /\ UNCHANGED <<phase, half, tracker, eventVars>>
    BY <1>11 DEF CrossIgnored, MotionDone, PreviousIsThis
  <2> QED BY <1>0, <2>1 DEF eventVars, TimeInv, Stamped, EventsInOrder, PulseInTime
<1>12. ASSUME CrossAccepted, half' # "WAIT_ZERO_CROSS", ~tracker'.started, tracker'.ms = 0
       PROVE  TimeInv'
  <2>1. /\ Controlling /\ lastPeak.valid /\ half = "WAIT_ZERO_CROSS"
        /\ pc' = "pulse" /\ now' = now /\ previous'.ms = now /\ UNCHANGED <<phase, lastPeak>> /\ consumed'
    BY <1>12 DEF CrossAccepted, CrossingCounts, MotionDone, PreviousIsThis
  <2>2. PICK c \in previous.ms .. now : lastCross' = [valid |-> TRUE, ms |-> c]
    BY <1>12 DEF CrossAccepted
  <2>3. lastCross'.valid /\ lastCross'.ms = c
    BY <2>2
  <2> QED BY <1>0, <1>12, <2>1, <2>2, <2>3
      DEF TimeInv, Stamped, EventsInOrder, PulseInTime, Controlling
<1>13. CASE CrossSolverFails \/ CrossNoOutput \/ CrossRefused
  BY <1>12, <1>13 DEF CrossSolverFails, CrossNoOutput, CrossRefused, RearmForNextPeak, FreshTracker
<1>14. ASSUME NEW width \in Widths, CrossPulse(width) PROVE TimeInv'
  BY <1>12, <1>14 DEF CrossPulse, FreshTracker
<1>15. CASE PulseEnds
  <2>1. /\ pc' = "end" /\ now' = now /\ UNCHANGED <<eventVars, previous>> /\ ~pulse'.active
        /\ phase' = IF phase = "STRONG_START_KICK" THEN "WAIT_FIRST_PEAK" ELSE phase
    BY <1>0, <1>15 DEF PulseEnds, PulseType
  <2>2. \/ half' = "WAIT_PEAK" /\ ~tracker'.started /\ tracker'.ms = 0
        \/ UNCHANGED <<half, tracker>>
    BY <1>15 DEF PulseEnds, RearmForNextPeak, FreshTracker
  <2>3. pc = "pulse"
    BY <1>15 DEF PulseEnds, At
  <2> QED BY <1>0, <2>1, <2>2, <2>3 DEF eventVars, TimeInv, Stamped, EventsInOrder, PulseInTime
<1>16. CASE UNCHANGED vars
  BY <1>16 DEF vars, eventVars, motorVars, TimeInv, Stamped, EventsInOrder, PulseInTime
<1> QED BY <1>1, <1>4, <1>5, <1>6, <1>8, <1>9, <1>10, <1>11, <1>13, <1>14, <1>15, <1>16 DEF Next, React

LEMMA TimeInvariant == Spec => []TimeInv
<1>1. Init => TimeInv
  BY InitTime
<1>2. IInv /\ TimeInv /\ [Next]_vars => TimeInv'
  BY NextTime
<1> QED BY <1>1, <1>2, Invariant, PTL DEF Spec

-----------------------------------------------------------------------------

(* Current is asked for exactly in a pulse, a pulse only in a run that is on and in
   a state that ends it, and never past its width: every path that starts or stops
   the motor, and updateEnergyControlAutonomousPulse in every step. *)
THEOREM MotorCorrect == Spec => []MotorFollowsPulse
<1>1. IInv /\ TimeInv => MotorFollowsPulse
  BY DEF IInv, TimeInv, PulseInTime, PulseOnTime, MotorFollowsPulse
<1> QED BY <1>1, Invariant, TimeInvariant, PTL

(* The half-cycle machine waits only for what can come: every way in and out of
   the states of updateEnergyControlAutonomousPulse and its callees. *)
THEOREM MachineLive == Spec => []NeverStuck
<1> QED BY Invariant, PTL DEF IInv

(* Accepted peaks and accepted crossings alternate, and their times, one of which
   is interpolated backwards, never run in the other order:
   recordEnergyControlAutonomousPeak and updateEnergyControlAutonomousAtZeroCross. *)
THEOREM Alternation == Spec => []HalfCyclesInOrder
<1>1. IInv /\ TimeInv => HalfCyclesInOrder
  BY DEF IInv, TimeInv, OwedIsState, OneCrossingPerPeak, HalfCyclesInOrder
<1> QED BY <1>1, Invariant, TimeInvariant, PTL

(* Only a confirmed candidate makes a peak. *)
LEMMA PeakIsConfirmed ==
  ASSUME [Next]_vars, lastPeak'.valid, lastPeak' # lastPeak
  PROVE  TrackConfirmed /\ RecordPeak
<1>1. ~BeginMeasurement
  <2>1. SUFFICES ASSUME lastPeak' = [valid |-> FALSE, side |-> 0, size |-> 0, ms |-> 0]
                 PROVE  FALSE
    BY DEF BeginMeasurement, ResetControl
  <2>2. ~lastPeak'.valid
    BY <2>1
  <2> QED BY <2>2
<1>2. ~CrossAccepted
  BY DEF CrossAccepted
<1>3. /\ ~(\E s \in Samples, gap \in 1 .. MaxGap : Sense(s, gap))
      /\ ~EmergencyStop /\ ~MotionSkips /\ ~MotionFails /\ ~(UNCHANGED vars)
  BY DEF Sense, EmergencyStop, MotionSkips, MotionFails, vars, eventVars
<1>4. ~TrackNothing /\ ~TrackCandidate /\ ~TrackInterrupted /\ ~TrackReturn /\ ~CrossIgnored
  BY DEF TrackNothing, TrackCandidate, TrackInterrupted, TrackReturn, CrossIgnored, eventVars
<1>5. /\ ~CrossSolverFails /\ ~CrossNoOutput /\ ~CrossRefused
      /\ ~(\E width \in Widths : CrossPulse(width))
  BY <1>2 DEF CrossSolverFails, CrossNoOutput, CrossRefused, CrossPulse
<1>6. ~PulseGoesOn /\ ~PulseEnds /\ ~StepEnds /\ ~FinishRun
  BY DEF PulseGoesOn, PulseEnds, StepEnds, FinishRun, eventVars
<1>7. TrackConfirmed
  BY <1>1, <1>3, <1>4, <1>5, <1>6 DEF Next, React
<1> QED BY <1>7 DEF TrackConfirmed, eventVars

(* A peak accepted while a command is pending is on the side commanded:
   updateEnergyControlAutonomousPeakTracker's wait for pending_next_side. *)
THEOREM CommandedSide == Spec => PeakOnCommandedSide
<1>1. IInv /\ [Next]_vars =>
        (lastPeak'.valid /\ lastPeak' # lastPeak /\ pending.on => lastPeak'.side = pending.side)
  <2> SUFFICES ASSUME IInv, [Next]_vars, lastPeak'.valid, lastPeak' # lastPeak, pending.on
               PROVE  lastPeak'.side = pending.side
    OBVIOUS
  <2>1. RecordPeak /\ tracker.started
    BY PeakIsConfirmed DEF TrackConfirmed
  <2>2. lastPeak'.side = tracker.side
    BY <2>1 DEF RecordPeak
  <2> QED BY <2>1, <2>2 DEF IInv, CandidateSide
<1> QED BY <1>1, Invariant, PTL DEF Spec, PeakOnCommandedSide

-----------------------------------------------------------------------------
(* The swinging body, and the shadow detector beside the controller. *)

(* The body is within its swing, and at a turn is on its way back. *)
BodyInv ==
  /\ amplitude \in Amplitudes /\ angle \in -amplitude .. amplitude
  /\ direction \in {-1, 1}
  /\ Size(angle) = amplitude => direction = -Sign(angle)

LEMMA InitBody == SwingInit => BodyInv
BY SwingingControlAssumption DEF SwingInit, BodyInv, Size, Sign

LEMMA NextBody == BodyInv /\ [SwingNext]_swingVars => BodyInv'
<1> SUFFICES ASSUME BodyInv, [SwingNext]_swingVars PROVE BodyInv'
  OBVIOUS
<1>1. CASE Begin
  <2>1. angle' = 0 /\ direction' = 1 /\ amplitude' \in Amplitudes
    BY <1>1 DEF Begin
  <2>2. amplitude' \in Nat \ {0}
    BY <2>1, SwingingControlAssumption
  <2>3. PICK a \in Nat \ {0} : amplitude' = a
    BY <2>2
  <2>4. angle' \in -amplitude' .. amplitude' /\ Size(angle') # amplitude'
    BY <2>1, <2>3 DEF Size
  <2> QED BY <2>1, <2>4 DEF BodyInv, Size
<1>2. CASE Tick
  <2>1. amplitude \in Nat \ {0} /\ angle \in Int /\ angle + direction \in -amplitude .. amplitude
    BY SwingingControlAssumption DEF BodyInv, Size, Sign
  <2>2. CASE angle + direction = 0
    <3>1. angle' = 0 /\ amplitude' \in Amplitudes /\ direction' = direction
      BY <1>2, <2>1, <2>2 DEF Tick, Swing, Size
    <3>2. amplitude' \in Nat \ {0}
      BY <3>1, SwingingControlAssumption
    <3>3. PICK a \in Nat \ {0} : amplitude' = a
      BY <3>2
    <3>4. angle' \in -amplitude' .. amplitude' /\ Size(angle') # amplitude'
      BY <3>1, <3>3 DEF Size
    <3> QED BY <2>1, <3>1, <3>4 DEF BodyInv, Size
  <2>3. CASE angle + direction # 0
    BY <1>2, <2>1, <2>3 DEF Tick, Swing, BodyInv, Size, Sign
  <2> QED BY <2>2, <2>3
<1>3. CASE UNCHANGED bodyVars
  BY <1>3 DEF bodyVars, BodyInv, Size, Sign
<1> QED BY <1>1, <1>2, <1>3 DEF SwingNext, swingVars

LEMMA Body == SwingSpec => []BodyInv
BY InitBody, NextBody, PTL DEF SwingSpec

(* What a body shows is among the samples. *)
LEMMA ReadingSample ==
  ASSUME BodyInv, Swing PROVE Reading \in Samples
<1>1. /\ amplitude \in Nat \ {0} /\ angle' = angle + direction /\ angle' \in -amplitude .. amplitude
      /\ direction \in {-1, 1}
  BY SwingingControlAssumption DEF BodyInv, Swing, Size, Sign
<1>2. angle' \in Angles
  BY <1>1, SwingingControlAssumption DEF BodyInv
<1>3. direction \in Signs /\ Lead \in Nat
  BY <1>1, SwingingControlAssumption DEF Signs
<1>4. Reading.detector \in Signs
  BY <1>1, <1>3 DEF Reading, Sign, Signs
<1>5. Reading = [kind |-> "fresh", angle |-> angle', rate |-> direction,
                 detector |-> Reading.detector]
  BY DEF Reading
<1> HIDE DEF Reading
<1> QED BY <1>2, <1>3, <1>4, <1>5 DEF Samples

LEMMA SwingStep == BodyInv /\ [SwingNext]_swingVars => [Next]_vars
<1> SUFFICES ASSUME BodyInv, SwingNext PROVE [Next]_vars
  BY DEF swingVars
<1>1. CASE Begin
  BY <1>1 DEF Begin, Next
<1>2. CASE Tick
  <2>1. Reading \in Samples /\ NoSample \in Samples /\ 1 \in 1 .. MaxGap
    BY <1>2, ReadingSample, EnergyControlAssumption DEF Tick, Samples
  <2>2. \E s \in Samples, gap \in 1 .. MaxGap : Sense(s, gap)
    BY <1>2, <2>1 DEF Tick
  <2> QED BY <2>2 DEF Next
<1>3. CASE EmergencyStop \/ React
  BY <1>3 DEF Next
<1> QED BY <1>1, <1>2, <1>3 DEF SwingNext

(* A body that swings is one of the controller's surroundings: what is proved of
   the half-cycle controller holds of it. *)
THEOREM SwingImplements == SwingSpec => Spec
<1>1. SwingInit => Init
  BY DEF SwingInit
<1> QED BY <1>1, SwingStep, Body, PTL DEF SwingSpec, Spec

(* The shadow saw the last sample that could not be missed, and the angle it
   holds is never one that the next sample crosses against the rate. *)
ShadowInv ==
  /\ shadow.angle \in Int
  /\ shadow.has /\ Size(angle) \notin {0, amplitude} => shadow.angle = angle + Lead * direction
  /\ shadow.has /\ direction = 1 /\ shadow.angle > 0 => angle + 1 + Lead > 0
  /\ shadow.has /\ direction = -1 /\ shadow.angle < 0 => angle - 1 - Lead < 0
  /\ ShadowSilent

LEMMA ShadowSwings == ShadowSpec => SwingSpec
<1>1. ShadowInit => SwingInit
  BY DEF ShadowInit
<1>2. [ShadowNext]_shadowRunVars => [SwingNext]_swingVars
  BY DEF ShadowNext, shadowRunVars, ShadowBegin, ShadowTick, SwingNext
<1> QED BY <1>1, <1>2, PTL DEF ShadowSpec, SwingSpec

(* The samples of a tick: only those at a turn or at the centre may be missing. *)
LEMMA TickSample ==
  ASSUME Tick
  PROVE  \/ sample'.kind = "fresh"
         \/ sample'.kind # "fresh" /\ MayMiss
BY DEF Tick, Sense, NoSample, Reading

LEMMA NextShadow ==
  ASSUME Lead > 0 \/ 1 \notin Amplitudes
  PROVE  BodyInv /\ ShadowInv /\ [ShadowNext]_shadowRunVars => ShadowInv'
<1> SUFFICES ASSUME BodyInv, ShadowInv, [ShadowNext]_shadowRunVars PROVE ShadowInv'
  OBVIOUS
<1>1. CASE ShadowBegin
  BY <1>1 DEF ShadowBegin, Begin, NothingSeen, ShadowInv, ShadowSilent, Size
<1>2. CASE ShadowTick
  <2>1. /\ amplitude \in Nat \ {0} /\ angle' = angle + direction /\ angle' \in -amplitude .. amplitude
        /\ angle \in Int /\ direction \in {-1, 1} /\ Lead \in Nat
    BY <1>2, SwingingControlAssumption DEF ShadowTick, Tick, BodyInv, Swing, Size, Sign
  <2>2. /\ direction' = IF Size(angle') = amplitude THEN -direction ELSE direction
        /\ angle' # 0 => amplitude' = amplitude
    BY <1>2 DEF ShadowTick, Tick, Swing
  <2>3. Size(angle') = amplitude => angle' = amplitude * direction
    BY <2>1 DEF BodyInv, Size, Sign
  <2>4. CASE sample'.kind = "fresh"
    <3>w. Watch
      BY <1>2, <2>4 DEF ShadowTick
    <3>s. shadow'.has /\ shadow'.angle = DetectorAngle
      BY <3>w DEF Watch
    <3>r. recorded' => recorded \/ (shadow.has /\ SignGate(Crossed, direction))
      BY <3>w, Zenon DEF Watch
    <3>1. /\ shadow'.has /\ shadow'.angle = DetectorAngle
          /\ recorded' => recorded \/ (shadow.has /\ SignGate(Crossed, direction))
      BY <3>s, <3>r
    <3>2. DetectorAngle = angle + direction + Lead * direction /\ DetectorAngle \in Int
      BY <2>1 DEF DetectorAngle
    <3>3. ~(shadow.has /\ SignGate(Crossed, direction))
      BY <2>1, <3>2 DEF SignGate, Crossed, ShadowInv
    <3>4. ShadowSilent'
      BY <3>1, <3>3 DEF ShadowInv, ShadowSilent
    <3>5. CASE Size(angle') = amplitude
      <4>1. angle' # 0 /\ amplitude' = amplitude /\ direction' = -direction
        BY <2>1, <2>2, <3>5 DEF Size
      <4> QED BY <2>1, <2>3, <3>1, <3>2, <3>4, <3>5, <4>1 DEF ShadowInv, Size
    <3>6. CASE Size(angle') # amplitude
      BY <2>1, <2>2, <3>1, <3>2, <3>4, <3>6 DEF ShadowInv, Size
    <3> QED BY <3>5, <3>6
  <2>5. CASE sample'.kind # "fresh" /\ MayMiss
    <3>1. shadow' = shadow /\ recorded' = recorded
      BY <1>2, <2>5 DEF ShadowTick, shadowVars
    <3>2. CASE angle' = 0
      BY <2>1, <2>2, <3>1, <3>2 DEF ShadowInv, ShadowSilent, Size
    <3>3. CASE angle' # 0 /\ Size(angle') = amplitude
      <4>1. angle' = amplitude * direction /\ amplitude' = amplitude /\ direction' = -direction
        BY <2>2, <2>3, <3>3
      <4>2. CASE amplitude = 1
        <5>1. Lead > 0
          BY <4>2 DEF BodyInv
        <5> QED BY <2>1, <3>1, <4>1, <4>2, <5>1 DEF ShadowInv, ShadowSilent, Size
      <4>3. CASE amplitude # 1
        <5>1. /\ Size(angle) \notin {0, amplitude}
              /\ direction = 1 => angle > 0
              /\ direction = -1 => angle < 0
          BY <2>1, <4>1, <4>3 DEF Size
        <5>2. /\ shadow.has /\ direction = 1 => shadow.angle > 0
              /\ shadow.has /\ direction = -1 => shadow.angle < 0
          BY <2>1, <5>1 DEF ShadowInv
        <5> QED BY <2>1, <3>1, <4>1, <4>3, <5>2 DEF ShadowInv, ShadowSilent, Size
      <4> QED BY <4>2, <4>3
    <3> QED BY <2>5, <3>2, <3>3 DEF MayMiss
  <2> QED BY <1>2, <2>4, <2>5, TickSample DEF ShadowTick
<1>3. CASE UNCHANGED <<bodyVars, shadowVars>>
  BY <1>3 DEF bodyVars, shadowVars, ShadowInv, ShadowSilent, Size
<1> QED BY <1>1, <1>2, <1>3 DEF ShadowNext, shadowRunVars, swingVars

(* The shadow detector records no crossing in this mode, whatever the swing and
   whichever samples of its turns and passages are missing (updateQ1ShadowAtZeroCross).
   Only a swing of one tick, seen without lead, could lose every sample between two
   crossings. *)
THEOREM ShadowCorrect ==
  ASSUME Lead > 0 \/ 1 \notin Amplitudes
  PROVE  ShadowSpec => []ShadowSilent
<1>1. ShadowInit => ShadowInv
  BY DEF ShadowInit, SwingInit, NothingSeen, ShadowInv, ShadowSilent, Size
<1>2. BodyInv /\ ShadowInv /\ [ShadowNext]_shadowRunVars => ShadowInv'
  BY NextShadow
<1>3. ShadowInv => ShadowSilent
  BY DEF ShadowInv
<1> QED BY <1>1, <1>2, <1>3, ShadowSwings, Body, PTL DEF ShadowSpec

-----------------------------------------------------------------------------
(* No extremum of a swing goes by.  The invariant follows the body through the half
   of the swing whose extremum is due, and says of each state of the controller how
   far the body then is. *)

(* The swings that the guards of the controller leave room for: a turn, a sample that
   is missing there and the samples that confirm the peak all come before the detector
   angle crosses; kick and pulse are over at the turn; and the two guards by time are
   shorter than what they guard. *)
SwingFits ==
  /\ Lead > 0 /\ ~SolverMayFail
  /\ \E a \in Amplitudes : \A b \in Amplitudes : b <= a
  /\ \A a \in Amplitudes :
       /\ Lead + ConfirmSamples + 1 <= a
       /\ KickWidth <= a
       /\ \A w \in Widths : w <= Lead + a
       /\ MinZeroToPeak <= Lead + a
       /\ MinHalfCycle <= 2 * a - 1

Longest == CHOOSE a \in Amplitudes : \A b \in Amplitudes : b <= a

(* The side of the extremum that is due. *)
Ahead == IF ~lastPeak.valid THEN 1
         ELSE IF half = "WAIT_ZERO_CROSS" THEN lastPeak.side ELSE -lastPeak.side

(* How far the body is through that half: 0 at the centre, the amplitude at the turn,
   and one more with each tick. *)
Progress == IF direction = Ahead THEN Ahead * angle ELSE 2 * amplitude - Ahead * angle

(* How far it was when the tracker last looked, and when that was. *)
Seen   == IF pc = "track" THEN Progress - 1 ELSE Progress
SeenAt == IF pc = "track" THEN now - 1 ELSE now

(* A half begins Lead before the centre, where the crossing is accepted, and is over
   there on the other side. *)
OnCourse ==
  /\ Ahead \in {-1, 1}
  /\ Seen >= -Lead
  /\ Progress <= 2 * amplitude - Lead
  /\ Progress = 2 * amplitude - Lead => pc = "track" \/ (pc = "cross" /\ half = "WAIT_ZERO_CROSS")

(* When the half began, and when the turn was. *)
EventTimes ==
  /\ lastCross.valid => lastCross.ms <= now - Lead - Progress
  /\ lastPeak.valid =>
       now - lastPeak.ms <= IF half = "WAIT_ZERO_CROSS" THEN Progress - amplitude
                                                        ELSE Longest + Progress

Sampled ==
  pc \in {"track", "cross"} =>
    \/ sample.kind = "none" /\ Progress \in {0, amplitude}
    \/ sample = [kind |-> "fresh", angle |-> angle,
                 rate |-> IF Progress <= amplitude THEN Ahead ELSE -Ahead,
                 detector |-> IF Progress < 2 * amplitude - Lead THEN Ahead ELSE 0]

(* What the sample before was, from the centre on. *)
Still == pc \in {"track", "cross"}

Remembered ==
  /\ 1 <= (IF Still THEN Progress - 1 ELSE Progress) =>
       previous.has /\ previous.detector = Ahead
  /\ amplitude < (IF Still THEN Progress - 1 ELSE Progress) =>
       previous.rate = -Ahead /\ previous.ms = IF Still THEN now - 1 ELSE now

PulseCourse ==
  /\ phase = "STRONG_START_KICK" =>
       /\ ~lastPeak.valid /\ ~lastCross.valid /\ ~pending.on
       /\ pulse.width = KickWidth /\ now - pulse.start = Progress
  /\ half = "PULSE_ACTIVE" =>
       /\ pending.on /\ pending.side = Ahead
       /\ pulse.width \in Widths /\ now - pulse.start = Progress + Lead
  /\ pulse.active => now - pulse.start <= pulse.width

(* The candidate is the latest sample on the way out, and at the turn, or one past it,
   the extremum; from there the returns are counted. *)
CandidateCourse ==
  /\ tracker.side = Ahead /\ Seen >= 1
  /\ Seen < amplitude => tracker.size = Seen /\ tracker.returns = 0 /\ tracker.ms = SeenAt
  /\ Seen >= amplitude => tracker.size \in {amplitude - 1, amplitude}
  /\ Seen = amplitude =>
       tracker.returns = 0 /\ tracker.ms = SeenAt - (amplitude - tracker.size)
  /\ Seen > amplitude => /\ tracker.returns = tracker.size - (2 * amplitude - Seen)
                         /\ tracker.ms = SeenAt - tracker.returns

WaitsForPeak ==
  half = "WAIT_PEAK" /\ phase # "STRONG_START_KICK" =>
    /\ pending.on => pending.side = Ahead
    /\ pending.on \/ Seen >= 1
    /\ tracker.started => CandidateCourse
    /\ ~tracker.started => Seen <= amplitude

WaitsForCross == half = "WAIT_ZERO_CROSS" => Seen > amplitude

Controlled == Running /\ phase \notin {"IDLE", "STOP"}

Course == /\ OnCourse /\ EventTimes /\ Sampled /\ Remembered
          /\ PulseCourse /\ WaitsForPeak /\ WaitsForCross

SwingInv == Controlled => Course

(* What else is known in every state. *)
Context == SwingFits /\ BodyInv /\ IInv /\ TimeInv

(* Numbers are numbers, and the amplitude one that fits. *)
LEMMA Fitting ==
  ASSUME Context
  PROVE  /\ amplitude \in Nat \ {0} /\ amplitude \in Amplitudes
         /\ angle \in Int /\ direction \in {-1, 1}
         /\ Lead \in Nat /\ Lead > 0 /\ ConfirmSamples \in Nat \ {0} /\ KickWidth \in Nat \ {0}
         /\ MinZeroToPeak \in Nat /\ MinHalfCycle \in Nat
         /\ Lead + ConfirmSamples + 1 <= amplitude /\ KickWidth <= amplitude
         /\ \A w \in Widths : w <= Lead + amplitude /\ w \in Nat
         /\ MinZeroToPeak <= Lead + amplitude /\ MinHalfCycle <= 2 * amplitude - 1
         /\ Longest \in Nat /\ \A a \in Amplitudes : a <= Longest
<1>1. amplitude \in Amplitudes /\ angle \in Int /\ direction \in {-1, 1}
      /\ Amplitudes \subseteq Nat \ {0} /\ Lead \in Nat
  BY SwingingControlAssumption DEF Context, BodyInv
<1>2. Longest \in Amplitudes /\ \A a \in Amplitudes : a <= Longest
  BY DEF Context, SwingFits, Longest
<1> QED BY <1>1, <1>2, EnergyControlAssumption DEF Context, SwingFits

LEMMA Numbers ==
  ASSUME Context
  PROVE  /\ now \in Int /\ lastPeak.ms \in Int /\ lastCross.ms \in Int /\ previous.ms \in Int
         /\ tracker.ms \in Int /\ tracker.size \in Int /\ tracker.returns \in Int
         /\ pulse.start \in Int /\ pulse.width \in Int
         /\ lastPeak.side \in Signs /\ pending.side \in Signs
         /\ tracker \in TrackerType /\ pending \in PendingType /\ pulse \in PulseType
         /\ lastPeak \in PeakType /\ lastCross \in CrossType /\ previous \in PreviousType
<1>1. TypeOK
  BY DEF Context, IInv, Typed
<1>2. /\ now \in Int /\ lastPeak.ms \in Int /\ lastCross.ms \in Int /\ previous.ms \in Int
      /\ tracker.ms \in Int /\ tracker.returns \in Int
      /\ pulse.start \in Int /\ lastPeak.side \in Signs /\ pending.side \in Signs
  BY <1>1, EnergyControlAssumption
     DEF TypeOK, Times, PeakType, CrossType, PreviousType, TrackerType, PulseType, PendingType
<1>3. tracker.size \in Int
  <2>1. Sizes \subseteq Int
    BY EnergyControlAssumption DEF Sizes, Size
  <2> QED BY <1>1, <2>1 DEF TypeOK, TrackerType
<1>4. pulse.width \in Int
  <2>1. pulse.width \in Widths \cup {0, KickWidth}
    BY <1>1 DEF TypeOK, PulseType
  <2>2. KickWidth \in Int /\ \A w \in Widths : w \in Int
    BY Fitting
  <2> QED BY <2>1, <2>2
<1> QED BY <1>1, <1>2, <1>3, <1>4 DEF TypeOK

(* Where the body is, as its progress says. *)
LEMMA Position ==
  ASSUME Context, OnCourse
  PROVE  /\ Progress \in Int
         /\ Progress >= 1 => /\ Sign(angle) = Ahead /\ angle # 0
                             /\ Size(angle) = IF Progress <= amplitude THEN Progress
                                                                       ELSE 2 * amplitude - Progress
         /\ direction = IF Progress < amplitude THEN Ahead ELSE -Ahead
         /\ Progress <= amplitude => angle = Ahead * Progress
         /\ Progress > amplitude => angle = Ahead * (2 * amplitude - Progress)
<1>f. /\ amplitude \in Nat \ {0} /\ angle \in Int /\ direction \in {-1, 1}
      /\ Lead \in Nat /\ Lead > 0 /\ ConfirmSamples \in Nat \ {0}
      /\ Lead + ConfirmSamples + 1 <= amplitude
  BY Fitting
<1>b. /\ angle <= amplitude /\ -amplitude <= angle
      /\ Size(angle) = amplitude => direction = -Sign(angle)
  BY <1>f DEF Context, BodyInv
<1>1. CASE Ahead = 1
  BY <1>f, <1>b, <1>1 DEF OnCourse, Progress, Sign, Size
<1>2. CASE Ahead = -1
  BY <1>f, <1>b, <1>2 DEF OnCourse, Progress, Sign, Size
<1> QED BY <1>1, <1>2 DEF OnCourse

LEMMA Roomy ==
  ASSUME NEW a \in Int, NEW l \in Int, a >= l + 2, l > 0
  PROVE  0 < 2 * a - l
OBVIOUS

(* A tick brings the body one further, and shows it, but for the turn and the centre. *)
LEMMA TickCourse ==
  ASSUME Context, OnCourse, pc = "sense", Tick
  PROVE  /\ Ahead' = Ahead /\ Progress' = Progress + 1
         /\ amplitude' = amplitude \/ (Progress' = 0 /\ Progress = -1)
         /\ Sampled'
<1>f. /\ amplitude \in Nat \ {0} /\ angle \in Int /\ direction \in {-1, 1}
      /\ Lead \in Nat /\ Lead > 0 /\ ConfirmSamples \in Nat \ {0}
      /\ Lead + ConfirmSamples + 1 <= amplitude
  BY Fitting
<1>b. /\ angle <= amplitude /\ -amplitude <= angle
      /\ Size(angle) = amplitude => direction = -Sign(angle)
  BY <1>f DEF Context, BodyInv
<1>s. /\ angle' = angle + direction
      /\ direction' = IF Size(angle') = amplitude THEN -direction ELSE direction
      /\ angle' # 0 => amplitude' = amplitude
      /\ angle' = 0 => amplitude' \in Nat \ {0}
  BY SwingingControlAssumption DEF Tick, Swing
<1>h. UNCHANGED <<half, lastPeak>> /\ Ahead \in {-1, 1}
  BY DEF Tick, Sense, eventVars, OnCourse
<1>1. Ahead' = Ahead
  BY <1>h DEF Ahead
<1>2. Progress <= 2 * amplitude - Lead - 1 /\ Progress >= -Lead
  BY <1>f, <1>h DEF OnCourse, Progress, Seen
<1>3. Progress' = Progress + 1 /\ (amplitude' = amplitude \/ (Progress' = 0 /\ Progress = -1))
  <2>1. Progress' = IF direction' = Ahead THEN Ahead * angle' ELSE 2 * amplitude' - Ahead * angle'
    BY <1>1 DEF Progress
  <2>2. CASE Ahead = 1
    BY <1>f, <1>b, <1>s, <1>2, <2>1, <2>2 DEF Progress, Size, Sign
  <2>3. CASE Ahead = -1
    BY <1>f, <1>b, <1>s, <1>2, <2>1, <2>3 DEF Progress, Size, Sign
  <2> QED BY <1>h, <2>2, <2>3
<1>a. amplitude' \in Nat \ {0} /\ Lead + ConfirmSamples + 1 <= amplitude'
  <2>1. amplitude' \in Amplitudes
    BY DEF Tick, Swing, Context, BodyInv
  <2> QED BY <2>1, SwingingControlAssumption DEF Context, SwingFits
<1>4. pc' = "track" /\ (sample' = Reading \/ (MayMiss /\ sample' = NoSample))
  BY DEF Tick, Sense
<1>n. /\ Progress \in Int /\ Progress' \in Int
      /\ direction = IF Progress < amplitude THEN Ahead ELSE -Ahead
      /\ Progress <= amplitude => angle = Ahead * Progress
      /\ Progress > amplitude => angle = Ahead * (2 * amplitude - Progress)
  BY <1>3, Position
<1>5. ASSUME sample' = NoSample, MayMiss PROVE Sampled'
  <2>1. Progress' \in {0, amplitude'}
    <3>1. CASE angle' = 0
      BY <1>f, <1>h, <1>2, <1>3, <1>n, <1>s, <3>1
    <3>2. CASE Size(angle') = amplitude
      BY <1>f, <1>h, <1>2, <1>3, <1>n, <1>s, <3>2 DEF Size
    <3> QED BY <1>5, <3>1, <3>2 DEF MayMiss
  <2>2. sample'.kind = "none"
    BY <1>5 DEF NoSample
  <2> QED BY <2>1, <2>2 DEF Sampled
<1>6. ASSUME sample' = Reading PROVE Sampled'
  <2> DEFINE rate == IF Progress' <= amplitude' THEN Ahead' ELSE -Ahead'
             detector == IF Progress' < 2 * amplitude' - Lead THEN Ahead' ELSE 0
  <2>1. direction = rate
    BY <1>f, <1>a, <1>h, <1>1, <1>2, <1>3, <1>n
  <2>2. (IF Size(angle') = amplitude THEN Sign(angle') ELSE Sign(angle' + Lead * direction)) = detector
    <3>1. /\ Progress < amplitude => direction = Ahead /\ angle' = Ahead * (Progress + 1)
          /\ Progress >= amplitude =>
               direction = -Ahead /\ angle' = Ahead * (2 * amplitude - Progress - 1)
      BY <1>f, <1>h, <1>n, <1>s
    <3>2. /\ Progress < amplitude => detector = Ahead
          /\ Progress >= amplitude =>
               detector = IF Progress + 1 < 2 * amplitude - Lead THEN Ahead ELSE 0
      <4>1. detector = IF Progress + 1 < 2 * amplitude' - Lead THEN Ahead ELSE 0
        BY <1>1, <1>3
      <4>2. Progress >= amplitude => amplitude' = amplitude
        BY <1>f, <1>3, <1>n
      <4>3. Progress < amplitude => Progress + 1 < 2 * amplitude' - Lead
        <5>1. CASE amplitude' = amplitude
          BY <1>f, <1>n, <5>1
        <5>2. CASE Progress = -1
          <6>1. amplitude' \in Int /\ amplitude' >= Lead + 2 /\ Lead \in Int /\ Lead > 0
            BY <1>f, <1>a
          <6>2. 0 < 2 * amplitude' - Lead
            BY <6>1, Roomy
          <6>3. Progress + 1 = 0
            BY <1>n, <5>2
          <6> QED BY <6>2, <6>3
        <5> QED BY <1>3, <5>1, <5>2
      <4> HIDE DEF detector
      <4> QED BY <4>1, <4>2, <4>3
    <3> HIDE DEF detector
    <3>3. CASE Ahead = 1
      <4>1. CASE Progress < amplitude
        BY <1>f, <1>2, <1>n, <3>1, <3>2, <3>3, <4>1 DEF Size, Sign
      <4>2. CASE Progress >= amplitude
        BY <1>f, <1>2, <1>n, <3>1, <3>2, <3>3, <4>2 DEF Size, Sign
      <4> QED BY <1>f, <1>n, <4>1, <4>2
    <3>4. CASE Ahead = -1
      <4>1. CASE Progress < amplitude
        BY <1>f, <1>2, <1>n, <3>1, <3>2, <3>4, <4>1 DEF Size, Sign
      <4>2. CASE Progress >= amplitude
        BY <1>f, <1>2, <1>n, <3>1, <3>2, <3>4, <4>2 DEF Size, Sign
      <4> QED BY <1>f, <1>n, <4>1, <4>2
    <3> QED BY <1>h, <3>3, <3>4
  <2>3. sample' = [kind |-> "fresh", angle |-> angle', rate |-> rate, detector |-> detector]
    <3> HIDE DEF rate, detector
    <3> QED BY <1>6, <2>1, <2>2 DEF Reading
  <2> QED BY <2>3 DEF Sampled
<1> QED BY <1>1, <1>3, <1>4, <1>5, <1>6

LEMMA TickKeeps ==
  ASSUME Context, Controlled, Course, Tick
  PROVE  Course'
<1>f. /\ amplitude \in Nat \ {0} /\ Lead \in Nat /\ Lead > 0
      /\ Lead + ConfirmSamples + 1 <= amplitude /\ ConfirmSamples \in Nat
  BY Fitting
<1>n. /\ now \in Int /\ lastPeak.ms \in Int /\ lastCross.ms \in Int
      /\ pulse.start \in Int /\ pulse.width \in Int /\ pulse \in PulseType
  BY Numbers
<1>c. /\ OnCourse /\ EventTimes /\ Remembered /\ PulseCourse /\ WaitsForPeak /\ WaitsForCross
      /\ Progress \in Int /\ Ahead \in {-1, 1}
  BY Position DEF Course, OnCourse
<1>s. /\ pc = "sense" /\ pc' = "track" /\ now' = now + 1
      /\ UNCHANGED <<state, phase, half, tracker, lastPeak, consumed, lastCross, pending, previous>>
      /\ pulse'.start = pulse.start /\ pulse'.width = pulse.width
      /\ pulse'.active => pulse.active
  BY <1>n DEF Tick, Sense, At, eventVars, motorVars, StopMotor, PulseType
<1>t. /\ Ahead' = Ahead /\ Progress' = Progress + 1
      /\ amplitude' = amplitude \/ (Progress' = 0 /\ Progress = -1)
      /\ Sampled'
  BY <1>c, <1>s, TickCourse
<1>a. /\ amplitude' \in Nat \ {0} /\ amplitude' \in Int /\ amplitude' >= Lead + 2
      /\ Lead \in Int /\ Lead > 0
  <2>1. amplitude' \in Amplitudes
    BY DEF Tick, Swing, Context, BodyInv
  <2>2. Lead + ConfirmSamples + 1 <= amplitude' /\ ConfirmSamples \in Nat \ {0}
    BY <2>1, Fitting DEF Context, SwingFits
  <2> QED BY <1>f, <2>1, <2>2, SwingingControlAssumption
<1>e. Seen = Progress /\ SeenAt = now /\ Seen' = Progress /\ SeenAt' = now
  BY <1>c, <1>n, <1>s, <1>t DEF Seen, SeenAt
<1>p. -Lead <= Progress /\ Progress < 2 * amplitude - Lead
  BY <1>c, <1>e, <1>s, <1>f DEF OnCourse
<1>1. OnCourse'
  <2>1. Progress' <= 2 * amplitude' - Lead
    <3>1. CASE amplitude' = amplitude
      BY <1>c, <1>f, <1>p, <1>t, <3>1
    <3>2. CASE Progress' = 0
      <4>1. 0 < 2 * amplitude' - Lead
        BY <1>a, Roomy
      <4>2. 2 * amplitude' - Lead \in Int
        BY <1>a
      <4> QED BY <3>2, <4>1, <4>2
    <3> QED BY <1>t, <3>1, <3>2
  <2> QED BY <1>c, <1>e, <1>p, <1>s, <1>t, <2>1 DEF OnCourse
<1>2. EventTimes'
  <2>1. half = "WAIT_ZERO_CROSS" => amplitude' = amplitude
    BY <1>c, <1>e, <1>f, <1>t DEF WaitsForCross
  <2>2. lastCross.valid => lastCross.ms <= now + 1 - Lead - (Progress + 1)
    BY <1>c, <1>f, <1>n DEF EventTimes
  <2>3. lastPeak.valid =>
          now + 1 - lastPeak.ms <= IF half = "WAIT_ZERO_CROSS" THEN Progress + 1 - amplitude
                                                              ELSE Longest + (Progress + 1)
    <3>1. Longest \in Int
      BY Fitting
    <3> QED BY <1>c, <1>f, <1>n, <3>1 DEF EventTimes
  <2>4. /\ now' = now + 1 /\ Progress' = Progress + 1
        /\ half' = half /\ lastCross' = lastCross /\ lastPeak' = lastPeak
        /\ now \in Int /\ Progress \in Int /\ lastCross.ms \in Int /\ lastPeak.ms \in Int
        /\ Lead \in Int /\ Longest \in Int /\ amplitude \in Int
    BY <1>a, <1>c, <1>f, <1>n, <1>s, <1>t, Fitting
  <2>5. (lastCross.valid => lastCross.ms <= now - Lead - Progress)'
    BY <2>2, <2>4
  <2>6. CASE half = "WAIT_ZERO_CROSS"
    <3>1. lastPeak'.valid => now' - lastPeak'.ms <= Progress' - amplitude'
      BY <2>1, <2>3, <2>4, <2>6
    <3> QED BY <2>4, <2>5, <2>6, <3>1 DEF EventTimes
  <2>7. CASE half # "WAIT_ZERO_CROSS"
    <3>1. lastPeak'.valid => now' - lastPeak'.ms <= Longest + Progress'
      BY <2>3, <2>4, <2>7
    <3> QED BY <2>4, <2>5, <2>7, <3>1 DEF EventTimes
  <2> QED BY <2>6, <2>7
<1>3. Remembered'
  <2>1. Progress' - 1 = Progress /\ now' - 1 = now
    BY <1>c, <1>n, <1>s, <1>t
  <2>2. amplitude' < Progress => amplitude < Progress
    BY <1>a, <1>c, <1>f, <1>t
  <2> QED BY <1>c, <1>s, <1>t, <2>1, <2>2 DEF Remembered, Still
<1>4. PulseCourse'
  <2>1. pulse.active => now < pulse.start + pulse.width
    BY <1>s DEF Context, TimeInv, PulseInTime
  <2> QED BY <1>c, <1>f, <1>n, <1>s, <1>t, <2>1 DEF PulseCourse
<1>5. WaitsForPeak'
  <2>1. Seen >= 1 => amplitude' = amplitude
    BY <1>c, <1>e, <1>f, <1>t
  <2>2. Seen <= amplitude => Seen <= amplitude'
    BY <1>a, <1>c, <1>e, <1>f, <1>t
  <2> QED BY <1>c, <1>e, <1>s, <1>t, <2>1, <2>2 DEF WaitsForPeak, CandidateCourse
<1>6. WaitsForCross'
  <2>1. half = "WAIT_ZERO_CROSS" => amplitude' = amplitude
    BY <1>c, <1>e, <1>f, <1>t DEF WaitsForCross
  <2> QED BY <1>c, <1>e, <1>s, <2>1 DEF WaitsForCross
<1> QED BY <1>1, <1>2, <1>3, <1>4, <1>5, <1>6, <1>t DEF Course

(* The body moves with the ticks alone. *)
LEMMA Frame ==
  ASSUME UNCHANGED bodyVars, half' = half, lastPeak' = lastPeak
  PROVE  Ahead' = Ahead /\ Progress' = Progress
BY DEF bodyVars, Ahead, Progress

(* A step that changes none of what the course is about keeps it. *)
LEMMA SameKeeps ==
  ASSUME Course, UNCHANGED bodyVars,
         UNCHANGED <<now, phase, half, motorVars, tracker, eventVars, previous>>,
         \/ pc' = pc /\ sample' = sample
         \/ pc \in {"pulse", "end", "sense"} /\ pc' \in {"pulse", "end", "sense"}
  PROVE  Course'
<1>1. /\ Ahead' = Ahead /\ Progress' = Progress
      /\ amplitude' = amplitude /\ angle' = angle
  BY Frame DEF eventVars, bodyVars
<1>2. /\ Seen' = Seen /\ SeenAt' = SeenAt /\ Still' = Still
      /\ now' = now /\ phase' = phase /\ half' = half /\ pulse' = pulse /\ tracker' = tracker
      /\ lastPeak' = lastPeak /\ lastCross' = lastCross /\ pending' = pending
      /\ previous' = previous
  BY <1>1 DEF Seen, SeenAt, Still, eventVars, motorVars
<1>3. OnCourse' /\ EventTimes' /\ Sampled' /\ Remembered'
  BY <1>1, <1>2 DEF Course, OnCourse, EventTimes, Sampled, Remembered, Still
<1>4. PulseCourse' /\ WaitsForPeak' /\ WaitsForCross'
  BY <1>1, <1>2 DEF Course, PulseCourse, WaitsForPeak, CandidateCourse, WaitsForCross
<1> QED BY <1>3, <1>4 DEF Course

(* What holds once the tracker has had its sample. *)
LEMMA MotionKeeps ==
  ASSUME Context, Controlled, Course, UNCHANGED bodyVars, Motion \/ MotionSkips,
         Ahead' = Ahead, Progress' = Progress
  PROVE  Sampled' /\ Remembered'
<1>f. /\ amplitude \in Nat \ {0} /\ Lead \in Nat /\ Lead + ConfirmSamples + 1 <= amplitude
      /\ ConfirmSamples \in Nat \ {0}
  BY Fitting
<1>c. /\ OnCourse /\ Sampled /\ Remembered /\ Progress \in Int /\ Ahead \in {-1, 1}
      /\ amplitude' = amplitude /\ angle' = angle
  BY Position DEF Course, OnCourse, bodyVars
<1>s. pc = "track" /\ now' = now
  BY DEF Motion, MotionSkips, At
<1>1. CASE MotionSkips
  <2>1. sample.kind = "none" /\ pc' = "pulse" /\ previous' = previous
    BY <1>1 DEF MotionSkips, MotionDone, Controlled
  <2>2. Progress \in {0, amplitude}
    BY <1>c, <1>s, <2>1 DEF Sampled
  <2>3. Sampled'
    BY <2>1 DEF Sampled
  <2>4. 1 <= Progress => previous.has /\ previous.detector = Ahead
    BY <1>c, <1>f, <1>s, <2>2 DEF Remembered, Still
  <2>5. ~(amplitude < Progress)
    BY <1>f, <2>2
  <2> QED BY <1>c, <2>1, <2>3, <2>4, <2>5 DEF Remembered, Still
<1>2. CASE Motion /\ previous.has
  <2>1. pc' = "cross" /\ sample' = sample /\ previous' = previous
    BY <1>2 DEF Motion
  <2> QED BY <1>c, <1>s, <2>1 DEF Sampled, Remembered, Still
<1>3. CASE Motion /\ ~previous.has
  <2>1. /\ sample.kind = "fresh" /\ pc' = "pulse"
        /\ previous' = [has |-> TRUE, detector |-> sample.detector, rate |-> sample.rate, ms |-> now]
    BY <1>3 DEF Motion, MotionDone, PreviousIsThis
  <2>2. ~(1 <= Progress - 1)
    BY <1>c, <1>s, <1>3 DEF Remembered, Still
  <2>3. sample.detector = Ahead /\ ~(amplitude < Progress)
    BY <1>c, <1>f, <1>s, <2>1, <2>2 DEF Sampled
  <2>4. previous'.has /\ previous'.detector = Ahead
    BY <2>1, <2>3
  <2> QED BY <1>c, <2>1, <2>3, <2>4 DEF Sampled, Remembered, Still
<1> QED BY <1>1, <1>2, <1>3

(* A step that keeps half, events and pulse, and brings the tracker in line. *)
LEMMA LookKeeps ==
  ASSUME Context, Controlled, Course, UNCHANGED bodyVars, Motion \/ MotionSkips,
         UNCHANGED <<phase, half, eventVars, owed>>,
         half = "WAIT_ZERO_CROSS" \/ Progress < 2 * amplitude - Lead,
         WaitsForPeak'
  PROVE  Course'
<1>f. /\ amplitude \in Nat \ {0} /\ Lead \in Nat /\ Lead + ConfirmSamples + 1 <= amplitude
      /\ ConfirmSamples \in Nat \ {0}
  BY Fitting
<1>c. /\ OnCourse /\ EventTimes /\ Remembered /\ PulseCourse /\ WaitsForCross
      /\ Progress \in Int /\ Ahead \in {-1, 1} /\ amplitude' = amplitude
  BY Position DEF Course, OnCourse, bodyVars
<1>s. /\ pc = "track" /\ now' = now /\ pulse' = pulse /\ phase' = phase /\ half' = half
      /\ lastPeak' = lastPeak /\ lastCross' = lastCross /\ pending' = pending
      /\ pc' \in {"cross", "pulse"}
  BY DEF Motion, MotionSkips, MotionDone, At, motorVars, eventVars
<1>1. Ahead' = Ahead /\ Progress' = Progress
  BY <1>s, Frame
<1>2. Sampled' /\ Remembered'
  BY <1>1, MotionKeeps
<1>3. Seen' = Progress /\ Seen = Progress - 1
  BY <1>1, <1>s DEF Seen
<1>4. OnCourse'
  <2>1. half = "WAIT_ZERO_CROSS" => pc' = "cross"
    <3> SUFFICES ASSUME half = "WAIT_ZERO_CROSS" PROVE pc' = "cross"
      OBVIOUS
    <3>1. 1 <= Progress - 1 /\ Progress > amplitude + 1
      BY <1>c, <1>f, <1>3 DEF WaitsForCross
    <3>2. previous.has
      BY <1>c, <1>s, <3>1 DEF Remembered, Still
    <3>3. ~MotionSkips
      <4> SUFFICES ASSUME MotionSkips PROVE FALSE
        OBVIOUS
      <4>1. sample.kind = "none"
        BY DEF MotionSkips, Controlled
      <4>2. Progress \in {0, amplitude}
        BY <1>s, <4>1 DEF Course, Sampled
      <4> QED BY <1>f, <3>1, <4>2
    <3> QED BY <3>2, <3>3 DEF Motion
  <2>2. Seen' >= -Lead
    BY <1>c, <1>f, <1>3 DEF OnCourse
  <2>3. Progress = 2 * amplitude - Lead => half = "WAIT_ZERO_CROSS"
    <3>1. 2 * amplitude - Lead \in Int
      BY <1>f
    <3> QED BY <1>c, <3>1
  <2> QED BY <1>1, <1>c, <1>s, <2>1, <2>2, <2>3 DEF OnCourse
<1>5. EventTimes' /\ PulseCourse'
  BY <1>1, <1>c, <1>s DEF EventTimes, PulseCourse
<1>6. WaitsForCross'
  BY <1>3, <1>c, <1>f, <1>s DEF WaitsForCross
<1> QED BY <1>2, <1>4, <1>5, <1>6 DEF Course

(* A sample that is tracked is on the side ahead, and where the progress says. *)
LEMMA Tracked ==
  ASSUME Context, Controlled, Course, Motion, Tracking
  PROVE  /\ Progress \in Int /\ Progress >= 1 /\ Ahead \in {-1, 1}
         /\ Seen = Progress - 1 /\ SeenAt = now - 1
         /\ Sign(sample.angle) = Ahead
         /\ Size(sample.angle) = IF Progress <= amplitude THEN Progress ELSE 2 * amplitude - Progress
         /\ sample.rate = IF Progress <= amplitude THEN Ahead ELSE -Ahead
         /\ half = "WAIT_PEAK" /\ phase # "STRONG_START_KICK"
         /\ tracker.started => CandidateCourse
         /\ ~tracker.started => Seen <= amplitude
<1>f. amplitude \in Nat \ {0} /\ Lead \in Nat /\ angle \in Int
  BY Fitting
<1>n. now \in Int
  BY Numbers
<1>c. /\ OnCourse /\ Sampled /\ WaitsForPeak /\ Progress \in Int /\ Ahead \in {-1, 1}
  BY Position DEF Course, OnCourse
<1>s. /\ pc = "track" /\ sample.kind = "fresh"
      /\ half = "WAIT_PEAK" /\ phase # "STRONG_START_KICK" /\ sample.angle # 0 /\ ~WrongSide
  BY DEF Motion, Tracking, At
<1>1. Seen = Progress - 1 /\ SeenAt = now - 1
  BY <1>s DEF Seen, SeenAt
<1>2. sample = [kind |-> "fresh", angle |-> angle,
                rate |-> IF Progress <= amplitude THEN Ahead ELSE -Ahead,
                detector |-> IF Progress < 2 * amplitude - Lead THEN Ahead ELSE 0]
  BY <1>c, <1>s DEF Sampled
<1>3. sample.angle = angle /\ sample.rate = IF Progress <= amplitude THEN Ahead ELSE -Ahead
  BY <1>2
<1>4. Progress >= 1
  <2> SUFFICES ASSUME Progress <= 0 PROVE FALSE
    BY <1>c
  <2>1. pending.on /\ pending.side = Ahead
    BY <1>1, <1>c, <1>s DEF WaitsForPeak
  <2>2. angle = Ahead * Progress
    BY <1>c, <1>f, Position
  <2>3. Sign(angle) # Ahead
    <3>1. CASE Ahead = 1
      BY <1>c, <2>2, <3>1 DEF Sign
    <3>2. CASE Ahead = -1
      BY <1>c, <2>2, <3>2 DEF Sign
    <3> QED BY <1>c, <3>1, <3>2
  <2> QED BY <1>3, <1>s, <2>1, <2>3 DEF WrongSide
<1>5. /\ Sign(angle) = Ahead
      /\ Size(angle) = IF Progress <= amplitude THEN Progress ELSE 2 * amplitude - Progress
  BY <1>4, <1>c, Position
<1> QED BY <1>1, <1>3, <1>4, <1>5, <1>c, <1>s DEF WaitsForPeak

(* Outward up to the turn, and once after it where its sample was missing. *)
LEMMA OutwardUpTo ==
  ASSUME Context, Controlled, Course, Motion, Tracking, tracker.started
  PROVE  /\ Outward => Progress <= amplitude + 1
         /\ ~Outward => Progress > amplitude /\ Returning
<1>f. amplitude \in Nat \ {0} /\ amplitude \in Int
  BY Fitting
<1>n. tracker.size \in Int /\ tracker.returns \in Int /\ tracker.returns >= 0
  <2>1. tracker \in TrackerType /\ tracker.size \in Int /\ tracker.returns \in Int
    BY Numbers
  <2>2. tracker.returns \in 0 .. ConfirmSamples - 1
    BY <2>1 DEF TrackerType
  <2> QED BY <2>1, <2>2
<1>t. /\ Progress \in Int /\ Progress >= 1 /\ Ahead \in {-1, 1}
      /\ Seen = Progress - 1
      /\ Sign(sample.angle) = Ahead
      /\ Size(sample.angle) = IF Progress <= amplitude THEN Progress ELSE 2 * amplitude - Progress
      /\ sample.rate = IF Progress <= amplitude THEN Ahead ELSE -Ahead
      /\ CandidateCourse
  BY Tracked
<1>1. CASE Progress <= amplitude
  <2>1. tracker.size = Progress - 1 /\ tracker.side = Ahead
    BY <1>1, <1>f, <1>t DEF CandidateCourse
  <2> QED BY <1>1, <1>f, <1>t, <2>1 DEF Outward
<1>2. CASE Progress > amplitude
  <2>1. /\ tracker.side = Ahead /\ sample.rate = -Ahead
        /\ Size(sample.angle) = 2 * amplitude - Progress
    BY <1>2, <1>f, <1>t DEF CandidateCourse
  <2>2. Progress > amplitude + 1 => tracker.size >= 2 * amplitude - Progress + 1
    BY <1>f, <1>n, <1>t DEF CandidateCourse
  <2>3. Outward => Progress <= amplitude + 1
    <3> SUFFICES ASSUME Progress > amplitude + 1 PROVE ~Outward
      BY <1>f, <1>t
    <3> QED BY <1>f, <1>n, <1>t, <2>1, <2>2 DEF Outward
  <2>4. ~Outward => Returning
    BY <1>f, <1>n, <1>t, <2>1 DEF Outward, Returning
  <2> QED BY <1>2, <2>3, <2>4
<1> QED BY <1>1, <1>2, <1>f, <1>t

LEMMA NothingKeeps ==
  ASSUME Context, Controlled, Course, UNCHANGED bodyVars, TrackNothing \/ MotionSkips
  PROVE  Course'
<1>f. /\ amplitude \in Nat \ {0} /\ Lead \in Nat /\ Lead > 0 /\ Lead + ConfirmSamples + 1 <= amplitude
      /\ ConfirmSamples \in Nat \ {0} /\ KickWidth \in Nat /\ KickWidth <= amplitude
      /\ \A w \in Widths : w <= Lead + amplitude /\ w \in Nat
  BY Fitting
<1>n. now \in Int /\ pulse.start \in Int /\ pulse.width \in Int /\ tracker \in TrackerType
  BY Numbers
<1>c. /\ OnCourse /\ PulseCourse /\ WaitsForPeak /\ Sampled
      /\ Progress \in Int /\ Ahead \in {-1, 1} /\ amplitude' = amplitude
  BY Position DEF Course, OnCourse, bodyVars
<1>s. /\ pc = "track" /\ now' = now /\ UNCHANGED <<phase, half, eventVars, owed>>
      /\ phase' = phase /\ half' = half /\ tracker' = tracker /\ lastPeak' = lastPeak
      /\ pending' = pending /\ pc' \in {"cross", "pulse"} /\ (Motion \/ MotionSkips)
  BY DEF TrackNothing, Motion, MotionSkips, MotionDone, At, eventVars
<1>i. /\ phase = "STRONG_START_KICK" => pulse.active /\ half = "WAIT_PEAK"
      /\ half = "PULSE_ACTIVE" => pulse.active
      /\ half = "WAIT_PEAK" /\ phase # "STRONG_START_KICK" => tracker.enabled /\ ~pulse.active
      /\ half \in HalfStates
  <2>1. TypeOK /\ MotorOnlyInPulse /\ KickFirst /\ NeverStuck /\ Running /\ phase # "STOP"
    BY DEF Context, IInv, Typed, Controlled
  <2> QED BY <2>1 DEF TypeOK, MotorOnlyInPulse, KickFirst, NeverStuck
<1>1. Ahead' = Ahead /\ Progress' = Progress
  BY <1>s, Frame
<1>2. /\ Seen' = Progress /\ SeenAt' = now
      /\ Seen = Progress - 1 /\ SeenAt = now - 1
  BY <1>1, <1>s DEF Seen, SeenAt
<1>3. ASSUME half = "WAIT_PEAK", phase # "STRONG_START_KICK" PROVE
        /\ Progress <= amplitude
        /\ (pending.on /\ ~tracker.started) \/ (MotionSkips /\ Progress = amplitude)
           \/ (MotionSkips /\ ~tracker.started)
  <2>1. CASE TrackNothing
    <3>1. Motion /\ ~Tracking
      BY <2>1 DEF TrackNothing
    <3>2. sample.angle = 0 \/ WrongSide
      BY <1>3, <1>i, <3>1 DEF Tracking, Controlled
    <3>3. sample.angle = angle
      BY <1>c, <1>s, <3>1 DEF Sampled, Motion
    <3>4. Progress <= 0
      <4> SUFFICES ASSUME Progress >= 1 PROVE FALSE
        BY <1>c
      <4>1. angle # 0 /\ Sign(angle) = Ahead
        BY <1>c, Position
      <4>2. pending.on => pending.side = Ahead
        BY <1>3, <1>c DEF WaitsForPeak
      <4> QED BY <3>2, <3>3, <4>1, <4>2 DEF WrongSide
    <3>5. pending.on /\ ~tracker.started
      BY <1>2, <1>3, <1>c, <3>4 DEF WaitsForPeak, CandidateCourse
    <3> QED BY <1>c, <1>f, <3>4, <3>5
  <2>2. CASE MotionSkips
    <3>1. Progress \in {0, amplitude}
      BY <1>c, <1>s, <2>2 DEF Sampled, MotionSkips, Controlled
    <3>2. Progress = 0 => ~tracker.started
      BY <1>2, <1>3, <1>c DEF WaitsForPeak, CandidateCourse
    <3> QED BY <1>f, <2>2, <3>1, <3>2
  <2> QED BY <2>1, <2>2
<1>4. half = "WAIT_ZERO_CROSS" \/ Progress <= amplitude
  <2>1. phase = "STRONG_START_KICK" => Progress <= amplitude
    <3> SUFFICES ASSUME phase = "STRONG_START_KICK" PROVE Progress <= amplitude
      OBVIOUS
    <3>1. now - pulse.start = Progress /\ now - pulse.start <= KickWidth
      BY <1>c, <1>i DEF PulseCourse
    <3> QED BY <1>c, <1>f, <3>1
  <2>2. half = "PULSE_ACTIVE" => Progress <= amplitude
    <3> SUFFICES ASSUME half = "PULSE_ACTIVE" PROVE Progress <= amplitude
      OBVIOUS
    <3>1. now - pulse.start = Progress + Lead /\ now - pulse.start <= pulse.width
          /\ pulse.width <= Lead + amplitude
      BY <1>c, <1>f, <1>i DEF PulseCourse
    <3> QED BY <1>c, <1>f, <1>n, <3>1
  <2> QED BY <1>3, <1>i, <2>1, <2>2 DEF HalfStates
<1>5. Progress <= amplitude => Progress < 2 * amplitude - Lead
  BY <1>c, <1>f
<1>6. WaitsForPeak'
  <2> SUFFICES ASSUME half = "WAIT_PEAK", phase # "STRONG_START_KICK"
               PROVE  /\ pending.on => pending.side = Ahead
                      /\ pending.on \/ Progress >= 1
                      /\ tracker.started => CandidateCourse'
                      /\ ~tracker.started => Progress <= amplitude
    BY <1>1, <1>2, <1>c, <1>s DEF WaitsForPeak
  <2>1. (pending.on => pending.side = Ahead) /\ (pending.on \/ Progress >= 1)
    BY <1>2, <1>c DEF WaitsForPeak
  <2>2. tracker.started => CandidateCourse'
    <3> SUFFICES ASSUME tracker.started PROVE CandidateCourse'
      OBVIOUS
    <3>1. Progress = amplitude /\ CandidateCourse
      BY <1>3, <1>c DEF WaitsForPeak
    <3>2. /\ tracker.side = Ahead /\ tracker.size = amplitude - 1 /\ tracker.returns = 0
          /\ tracker.ms = now - 1
      BY <1>2, <1>f, <3>1 DEF CandidateCourse
    <3>3. Seen' = amplitude /\ SeenAt' = now
      BY <1>2, <3>1
    <3>4. now - (amplitude - (amplitude - 1)) = now - 1
      BY <1>f, <1>n
    <3> QED BY <1>1, <1>c, <1>f, <1>s, <3>2, <3>3, <3>4 DEF CandidateCourse
  <2>3. ~tracker.started => Progress <= amplitude
    BY <1>3
  <2> QED BY <2>1, <2>2, <2>3
<1> QED BY <1>4, <1>5, <1>6, <1>s, LookKeeps

LEMMA CandidateKeeps ==
  ASSUME Context, Controlled, Course, UNCHANGED bodyVars,
         TrackCandidate \/ TrackInterrupted \/ TrackReturn
  PROVE  Course'
<1>f. /\ amplitude \in Nat \ {0} /\ Lead \in Nat /\ Lead > 0 /\ Lead + ConfirmSamples + 1 <= amplitude
      /\ ConfirmSamples \in Nat \ {0}
  BY Fitting
<1>n. /\ now \in Int /\ tracker.size \in Int /\ tracker.returns \in Int /\ tracker.ms \in Int
      /\ tracker \in TrackerType
  BY Numbers
<1>s. /\ Motion /\ Tracking /\ pc = "track" /\ now' = now /\ UNCHANGED <<phase, half, eventVars, owed>>
      /\ half' = half /\ lastPeak' = lastPeak /\ pending' = pending /\ phase' = phase
      /\ amplitude' = amplitude /\ pc' \in {"cross", "pulse"}
  BY DEF TrackCandidate, TrackInterrupted, TrackReturn, Motion, MotionDone, At, eventVars, bodyVars
<1>t. /\ Progress \in Int /\ Progress >= 1 /\ Ahead \in {-1, 1}
      /\ Seen = Progress - 1 /\ SeenAt = now - 1
      /\ Sign(sample.angle) = Ahead
      /\ Size(sample.angle) = IF Progress <= amplitude THEN Progress ELSE 2 * amplitude - Progress
      /\ half = "WAIT_PEAK" /\ phase # "STRONG_START_KICK"
      /\ tracker.started => CandidateCourse
      /\ ~tracker.started => Seen <= amplitude
  BY <1>s, Tracked
<1>1. Ahead' = Ahead /\ Progress' = Progress
  BY <1>s, Frame
<1>2. Seen' = Progress /\ SeenAt' = now
  BY <1>1, <1>s DEF Seen, SeenAt
<1>3. ASSUME Progress < 2 * amplitude - Lead, tracker'.started, CandidateCourse'
      PROVE  Course'
  <2>1. pending.on => pending.side = Ahead
    BY <1>t DEF Course, WaitsForPeak
  <2>2. WaitsForPeak'
    BY <1>1, <1>2, <1>3, <1>s, <1>t, <2>1 DEF WaitsForPeak
  <2> QED BY <1>3, <1>s, <2>2, LookKeeps
<1>4. CASE TrackCandidate
  <2>1. tracker' = [tracker EXCEPT !.started = TRUE, !.side = Sign(sample.angle),
                                   !.size = Size(sample.angle), !.ms = now, !.returns = 0]
    BY <1>4 DEF TrackCandidate
  <2>2. /\ tracker'.started /\ tracker'.side = Ahead /\ tracker'.size = Size(sample.angle)
        /\ tracker'.ms = now /\ tracker'.returns = 0
    BY <1>n, <1>t, <2>1 DEF TrackerType
  <2>3. Progress <= amplitude + 1
    <3>1. ~tracker.started \/ Outward
      BY <1>4 DEF TrackCandidate
    <3>2. CASE ~tracker.started
      BY <1>f, <1>t, <3>2
    <3>3. CASE tracker.started /\ Outward
      BY <1>s, <3>3, OutwardUpTo
    <3> QED BY <3>1, <3>2, <3>3
  <2>4. Progress < 2 * amplitude - Lead
    BY <1>f, <1>t, <2>3
  <2>5. CASE Progress < amplitude
    <3>1. tracker'.size = Progress
      BY <1>f, <1>t, <2>2, <2>5
    <3>2. CandidateCourse'
      BY <1>1, <1>2, <1>f, <1>s, <1>t, <2>2, <2>5, <3>1 DEF CandidateCourse
    <3> QED BY <1>3, <2>2, <2>4, <3>2
  <2>6. CASE Progress = amplitude
    <3>1. tracker'.size = amplitude /\ now - (amplitude - amplitude) = now
      BY <1>f, <1>n, <1>t, <2>2, <2>6
    <3>2. CandidateCourse'
      BY <1>1, <1>2, <1>f, <1>s, <1>t, <2>2, <2>6, <3>1 DEF CandidateCourse
    <3> QED BY <1>3, <2>2, <2>4, <3>2
  <2>7. CASE Progress = amplitude + 1
    <3>1. /\ tracker'.size = amplitude - 1 /\ now - 0 = now
          /\ (amplitude - 1) - (2 * amplitude - (amplitude + 1)) = 0
      BY <1>f, <1>n, <1>t, <2>2, <2>7
    <3>2. Progress > amplitude /\ Progress >= amplitude /\ Progress # amplitude /\ ~(Progress < amplitude)
      BY <1>f, <2>7
    <3>3. CandidateCourse'
      BY <1>1, <1>2, <1>s, <1>t, <2>2, <2>7, <3>1, <3>2 DEF CandidateCourse
    <3> QED BY <1>3, <2>2, <2>4, <3>3
  <2> QED BY <1>f, <1>t, <2>3, <2>5, <2>6, <2>7
<1>5. CASE TrackInterrupted
  <2>1. tracker.started /\ ~Outward /\ ~Returning
    BY <1>5 DEF TrackInterrupted
  <2> QED BY <1>s, <2>1, OutwardUpTo
<1>6. CASE TrackReturn
  <2>1. /\ tracker.started /\ ~Outward /\ Returning /\ tracker.returns + 1 < ConfirmSamples
        /\ tracker' = [tracker EXCEPT !.returns = @ + 1]
    BY <1>6 DEF TrackReturn
  <2>2. /\ tracker'.started /\ tracker'.side = tracker.side /\ tracker'.size = tracker.size
        /\ tracker'.ms = tracker.ms /\ tracker'.returns = tracker.returns + 1
    BY <1>n, <2>1 DEF TrackerType
  <2>3. Progress > amplitude /\ CandidateCourse
    BY <1>s, <1>t, <2>1, OutwardUpTo
  <2>4. /\ tracker.size \in {amplitude - 1, amplitude} /\ tracker.side = Ahead
        /\ tracker.returns + 1 = tracker.size - (2 * amplitude - Progress)
        /\ tracker.ms = now - (tracker.returns + 1)
    <3>1. CASE Progress = amplitude + 1
      <4>1. Size(sample.angle) = amplitude - 1 /\ Size(sample.angle) < tracker.size
        BY <1>f, <1>t, <2>1, <3>1 DEF Returning
      <4>2. /\ tracker.size \in {amplitude - 1, amplitude} /\ tracker.side = Ahead
            /\ tracker.returns = 0 /\ tracker.ms = now - 1 - (amplitude - tracker.size)
        BY <1>f, <1>t, <2>3, <3>1 DEF CandidateCourse
      <4>3. tracker.size = amplitude
        BY <1>f, <4>1, <4>2
      <4> QED BY <1>f, <1>n, <3>1, <4>2, <4>3
    <3>2. CASE Progress > amplitude + 1
      BY <1>f, <1>n, <1>t, <2>3, <3>2 DEF CandidateCourse
    <3> QED BY <1>f, <1>t, <2>3, <3>1, <3>2
  <2>5. Progress < 2 * amplitude - Lead
    BY <1>f, <1>n, <1>t, <2>1, <2>4
  <2>6. CandidateCourse'
    <3>1. Progress > amplitude /\ Progress >= amplitude /\ Progress # amplitude /\ ~(Progress < amplitude)
      BY <1>f, <1>t, <2>3
    <3> QED BY <1>1, <1>2, <1>s, <1>t, <2>2, <2>4, <3>1 DEF CandidateCourse
  <2> QED BY <1>3, <2>2, <2>5, <2>6
<1> QED BY <1>4, <1>5, <1>6

(* A peak that is confirmed is the turn's, late by a sample at most, and is not too
   soon: it is recorded. *)
LEMMA ConfirmedIs ==
  ASSUME Context, Controlled, Course, TrackConfirmed
  PROVE  /\ RecordPeak /\ Ahead \in {-1, 1} /\ Progress \in Int /\ Progress > amplitude
         /\ half = "WAIT_PEAK"
         /\ tracker.side = Ahead /\ Sign(angle) = Ahead
         /\ tracker.size \in {amplitude - 1, amplitude}
         /\ now - tracker.ms <= Progress - amplitude
<1>f. /\ amplitude \in Nat \ {0} /\ Lead \in Nat /\ Lead > 0 /\ MinZeroToPeak \in Nat
      /\ MinZeroToPeak <= Lead + amplitude
  BY Fitting
<1>n. /\ now \in Int /\ tracker.size \in Int /\ tracker.returns \in Int /\ tracker.ms \in Int
      /\ lastCross.ms \in Int
  BY Numbers
<1>s. /\ Motion /\ Tracking /\ tracker.started /\ ~Outward
      /\ IF PeakTooSoon
           THEN tracker' = FreshTracker(TRUE) /\ UNCHANGED <<phase, half, eventVars, owed>>
           ELSE RecordPeak
  BY DEF TrackConfirmed
<1>t. /\ Progress \in Int /\ Progress >= 1 /\ Ahead \in {-1, 1}
      /\ Seen = Progress - 1 /\ SeenAt = now - 1
      /\ Size(sample.angle) = IF Progress <= amplitude THEN Progress ELSE 2 * amplitude - Progress
      /\ half = "WAIT_PEAK" /\ CandidateCourse
  BY <1>s, Tracked
<1>1. Progress > amplitude /\ Returning
  BY <1>s, OutwardUpTo
<1>2. /\ tracker.side = Ahead /\ tracker.size \in {amplitude - 1, amplitude}
      /\ tracker.ms >= now - (Progress - amplitude)
      /\ tracker.ms <= now
  <2>1. CASE Progress = amplitude + 1
    <3>1. Size(sample.angle) = amplitude - 1 /\ Size(sample.angle) < tracker.size
      BY <1>1, <1>f, <1>t, <2>1 DEF Returning
    <3>2. /\ tracker.size \in {amplitude - 1, amplitude} /\ tracker.side = Ahead
          /\ tracker.ms = now - 1 - (amplitude - tracker.size)
      BY <1>f, <1>t, <2>1 DEF CandidateCourse
    <3>3. tracker.size = amplitude
      BY <1>f, <3>1, <3>2
    <3> QED BY <1>f, <1>n, <2>1, <3>2, <3>3
  <2>2. CASE Progress > amplitude + 1
    <3>1. /\ tracker.size \in {amplitude - 1, amplitude} /\ tracker.side = Ahead
          /\ tracker.returns = tracker.size - (2 * amplitude - (Progress - 1))
          /\ tracker.ms = now - 1 - tracker.returns
      BY <1>f, <1>n, <1>t, <2>2 DEF CandidateCourse
    <3>2. tracker.size - (2 * amplitude - (Progress - 1)) <= Progress - 1 - amplitude
      BY <1>f, <1>n, <1>t, <3>1
    <3>3. tracker.returns >= 0
      BY Numbers DEF TrackerType
    <3> QED BY <1>f, <1>n, <1>t, <3>1, <3>2, <3>3
  <2> QED BY <1>1, <1>f, <1>t, <2>1, <2>2
<1>3. ~PeakTooSoon
  <2> SUFFICES ASSUME lastCross.valid PROVE ~(tracker.ms - lastCross.ms < MinZeroToPeak)
    BY DEF PeakTooSoon
  <2>1. lastCross.ms <= now - Lead - Progress
    BY DEF Course, EventTimes
  <2>2. tracker.ms - lastCross.ms >= Lead + amplitude
    BY <1>2, <1>f, <1>n, <1>t, <2>1
  <2> QED BY <1>f, <1>n, <2>2
<1>4. Sign(angle) = Ahead
  BY <1>t, Position DEF Course
<1> QED BY <1>1, <1>2, <1>3, <1>4, <1>f, <1>n, <1>s, <1>t

LEMMA ConfirmedKeeps ==
  ASSUME Context, Controlled, Course, UNCHANGED bodyVars, TrackConfirmed
  PROVE  Course'
<1>f. /\ amplitude \in Nat \ {0} /\ Lead \in Nat /\ Lead > 0
  BY Fitting
<1>n. now \in Int /\ tracker.ms \in Int /\ pulse.start \in Int /\ pulse.width \in Int
  BY Numbers
<1>r. /\ RecordPeak /\ Ahead \in {-1, 1} /\ Progress \in Int /\ Progress > amplitude
      /\ half = "WAIT_PEAK" /\ tracker.side = Ahead
      /\ now - tracker.ms <= Progress - amplitude
  BY ConfirmedIs
<1>s. /\ Motion /\ pc = "track" /\ now' = now /\ pulse' = pulse /\ amplitude' = amplitude
      /\ direction' = direction /\ angle' = angle
      /\ lastPeak' = [valid |-> TRUE, side |-> tracker.side, size |-> tracker.size, ms |-> tracker.ms]
      /\ half' = "WAIT_ZERO_CROSS" /\ lastCross' = lastCross
      /\ phase' \in {"HOLD", "ENERGY_CONTROL"}
  BY <1>r DEF TrackConfirmed, Motion, At, RecordPeak, motorVars, bodyVars
<1>p. lastPeak'.valid /\ lastPeak'.side = tracker.side /\ lastPeak'.ms = tracker.ms
  BY <1>s
<1>1. Ahead' = Ahead
  BY <1>p, <1>r, <1>s DEF Ahead
<1>2. Progress' = Progress
  BY <1>1, <1>s DEF Progress
<1>c. OnCourse /\ EventTimes /\ Remembered /\ PulseCourse
  BY DEF Course
<1>3. pc' = "cross"
  <2>1. 1 <= Progress - 1
    BY <1>f, <1>r
  <2>2. previous.has
    BY <1>c, <1>s, <2>1 DEF Remembered, Still
  <2> QED BY <1>s, <2>2 DEF Motion
<1>4. Seen' = Progress /\ Seen = Progress - 1
  BY <1>2, <1>3, <1>s DEF Seen
<1>5. OnCourse'
  BY <1>1, <1>2, <1>3, <1>4, <1>c, <1>f, <1>r, <1>s DEF OnCourse
<1>6. EventTimes'
  BY <1>2, <1>c, <1>p, <1>r, <1>s DEF EventTimes
<1>7. Sampled' /\ Remembered'
  BY <1>1, <1>2, <1>s, MotionKeeps
<1>8. PulseCourse'
  <2>1. pulse.active => now - pulse.start <= pulse.width
    BY <1>c DEF PulseCourse
  <2> QED BY <1>s, <2>1 DEF PulseCourse
<1>9. WaitsForPeak' /\ WaitsForCross'
  BY <1>4, <1>r, <1>s DEF WaitsForPeak, WaitsForCross
<1> QED BY <1>5, <1>6, <1>7, <1>8, <1>9 DEF Course

(* At the crossing test: what is before the detector angle crosses is no crossing, and
   the crossing, whose peak was accepted before, is acted upon. *)
LEMMA AtCross ==
  ASSUME Context, Controlled, Course, At("cross")
  PROVE  /\ Progress \in Int /\ Ahead \in {-1, 1}
         /\ sample.rate = IF Progress <= amplitude THEN Ahead ELSE -Ahead
         /\ Progress < 2 * amplitude - Lead => sample.detector = Ahead /\ ~CrossingCounts
         /\ Progress >= 2 * amplitude - Lead =>
              /\ Progress = 2 * amplitude - Lead /\ half = "WAIT_ZERO_CROSS"
              /\ sample.rate = -Ahead /\ previous.rate = -Ahead
              /\ CrossingCounts
              /\ \A c \in previous.ms .. now : ~TooSoon(c)
<1>f. /\ amplitude \in Nat \ {0} /\ Lead \in Nat /\ Lead > 0 /\ ConfirmSamples \in Nat \ {0}
      /\ Lead + ConfirmSamples + 1 <= amplitude
      /\ MinHalfCycle \in Nat /\ MinHalfCycle <= 2 * amplitude - 1
  BY Fitting
<1>n. now \in Int /\ lastCross.ms \in Int /\ previous.ms \in Int
  BY Numbers
<1>c. /\ OnCourse /\ EventTimes /\ Sampled /\ Remembered /\ WaitsForCross
      /\ Progress \in Int /\ Ahead \in {-1, 1}
  BY Position DEF Course, OnCourse
<1>s. pc = "cross" /\ Running /\ sample.kind = "fresh"
  BY DEF At, Context, IInv, Typed, StepInv
<1>1. sample = [kind |-> "fresh", angle |-> angle,
                rate |-> IF Progress <= amplitude THEN Ahead ELSE -Ahead,
                detector |-> IF Progress < 2 * amplitude - Lead THEN Ahead ELSE 0]
  BY <1>c, <1>s DEF Sampled
<1>2. /\ sample.rate = IF Progress <= amplitude THEN Ahead ELSE -Ahead
      /\ sample.detector = IF Progress < 2 * amplitude - Lead THEN Ahead ELSE 0
  BY <1>1
<1>3. half = "WAIT_ZERO_CROSS" => 1 <= Progress - 1
  BY <1>c, <1>f, <1>s DEF WaitsForCross, Seen
<1>4. ASSUME Progress < 2 * amplitude - Lead PROVE sample.detector = Ahead /\ ~CrossingCounts
  <2>1. sample.detector = Ahead
    BY <1>2, <1>4
  <2>2. half = "WAIT_ZERO_CROSS" => previous.detector = Ahead
    BY <1>3, <1>c, <1>s DEF Remembered, Still
  <2> QED BY <1>c, <2>1, <2>2 DEF CrossingCounts, Crossing
<1>5. ASSUME Progress >= 2 * amplitude - Lead
      PROVE  /\ Progress = 2 * amplitude - Lead /\ half = "WAIT_ZERO_CROSS"
             /\ sample.rate = -Ahead /\ previous.rate = -Ahead
             /\ CrossingCounts
             /\ \A c \in previous.ms .. now : ~TooSoon(c)
  <2>1. Progress = 2 * amplitude - Lead
    BY <1>5, <1>c, <1>f DEF OnCourse
  <2>2. half = "WAIT_ZERO_CROSS"
    BY <1>c, <1>s, <2>1 DEF OnCourse
  <2>3. amplitude < Progress - 1 /\ amplitude < Progress /\ ~(Progress <= amplitude)
    BY <1>f, <2>1
  <2>4. /\ previous.detector = Ahead /\ previous.rate = -Ahead /\ previous.ms = now - 1
    BY <1>3, <1>c, <1>s, <2>2, <2>3 DEF Remembered, Still
  <2>5. sample.rate = -Ahead /\ sample.detector = 0
    BY <1>2, <1>5, <1>f, <2>1, <2>3
  <2>6. Crossing
    BY <1>c, <2>4, <2>5 DEF Crossing
  <2>7. Controlling /\ lastPeak.valid /\ ~consumed /\ ~pulse.active
    <3>1. KickFirst /\ MotorOnlyInPulse
      BY DEF Context, IInv
    <3>2. Controlling /\ lastPeak.valid /\ ~consumed
      BY <1>s, <2>2, <3>1 DEF KickFirst
    <3> QED BY <2>2, <3>1, <3>2 DEF MotorOnlyInPulse, Controlling
  <2>8. CrossingCounts
    BY <2>2, <2>6, <2>7 DEF CrossingCounts
  <2>9. ASSUME NEW c \in previous.ms .. now PROVE ~TooSoon(c)
    <3> SUFFICES ASSUME lastCross.valid PROVE ~(c - lastCross.ms < MinHalfCycle)
      BY DEF TooSoon
    <3>1. lastCross.ms <= now - Lead - Progress
      BY <1>c DEF EventTimes
    <3>2. c - lastCross.ms >= 2 * amplitude - 1
      BY <1>f, <1>n, <1>c, <2>1, <2>4, <3>1
    <3> QED BY <1>f, <1>n, <3>2
  <2> QED BY <2>1, <2>2, <2>4, <2>5, <2>8, <2>9
<1> QED BY <1>2, <1>4, <1>5, <1>c

LEMMA IgnoredKeeps ==
  ASSUME Context, Controlled, Course, UNCHANGED bodyVars, CrossIgnored
  PROVE  Course'
<1>f. amplitude \in Nat \ {0} /\ Lead \in Nat
  BY Fitting
<1>n. now \in Int /\ previous.ms \in Int
  BY Numbers
<1>c. /\ OnCourse /\ EventTimes /\ PulseCourse /\ WaitsForPeak /\ WaitsForCross
      /\ amplitude' = amplitude
  BY DEF Course, bodyVars
<1>s. /\ At("cross") /\ pc = "cross" /\ pc' = "pulse" /\ now' = now
      /\ previous' = [has |-> TRUE, detector |-> sample.detector, rate |-> sample.rate, ms |-> now]
      /\ phase' = phase /\ half' = half /\ pulse' = pulse /\ tracker' = tracker
      /\ lastPeak' = lastPeak /\ lastCross' = lastCross /\ pending' = pending
  BY DEF CrossIgnored, At, PreviousIsThis, MotionDone, motorVars, eventVars
<1>1. Ahead' = Ahead /\ Progress' = Progress
  BY <1>s, Frame
<1>a. /\ Progress \in Int /\ Ahead \in {-1, 1}
      /\ sample.rate = IF Progress <= amplitude THEN Ahead ELSE -Ahead
      /\ Progress < 2 * amplitude - Lead /\ sample.detector = Ahead
  <2>1. Progress < 2 * amplitude - Lead
    <3> SUFFICES ASSUME Progress >= 2 * amplitude - Lead PROVE FALSE
      BY <1>f, <1>s, AtCross
    <3>1. CrossingCounts /\ \A c \in previous.ms .. now : ~TooSoon(c)
      BY <1>s, AtCross
    <3> QED BY <3>1 DEF CrossIgnored
  <2> QED BY <1>s, <2>1, AtCross
<1>2. Seen' = Progress /\ Seen = Progress /\ SeenAt' = now /\ SeenAt = now
  BY <1>1, <1>s DEF Seen, SeenAt
<1>3. OnCourse'
  <2>1. Progress # 2 * amplitude - Lead
    BY <1>a, <1>f
  <2> QED BY <1>1, <1>2, <1>a, <1>c, <1>s, <2>1 DEF OnCourse
<1>4. Sampled'
  BY <1>s DEF Sampled
<1>5. Remembered'
  <2>1. previous'.has /\ previous'.detector = Ahead /\ previous'.ms = now
        /\ previous'.rate = sample.rate
    BY <1>a, <1>s
  <2>2. amplitude < Progress => sample.rate = -Ahead
    BY <1>a, <1>f
  <2> QED BY <1>1, <1>c, <1>s, <2>1, <2>2 DEF Remembered, Still
<1>6. EventTimes' /\ PulseCourse' /\ WaitsForPeak' /\ WaitsForCross'
  BY <1>1, <1>2, <1>c, <1>s DEF EventTimes, PulseCourse, WaitsForPeak, CandidateCourse, WaitsForCross
<1> QED BY <1>3, <1>4, <1>5, <1>6 DEF Course

(* An accepted crossing begins the half on the other side, Lead before the centre, with
   the command to that side. *)
LEMMA AcceptedKeeps ==
  ASSUME Context, Controlled, Course, UNCHANGED bodyVars,
         CrossNoOutput \/ CrossRefused \/ \E width \in Widths : CrossPulse(width)
  PROVE  Course'
<1>f. /\ amplitude \in Nat \ {0} /\ Lead \in Nat /\ Lead > 0 /\ ConfirmSamples \in Nat \ {0}
      /\ Lead + ConfirmSamples + 1 <= amplitude /\ amplitude \in Amplitudes
      /\ Longest \in Nat /\ (\A a \in Amplitudes : a <= Longest)
      /\ \A w \in Widths : w \in Nat
  BY Fitting
<1>n. now \in Int /\ lastPeak.ms \in Int /\ previous.ms \in Int
  BY Numbers
<1>s. /\ CrossAccepted /\ CommandSide /\ At("cross") /\ CrossingCounts
      /\ pc = "cross" /\ pc' = "pulse" /\ now' = now /\ lastPeak' = lastPeak /\ phase' = phase
      /\ half' \in {"WAIT_PEAK", "PULSE_ACTIVE"}
      /\ tracker' \in {FreshTracker(TRUE), FreshTracker(FALSE)}
      /\ UNCHANGED <<angle, direction, amplitude>>
  BY DEF CrossNoOutput, CrossRefused, CrossPulse, CrossAccepted, RearmForNextPeak, At, MotionDone,
         bodyVars
<1>c. OnCourse /\ EventTimes
  BY DEF Course
<1>a. /\ Progress \in Int /\ Ahead \in {-1, 1} /\ half = "WAIT_ZERO_CROSS"
      /\ Progress = 2 * amplitude - Lead
      /\ sample.rate = -Ahead /\ previous.rate = -Ahead
  <2>1. ~(Progress < 2 * amplitude - Lead)
    BY <1>s, AtCross
  <2>2. Progress >= 2 * amplitude - Lead
    BY <1>f, <1>s, <2>1, AtCross
  <2> QED BY <1>s, <2>2, AtCross
<1>v. lastPeak.valid /\ Controlling /\ ~pulse.active
  BY <1>s DEF CrossingCounts
<1>1. Ahead' = -Ahead
  BY <1>a, <1>s, <1>v DEF Ahead
<1>2. Progress' = -Lead
  <2>1. Progress > amplitude
    BY <1>a, <1>f
  <2>2. direction = -Ahead /\ angle = Ahead * (2 * amplitude - Progress)
    BY <1>a, <1>c, <1>f, <2>1, Position
  <2>3. angle = Ahead * Lead
    BY <1>a, <1>f, <2>2
  <2>4. Progress' = (-Ahead) * angle
    <3>1. direction' = Ahead' /\ angle' = angle
      BY <1>1, <1>s, <2>2
    <3> QED BY <1>1, <3>1 DEF Progress
  <2>5. CASE Ahead = 1
    BY <1>f, <2>3, <2>4, <2>5
  <2>6. CASE Ahead = -1
    BY <1>f, <2>3, <2>4, <2>6
  <2> QED BY <1>a, <2>5, <2>6
<1>3. Seen' = -Lead
  BY <1>2, <1>s DEF Seen
<1>4. OnCourse'
  <2>1. -Lead <= 2 * amplitude - Lead /\ -Lead # 2 * amplitude - Lead /\ -Lead >= -Lead
    BY <1>f
  <2> QED BY <1>1, <1>2, <1>3, <1>a, <1>s, <2>1 DEF OnCourse
<1>5. EventTimes'
  <2>1. lastCross'.ms <= now - Lead - (-Lead)
    <3>1. PICK c \in previous.ms .. now : lastCross' = [valid |-> TRUE, ms |-> c]
      BY <1>s DEF CrossAccepted
    <3> QED BY <1>f, <1>n, <3>1
  <2>2. now - lastPeak.ms <= Longest + (-Lead)
    <3>1. now - lastPeak.ms <= Progress - amplitude
      BY <1>a, <1>c, <1>v DEF EventTimes
    <3>2. amplitude <= Longest
      BY <1>f
    <3> QED BY <1>a, <1>f, <1>n, <3>1, <3>2
  <2> QED BY <1>2, <1>s, <2>1, <2>2 DEF EventTimes
<1>6. Sampled' /\ Remembered'
  <2>1. ~(1 <= -Lead) /\ ~(amplitude < -Lead)
    BY <1>f
  <2> QED BY <1>2, <1>s, <2>1 DEF Sampled, Remembered, Still
<1>7. pending' = [on |-> TRUE, side |-> -Ahead]
  <2>1. SideOf(-Ahead) = -Ahead
    BY <1>a DEF SideOf
  <2> QED BY <1>a, <1>s, <2>1 DEF CommandSide
<1>8. PulseCourse'
  <2>1. CASE CrossNoOutput \/ CrossRefused
    <3>1. half' = "WAIT_PEAK" /\ ~pulse'.active
      <4>1. pulse \in PulseType
        BY Numbers
      <4> QED BY <1>v, <2>1, <4>1
              DEF CrossNoOutput, CrossRefused, RearmForNextPeak, StopMotor, motorVars, PulseType
    <3> QED BY <1>s, <1>v, <3>1 DEF PulseCourse, Controlling
  <2>2. ASSUME NEW width \in Widths, CrossPulse(width) PROVE PulseCourse'
    <3>1. pulse'.start = now /\ pulse'.width = width
      BY <1>s, <2>2 DEF CrossPulse, StartPulse
    <3>2. width \in Nat /\ now - now = (-Lead) + Lead /\ now - now <= width
      BY <1>f, <1>n
    <3>3. now' - pulse'.start = Progress' + Lead /\ now' - pulse'.start <= pulse'.width
      BY <1>2, <1>s, <3>1, <3>2
    <3>4. phase' # "STRONG_START_KICK" /\ pending'.on /\ pending'.side = Ahead' /\ pulse'.width \in Widths
      BY <1>1, <1>7, <1>s, <1>v, <3>1 DEF Controlling
    <3> QED BY <3>3, <3>4 DEF PulseCourse
  <2> QED BY <2>1, <2>2
<1>9. WaitsForPeak' /\ WaitsForCross'
  <2>1. ~tracker'.started /\ -Lead <= amplitude
    BY <1>f, <1>s DEF FreshTracker
  <2> QED BY <1>1, <1>3, <1>7, <1>s, <2>1 DEF WaitsForPeak, WaitsForCross
<1> QED BY <1>4, <1>5, <1>6, <1>8, <1>9 DEF Course

(* The kick is over at the turn, a pulse by then: what waits next waits for that peak. *)
LEMMA PulseKeeps ==
  ASSUME Context, Controlled, Course, UNCHANGED bodyVars, PulseEnds
  PROVE  Course'
<1>f. /\ amplitude \in Nat \ {0} /\ Lead \in Nat /\ KickWidth \in Nat \ {0} /\ KickWidth <= amplitude
      /\ \A w \in Widths : w <= Lead + amplitude
  BY Fitting
<1>n. now \in Int /\ pulse.start \in Int /\ pulse.width \in Int /\ pulse \in PulseType
  BY Numbers
<1>c. /\ OnCourse /\ EventTimes /\ Remembered /\ PulseCourse /\ Progress \in Int
      /\ Ahead \in {-1, 1} /\ amplitude' = amplitude
  BY Position DEF Course, OnCourse, bodyVars
<1>s. /\ pc = "pulse" /\ pc' = "end" /\ now' = now /\ previous' = previous
      /\ lastPeak' = lastPeak /\ lastCross' = lastCross /\ pending' = pending
      /\ pulse.active /\ now - pulse.start >= pulse.width
      /\ phase' = IF phase = "STRONG_START_KICK" THEN "WAIT_FIRST_PEAK" ELSE phase
      /\ phase' # "STRONG_START_KICK"
  BY DEF PulseEnds, At, PulseOver, eventVars
<1>p. ~pulse'.active
  BY <1>n DEF PulseEnds, PulseType
<1>k. /\ phase = "STRONG_START_KICK" => half = "WAIT_PEAK"
      /\ phase = "STRONG_START_KICK" \/ half = "PULSE_ACTIVE"
  BY <1>s DEF Context, IInv, KickFirst, MotorOnlyInPulse
<1>r. half' = "WAIT_PEAK" /\ tracker' = FreshTracker(TRUE)
  BY <1>k DEF PulseEnds, RearmForNextPeak
<1>1. Ahead' = Ahead /\ Progress' = Progress
  <2>1. half # "WAIT_ZERO_CROSS"
    BY <1>k
  <2> QED BY <1>r, <1>s, <2>1 DEF Ahead, Progress, bodyVars
<1>2. Seen' = Progress /\ Seen = Progress
  BY <1>1, <1>s DEF Seen
<1>3. Progress <= amplitude /\ (pending.on => pending.side = Ahead) /\ (pending.on \/ Progress >= 1)
  <2>1. now - pulse.start <= pulse.width
    BY <1>c, <1>s DEF PulseCourse
  <2>2. CASE phase = "STRONG_START_KICK"
    BY <1>c, <1>f, <1>n, <1>s, <2>1, <2>2 DEF PulseCourse
  <2>3. CASE half = "PULSE_ACTIVE"
    BY <1>c, <1>f, <1>n, <1>s, <2>1, <2>3 DEF PulseCourse
  <2> QED BY <1>k, <2>2, <2>3
<1>4. OnCourse' /\ Sampled'
  <2>1. Progress # 2 * amplitude - Lead
    BY <1>c, <1>s DEF OnCourse
  <2> QED BY <1>1, <1>2, <1>c, <1>s, <2>1 DEF OnCourse, Sampled
<1>5. EventTimes'
  <2>1. half # "WAIT_ZERO_CROSS"
    BY <1>k
  <2> QED BY <1>1, <1>c, <1>r, <1>s, <2>1 DEF EventTimes
<1>6. Remembered'
  BY <1>1, <1>c, <1>s DEF Remembered, Still
<1>7. PulseCourse'
  BY <1>p, <1>r, <1>s DEF PulseCourse
<1>8. WaitsForPeak' /\ WaitsForCross'
  BY <1>1, <1>2, <1>3, <1>c, <1>r, <1>s DEF WaitsForPeak, WaitsForCross, FreshTracker
<1> QED BY <1>4, <1>5, <1>6, <1>7, <1>8 DEF Course

(* A run begins at the centre, with the kick to the side the body goes. *)
LEMMA BeginStarts ==
  ASSUME Context, Begin, phase' = "STRONG_START_KICK"
  PROVE  Course'
<1>f. Lead \in Nat /\ Lead > 0 /\ ConfirmSamples \in Nat /\ KickWidth \in Nat
  BY Fitting
<1>a. amplitude' \in Amplitudes /\ amplitude' \in Nat \ {0} /\ Lead + ConfirmSamples + 1 <= amplitude'
  <2>1. amplitude' \in Amplitudes
    BY DEF Begin
  <2> QED BY <2>1, SwingingControlAssumption DEF Context, SwingFits
<1>s. /\ angle' = 0 /\ direction' = 1 /\ pc' = "sense" /\ now' = 0 /\ half' = "WAIT_PEAK"
      /\ lastPeak'.valid = FALSE /\ lastCross'.valid = FALSE /\ pending'.on = FALSE
      /\ pulse'.width = KickWidth /\ pulse'.start = 0
  BY DEF Begin, BeginMeasurement, ResetControl, StartPulse
<1>1. Ahead' = 1
  BY <1>s DEF Ahead
<1>2. Progress' = 0
  BY <1>1, <1>s DEF Progress
<1>3. Seen' = 0
  BY <1>2, <1>s DEF Seen
<1>4. OnCourse'
  <2>1. 0 < 2 * amplitude' - Lead
    <3>1. amplitude' \in Int /\ amplitude' >= Lead + 2 /\ Lead \in Int
      <4>1. ConfirmSamples >= 1
        BY Fitting
      <4> QED BY <1>a, <1>f, <4>1
    <3> QED BY <1>f, <3>1, Roomy
  <2>2. 2 * amplitude' - Lead \in Int /\ 0 >= -Lead
    BY <1>a, <1>f
  <2> QED BY <1>1, <1>2, <1>3, <2>1, <2>2 DEF OnCourse
<1>5. EventTimes' /\ Sampled'
  BY <1>s DEF EventTimes, Sampled
<1>6. Remembered'
  <2>1. ~(1 <= 0) /\ ~(amplitude' < 0)
    BY <1>a
  <2> QED BY <1>2, <1>s, <2>1 DEF Remembered, Still
<1>7. PulseCourse'
  <2>1. 0 - 0 = 0 /\ 0 - 0 <= KickWidth
    BY <1>f
  <2> QED BY <1>2, <1>s, <2>1 DEF PulseCourse
<1>8. WaitsForPeak' /\ WaitsForCross'
  BY <1>s DEF WaitsForPeak, WaitsForCross
<1> QED BY <1>4, <1>5, <1>6, <1>7, <1>8 DEF Course

LEMMA NextSwing == Context /\ SwingInv /\ [SwingNext]_swingVars => SwingInv'
<1> SUFFICES ASSUME Context, SwingInv, [SwingNext]_swingVars, Controlled' PROVE Course'
  BY DEF SwingInv
<1>k. MotorOnlyInPulse /\ KickFirst
  BY DEF Context, IInv
<1>1. CASE Begin
  <2>1. phase' = "STRONG_START_KICK"
    BY <1>1 DEF Begin, BeginMeasurement, Controlled
  <2> QED BY <1>1, <2>1, BeginStarts
<1>2. CASE Tick
  <2>1. Controlled
    BY <1>2 DEF Tick, Sense, Controlled, Running
  <2> QED BY <1>2, <2>1, TickKeeps DEF SwingInv
<1>3. ASSUME React \/ EmergencyStop, UNCHANGED bodyVars PROVE Course'
  <2>1. ~EmergencyStop /\ ~MotionFails /\ ~FinishRun
    BY DEF EmergencyStop, MotionFails, FinishRun, Controlled, Running
  <2>c. ASSUME Running, phase' = phase PROVE Controlled /\ Course
    BY <2>c DEF Controlled, SwingInv
  <2>m. ASSUME Motion PROVE Controlled /\ Course
    BY <2>m DEF Motion, At, Controlled, SwingInv
  <2>x. ASSUME CrossAccepted PROVE Controlled /\ Course
    BY <2>x DEF CrossAccepted, CrossingCounts, Controlling, At, Controlled, SwingInv
  <2>2. CASE MotionSkips
    BY <1>3, <2>2, <2>c, NothingKeeps DEF MotionSkips, At
  <2>3. CASE TrackNothing
    BY <1>3, <2>3, <2>m, NothingKeeps DEF TrackNothing
  <2>4. CASE TrackCandidate \/ TrackInterrupted \/ TrackReturn
    BY <1>3, <2>4, <2>m, CandidateKeeps DEF TrackCandidate, TrackInterrupted, TrackReturn
  <2>5. CASE TrackConfirmed
    BY <1>3, <2>5, <2>m, ConfirmedKeeps DEF TrackConfirmed
  <2>6. CASE CrossIgnored
    BY <1>3, <2>6, <2>c, IgnoredKeeps DEF CrossIgnored, At
  <2>7. CASE CrossNoOutput \/ CrossRefused \/ \E width \in Widths : CrossPulse(width)
    BY <1>3, <2>7, <2>x, AcceptedKeeps DEF CrossNoOutput, CrossRefused, CrossPulse
  <2>8. CASE CrossSolverFails
    BY <2>8 DEF CrossSolverFails, Context, SwingFits
  <2>9. CASE PulseEnds
    <3>1. Controlled
      BY <2>9 DEF PulseEnds, At, Controlled
    <3> QED BY <1>3, <2>9, <3>1, PulseKeeps DEF SwingInv
  <2>10. CASE PulseGoesOn \/ StepEnds
    <3>1. Controlled /\ Course
      BY <2>10, <2>c DEF PulseGoesOn, StepEnds, At
    <3>2. /\ UNCHANGED <<now, phase, half, motorVars, tracker, eventVars, previous>>
          /\ pc \in {"pulse", "end", "sense"} /\ pc' \in {"pulse", "end", "sense"}
      BY <2>10 DEF PulseGoesOn, StepEnds, At
    <3> QED BY <1>3, <3>1, <3>2, SameKeeps
  <2> QED BY <1>3, <2>1, <2>2, <2>3, <2>4, <2>5, <2>6, <2>7, <2>8, <2>9, <2>10 DEF React
<1>4. CASE UNCHANGED swingVars
  <2>1. Controlled /\ Course /\ UNCHANGED bodyVars
        /\ UNCHANGED <<now, phase, half, motorVars, tracker, eventVars, previous>>
        /\ pc' = pc /\ sample' = sample
    BY <1>4 DEF swingVars, vars, Controlled, Running, SwingInv
  <2> QED BY <2>1, SameKeeps
<1> QED BY <1>1, <1>2, <1>3, <1>4 DEF SwingNext

(* A controlled run has seen a peak. *)
PeakKnown == Running /\ Controlling => lastPeak.valid

LEMMA NextPeakKnown == PeakKnown /\ [Next]_vars => PeakKnown'
<1> SUFFICES ASSUME PeakKnown, [Next]_vars, Running', Controlling' PROVE lastPeak'.valid
  BY DEF PeakKnown
<1>1. CASE phase' = phase /\ lastPeak' = lastPeak /\ Running
  BY <1>1 DEF PeakKnown, Controlling
<1>2. ~BeginMeasurement
  BY DEF BeginMeasurement, Controlling
<1>3. ~EmergencyStop /\ ~MotionFails /\ ~FinishRun
  BY DEF EmergencyStop, MotionFails, FinishRun, Running
<1>4. CASE TrackConfirmed /\ RecordPeak
  BY <1>4 DEF RecordPeak
<1>5. ASSUME NEW s \in Samples, NEW gap \in 1 .. MaxGap, Sense(s, gap) PROVE lastPeak'.valid
  BY <1>1, <1>5 DEF Sense, At, eventVars
<1>6. CASE MotionSkips \/ TrackNothing \/ TrackCandidate \/ TrackInterrupted \/ TrackReturn
  BY <1>1, <1>6 DEF MotionSkips, TrackNothing, TrackCandidate, TrackInterrupted, TrackReturn, Motion,
                    At, eventVars
<1>7. CASE TrackConfirmed /\ ~RecordPeak
  BY <1>1, <1>7 DEF TrackConfirmed, Motion, At, eventVars
<1>8. CASE CrossIgnored \/ PulseGoesOn \/ StepEnds
  BY <1>1, <1>8 DEF CrossIgnored, PulseGoesOn, StepEnds, At, eventVars
<1>9. CASE CrossAccepted
  BY <1>1, <1>9 DEF CrossAccepted, At
<1>10. CASE PulseEnds
  <2>1. phase' = phase
    BY <1>10 DEF PulseEnds, Controlling
  <2> QED BY <1>1, <1>10, <2>1 DEF PulseEnds, At, eventVars
<1>11. CASE UNCHANGED vars
  BY <1>1, <1>11 DEF vars, eventVars, Running
<1> QED BY <1>2, <1>3, <1>4, <1>5, <1>6, <1>7, <1>8, <1>9, <1>10, <1>11
        DEF Next, React, CrossSolverFails, CrossNoOutput, CrossRefused, CrossPulse

LEMMA InitSwing == SwingInit => SwingInv /\ PeakKnown
BY DEF SwingInit, Init, SwingInv, Controlled, Running, PeakKnown

LEMMA SwingInvariant == SwingFits /\ SwingSpec => [](Context /\ SwingInv /\ PeakKnown)
<1>1. SwingFits /\ SwingInit => SwingFits /\ SwingInv /\ PeakKnown
  BY InitSwing
<1>2. SwingFits => SwingFits'
  BY DEF SwingFits
<1>3. SwingFits /\ BodyInv /\ IInv /\ TimeInv /\ SwingInv /\ [SwingNext]_swingVars => SwingInv'
  BY NextSwing DEF Context
<1>4. BodyInv /\ PeakKnown /\ [SwingNext]_swingVars => PeakKnown'
  BY NextPeakKnown, SwingStep
<1>5. SwingFits /\ BodyInv /\ IInv /\ TimeInv => Context
  BY DEF Context
<1> QED BY <1>1, <1>2, <1>3, <1>4, <1>5, Body, SwingImplements, Invariant, TimeInvariant, PTL
        DEF SwingSpec

(* On a swing that leaves the guards their room no extremum goes by without an accepted
   peak: updateEnergyControlAutonomousPeakTracker confirms the one ahead before the
   detector angle crosses, and updateEnergyControlAutonomousAtZeroCross then turns to
   the next. *)
THEOREM NoneMissed == SwingFits /\ SwingSpec => []NoExtremumMissed
<1>1. Context /\ SwingInv /\ PeakKnown => NoExtremumMissed
  <2> SUFFICES ASSUME Context, SwingInv, PeakKnown, Running, Controlling
               PROVE  now - lastPeak.ms <= LongestHalf + 2 * ConfirmSamples + 2
    BY DEF NoExtremumMissed
  <2>f. /\ amplitude \in Nat \ {0} /\ Lead \in Nat /\ Lead > 0 /\ ConfirmSamples \in Nat \ {0}
        /\ Longest \in Nat /\ amplitude <= Longest
        /\ \A w \in Widths : w <= Lead + amplitude /\ w \in Nat
    BY Fitting
  <2>n. now \in Int /\ lastPeak.ms \in Int /\ tracker.size \in Int /\ tracker.returns \in Int
        /\ tracker \in TrackerType /\ pulse.start \in Int /\ pulse.width \in Int
    BY Numbers
  <2>c. Course /\ lastPeak.valid /\ Progress \in Int /\ phase # "STRONG_START_KICK"
    BY Position DEF SwingInv, Controlled, Controlling, PeakKnown, Course
  <2>1. LongestHalf = 2 * Longest
    BY DEF LongestHalf, Longest
  <2>2. now - lastPeak.ms <= IF half = "WAIT_ZERO_CROSS" THEN Progress - amplitude
                                                         ELSE Longest + Progress
    BY <2>c DEF Course, EventTimes
  <2>3. CASE half = "WAIT_ZERO_CROSS"
    BY <2>1, <2>2, <2>3, <2>c, <2>f, <2>n DEF Course, OnCourse
  <2>4. CASE half = "WAIT_PEAK"
    <3>1. Progress <= Seen + 1
      BY <2>c DEF Seen
    <3>2. Seen \in Int
      BY <2>c DEF Seen
    <3>3. Seen <= amplitude + ConfirmSamples
      <4>1. CASE ~tracker.started
        BY <2>4, <2>c, <2>f, <3>2, <4>1 DEF Course, WaitsForPeak
      <4>2. CASE tracker.started
        <5>1. CandidateCourse
          BY <2>4, <2>c, <4>2 DEF Course, WaitsForPeak
        <5>2. tracker.returns <= ConfirmSamples - 1
          BY <2>f, <2>n DEF TrackerType
        <5> QED BY <2>f, <2>n, <3>2, <5>1, <5>2 DEF CandidateCourse
      <4> QED BY <4>1, <4>2
    <3> QED BY <2>1, <2>2, <2>4, <2>c, <2>f, <2>n, <3>1, <3>2, <3>3
  <2>5. CASE half = "PULSE_ACTIVE"
    <3>1. pulse.active
      BY <2>5 DEF Context, IInv, KickFirst
    <3>2. now - pulse.start = Progress + Lead /\ now - pulse.start <= pulse.width
          /\ pulse.width <= Lead + amplitude
      BY <2>5, <2>c, <2>f, <3>1 DEF Course, PulseCourse
    <3>3. Progress <= amplitude
      BY <2>c, <2>f, <2>n, <3>2
    <3> QED BY <2>1, <2>2, <2>5, <2>c, <2>f, <2>n, <3>3
  <2>6. half \in HalfStates
    BY DEF Context, IInv, Typed, TypeOK
  <2> QED BY <2>3, <2>4, <2>5, <2>6 DEF HalfStates
<1> QED BY <1>1, SwingInvariant, PTL

(* The accepted peak has the amplitude of the turn it follows, but for one sample that
   may be missing there, and peaks alternate in side
   (recordEnergyControlAutonomousPeak). *)
THEOREM PeaksAreExtrema == SwingFits /\ SwingSpec => PeakIsExtremum
<1>1. Context /\ SwingInv /\ [SwingNext]_swingVars =>
        (lastPeak'.valid /\ lastPeak' # lastPeak =>
           /\ lastPeak'.size \in amplitude - 1 .. amplitude
           /\ lastPeak'.side = Sign(angle)
           /\ lastPeak.valid => lastPeak'.side = -lastPeak.side)
  <2> SUFFICES ASSUME Context, SwingInv, [SwingNext]_swingVars, lastPeak'.valid, lastPeak' # lastPeak
               PROVE  /\ lastPeak'.size \in amplitude - 1 .. amplitude
                      /\ lastPeak'.side = Sign(angle)
                      /\ lastPeak.valid => lastPeak'.side = -lastPeak.side
    OBVIOUS
  <2>1. TrackConfirmed /\ RecordPeak
    BY PeakIsConfirmed, SwingStep DEF Context
  <2>2. Controlled /\ Course
    BY <2>1 DEF TrackConfirmed, Motion, At, Controlled, SwingInv
  <2>3. /\ half = "WAIT_PEAK" /\ tracker.side = Ahead /\ Sign(angle) = Ahead
        /\ tracker.size \in {amplitude - 1, amplitude}
    BY <2>1, <2>2, ConfirmedIs
  <2>4. lastPeak'.size = tracker.size /\ lastPeak'.side = tracker.side
    BY <2>1 DEF RecordPeak
  <2>5. lastPeak.valid => Ahead = -lastPeak.side
    BY <2>3 DEF Ahead
  <2>6. amplitude \in Nat
    BY Fitting
  <2> QED BY <2>3, <2>4, <2>5, <2>6
<1> QED BY <1>1, SwingInvariant, PTL DEF SwingSpec, PeakIsExtremum
=============================================================================
