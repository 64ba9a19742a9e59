---------------------------- MODULE Attitude_proofs ----------------------------
(***************************************************************************)
(* Proofs about Experiment and Attitude, for every value of the constants,   *)
(* whatever the delays between updates, the samples, the stops and the       *)
(* clears.  The motor is asked for current only in a measurement, and only   *)
(* on an attitude that this run made anew from enough upright samples in a   *)
(* row; the accelerometer's weight does not rise in or soon after a pulse;   *)
(* the LED is on schedule, and the rows of a run tell what its video shows;  *)
(* and, from what is said of the steps that are enabled, a run ends.         *)
(***************************************************************************)
EXTENDS Attitude, TLAPS, WellFoundedInduction

ThisAttitude == att = [init |-> TRUE, run |-> run, bias |-> TRUE]

Typed ==
  /\ run \in Nat /\ upright \in Nat /\ biasReady \in BOOLEAN
  /\ reinit \in [active : BOOLEAN, done : BOOLEAN, count : Nat]

(* Every state but that of the calibration, and of a stop, knows the bias. *)
BiasKnown == state \notin {"STARTUP_GYRO_CALIB", "ESTOP"} => biasReady

(* Until the attitude is made anew, the start sync is in its first step, and what
   it counted are the upright samples in a row. *)
Averages ==
  state = "START_SYNC" /\ ~reinit.done =>
    reinit.active /\ syncStep = 1 /\ stepAge \in Nat /\ upright = reinit.count

MadeAnew ==
  state \in {"START_SYNC", "RUNNING"} /\ reinit.done => upright >= MinSamples /\ ThisAttitude

(* In a measurement the angle is of that attitude and from its zero. *)
AngleOfRun ==
  state = "RUNNING" => reinit.done /\ zero = run /\ angle = [of |-> run, from |-> run]

AttInv == /\ Typed /\ BiasKnown /\ Averages /\ MadeAnew /\ AngleOfRun
          /\ motor => state = "RUNNING"

-----------------------------------------------------------------------------

LEMMA InitAtt == AttInit => AttInv
<1> SUFFICES ASSUME AttInit PROVE AttInv
  OBVIOUS
<1>1. /\ state = "STARTUP_GYRO_CALIB" /\ run = 0 /\ upright = 0 /\ biasReady = FALSE /\ motor = FALSE
      /\ reinit = [active |-> FALSE, done |-> FALSE, count |-> 0]
  BY DEF AttInit, Init
<1>2. Typed
  BY <1>1 DEF Typed
<1> QED BY <1>1, <1>2 DEF AttInv, BiasKnown, Averages, MadeAnew, AngleOfRun

(* What an update makes of the attitude when it does not make it anew. *)
LEMMA Kept ==
  ASSUME NEW sample \in Samples, NEW falling \in BOOLEAN, Estimate(sample, falling),
         biasReady' = biasReady, reinit'.done => reinit.done, att.init
  PROVE  att' = att /\ Filtered(sample, falling) = att
BY DEF Estimate, ReinitEnds, Calibrated, CalibrationEnds, Filtered

(* The samples counted and the upright samples in a row are the same number. *)
LEMMA Counted ==
  ASSUME AttInv, state = "START_SYNC", ~reinit.done, NEW sample \in Samples, Watch(sample)
  PROVE  upright' = Count(sample) /\ Count(sample) \in Nat /\ Averaging
BY ExperimentAssumption
DEF AttInv, Typed, Averages, Watch, Count, Averaging, Samples, Least

(* While the average goes on, the first step of the pattern does. *)
LEMMA FirstStep ==
  ASSUME AttInv, state = "START_SYNC", ~reinit.done, NEW gap \in Gaps, ~ReinitDue(gap)
  PROVE  ~StepOver(StartPattern, gap)
<1>1. stepAge + gap < ReinitTime /\ syncStep = 1 /\ stepAge \in Nat /\ gap \in Nat
  BY ExperimentAssumption DEF AttInv, Averages, ReinitDue, Averaging, Gaps
<1> DEFINE PatternStep == [on : BOOLEAN, duration : Nat \ {0}]
<1>2. StartPattern \in Seq(PatternStep) /\ Len(StartPattern) > 0
  BY ExperimentAssumption DEF IsPattern
<1> HIDE DEF PatternStep
<1>3. 1 \in 1 .. Len(StartPattern) /\ StartPattern[1] \in PatternStep
  BY <1>2
<1>4. StartPattern[1].duration \in Nat
  BY <1>3 DEF PatternStep
<1>5. ReinitTime <= StartPattern[1].duration /\ ReinitTime \in Nat
  BY <1>4, ExperimentAssumption
<1> QED BY <1>1, <1>3, <1>4, <1>5 DEF StepOver

(* A step of the start sync, whether the measurement begins with it or not. *)
LEMMA Synced ==
  ASSUME AttInv, state = "START_SYNC", NEW gap \in Gaps, NEW sample \in Samples,
         NEW falling \in BOOLEAN, Reinit(gap, sample), Estimate(sample, falling),
         UNCHANGED <<biasReady, run>>
  PROVE  /\ reinit' \in [active : BOOLEAN, done : BOOLEAN, count : Nat] /\ upright' \in Nat
         /\ reinit'.done => upright' >= MinSamples /\ ThisAttitude'
         /\ ~reinit'.done => /\ ~reinit.done /\ reinit'.active /\ ~ReinitDue(gap)
                             /\ upright' = reinit'.count
<1>0. Typed /\ biasReady
  BY DEF AttInv, BiasKnown
<1>1. CASE reinit.done
  <2>1. reinit' = reinit /\ upright' = upright
    BY <1>0, <1>1 DEF Reinit, Watch, Averaging, Typed, Samples
  <2>2. upright >= MinSamples /\ ThisAttitude
    BY <1>1 DEF AttInv, MadeAnew
  <2>3. att' = att
    BY <1>1, <2>2, Kept DEF ThisAttitude
  <2> QED BY <1>0, <1>1, <2>1, <2>2, <2>3 DEF Typed, ThisAttitude
<1>2. CASE ~reinit.done
  <2>1. Averaging /\ upright' = Count(sample) /\ Count(sample) \in Nat
    BY <1>2, Counted DEF Reinit
  <2>2. reinit' = [active |-> ~ReinitDue(gap), done |-> ReinitDue(gap), count |-> Count(sample)]
    BY <2>1 DEF Reinit
  <2>3. CASE ReinitDue(gap)
    <3>1. reinit'.done /\ reinit'.count = Count(sample)
      BY <2>2, <2>3
    <3>2. Count(sample) >= MinSamples
      BY <2>1, <2>3, ExperimentAssumption DEF Reinit, NotUpright
    <3>3. ThisAttitude'
      BY <1>0, <1>2, <3>1 DEF Estimate, ReinitEnds, MadeIn, ThisAttitude
    <3> QED BY <2>1, <2>2, <2>3, <3>1, <3>2, <3>3
  <2>4. CASE ~ReinitDue(gap)
    <3>1. ~reinit'.done /\ reinit'.active /\ reinit'.count = Count(sample)
      BY <2>2, <2>4
    <3>2. ReinitDue(gap) \in BOOLEAN
      BY <2>1 DEF ReinitDue
    <3> QED BY <1>2, <2>1, <2>2, <2>4, <3>1, <3>2
  <2> QED BY <2>3, <2>4
<1> QED BY <1>1, <1>2

LEMMA UpdateAtt ==
  ASSUME AttInv, NEW gap \in Gaps, NEW sample \in Samples, NEW falling \in BOOLEAN,
         AttUpdate(gap, sample, falling)
  PROVE  AttInv'
<1>0. /\ Typed /\ Update(gap, sample) /\ Estimate(sample, falling)
      /\ TakeZero /\ ShowAngle(sample, falling)
  BY DEF AttInv, AttUpdate
<1>1. CASE Calibrate(gap, sample) \/ Settle(gap) \/ Rest(gap)
  <2>1. /\ UNCHANGED <<run, reinit, upright>> /\ ~motor' /\ biasReady' \in BOOLEAN
        /\ state' \notin {"START_SYNC", "RUNNING"}
    BY <1>0, <1>1 DEF Calibrate, Settle, Rest, IdleOutputs, Typed
  <2>2. BiasKnown'
    BY <1>1 DEF Calibrate, Settle, Rest, AttInv, BiasKnown
  <2> QED BY <1>0, <2>1, <2>2 DEF AttInv, Typed, Averages, MadeAnew, AngleOfRun
<1>2. CASE StartSyncStops(gap, sample)
  <2>1. /\ state = "START_SYNC" /\ state' = "ESTOP" /\ ~motor' /\ UNCHANGED <<biasReady, run>>
        /\ reinit' = [active |-> FALSE, done |-> FALSE, count |-> Count(sample)]
        /\ Watch(sample) /\ ReinitDue(gap)
    BY <1>2 DEF StartSyncStops, Estop, NotUpright
  <2>2. ~reinit.done
    BY <2>1 DEF ReinitDue, Averaging
  <2>3. Count(sample) \in Nat /\ upright' \in Nat
    BY <2>1, <2>2, Counted
  <2> QED BY <1>0, <2>1, <2>3 DEF AttInv, Typed, BiasKnown, Averages, MadeAnew, AngleOfRun
<1>3. CASE StartSync(gap, sample)
  <2>1. /\ state = "START_SYNC" /\ state' = "START_SYNC" /\ UNCHANGED <<biasReady, run>> /\ ~motor'
        /\ Reinit(gap, sample) /\ Steps(StartPattern, gap)
    BY <1>3 DEF StartSync, PatternGoesOn
  <2>2. ~reinit'.done => syncStep' = 1 /\ stepAge' \in Nat
    <3>1. SUFFICES ASSUME ~reinit'.done PROVE syncStep' = 1 /\ stepAge' \in Nat
      OBVIOUS
    <3>2. ~reinit.done /\ ~ReinitDue(gap)
      BY <1>0, <2>1, <3>1, Synced
    <3>3. ~StepOver(StartPattern, gap)
      BY <2>1, <3>2, FirstStep
    <3>4. syncStep = 1 /\ stepAge \in Nat /\ gap \in Nat
      BY <2>1, <3>2, ExperimentAssumption DEF AttInv, Averages, Gaps
    <3> QED BY <2>1, <3>3, <3>4 DEF Steps
  <2> QED BY <1>0, <2>1, <2>2, Synced
      DEF AttInv, Typed, BiasKnown, Averages, MadeAnew, AngleOfRun
<1>4. CASE BeginMeasurement(gap, sample)
  <2>1. /\ state = "START_SYNC" /\ state' = "RUNNING" /\ UNCHANGED <<biasReady, run>>
        /\ Reinit(gap, sample) /\ StepOver(StartPattern, gap) /\ MeasurementBegins
    BY <1>4 DEF BeginMeasurement, PatternOver, MeasurementBegins
  <2>2. reinit'.done
    <3>1. SUFFICES ASSUME ~reinit'.done PROVE FALSE
      OBVIOUS
    <3>2. ~reinit.done /\ ~ReinitDue(gap)
      BY <1>0, <2>1, <3>1, Synced
    <3> QED BY <2>1, <3>2, FirstStep
  <2>3. /\ reinit' \in [active : BOOLEAN, done : BOOLEAN, count : Nat] /\ upright' \in Nat
        /\ upright' >= MinSamples /\ ThisAttitude'
    BY <1>0, <2>1, <2>2, Synced
  <2>4. zero' = run' /\ angle' = [of |-> run', from |-> run']
    BY <1>0, <2>1, <2>3 DEF TakeZero, ShowAngle, ThisAttitude
  <2> QED BY <1>0, <2>1, <2>2, <2>3, <2>4
      DEF AttInv, Typed, BiasKnown, Averages, MadeAnew, AngleOfRun
<1>5. CASE Measure(gap)
  <2>1. /\ state = "RUNNING" /\ state' = "RUNNING" /\ UNCHANGED <<biasReady, run, reinit, upright>>
        /\ ~MeasurementBegins
    BY <1>5 DEF Measure, MeasurementBegins
  <2>2. /\ reinit.done /\ upright >= MinSamples /\ ThisAttitude
        /\ zero = run /\ angle = [of |-> run, from |-> run]
    BY <2>1 DEF AttInv, AngleOfRun, MadeAnew
  <2>3. att' = att /\ Filtered(sample, falling) = att
    BY <1>0, <2>1, <2>2, Kept DEF ThisAttitude
  <2>4. zero' = zero /\ angle' = angle
    BY <1>0, <2>1, <2>2, <2>3 DEF TakeZero, ShowAngle, ThisAttitude, Samples
  <2> QED BY <1>0, <2>1, <2>2, <2>3, <2>4
      DEF AttInv, Typed, BiasKnown, Averages, MadeAnew, AngleOfRun, ThisAttitude
<1>6. CASE FinishRun(gap) \/ EndSync(gap) \/ Finish(gap)
  <2>1. /\ state' \in {"END_SYNC", "FINISHED"} /\ ~motor' /\ state \in {"RUNNING", "END_SYNC"}
        /\ UNCHANGED <<biasReady, run, reinit, upright>>
    BY <1>6 DEF FinishRun, EndSync, Finish, PatternGoesOn
  <2> QED BY <1>0, <2>1 DEF AttInv, Typed, BiasKnown, Averages, MadeAnew, AngleOfRun
<1> QED BY <1>0, <1>1, <1>2, <1>3, <1>4, <1>5, <1>6 DEF Update

LEMMA NextAtt == AttInv /\ [AttNext]_attVars => AttInv'
<1> SUFFICES ASSUME AttInv, [AttNext]_attVars PROVE AttInv'
  OBVIOUS
<1>1. CASE AttUpdates
  BY <1>1, UpdateAtt DEF AttUpdates
<1>2. CASE AttStop
  BY <1>2 DEF AttStop, RequestEmergencyStop, Estop, startupVars, AttInv, Typed, BiasKnown, Averages,
              MadeAnew, AngleOfRun
<1>3. CASE AttClear
  <2>1. /\ ~motor' /\ state' \notin {"START_SYNC", "RUNNING"} /\ (biasReady \/ state' = "STARTUP_GYRO_CALIB")
        /\ UNCHANGED <<biasReady, run, reinit, upright>>
    BY <1>3 DEF AttClear, Clear, Running, startupVars, AttInv
  <2> QED BY <2>1 DEF AttInv, Typed, BiasKnown, Averages, MadeAnew, AngleOfRun
<1>4. CASE AttStart
  <2>1. /\ state \in {"READY_TO_MEASURE", "FINISHED"} /\ state' = "START_SYNC" /\ ~motor'
        /\ run' = run + 1 /\ upright' = 0 /\ syncStep' = 1 /\ stepAge' = 0
        /\ reinit' = [active |-> TRUE, done |-> FALSE, count |-> 0] /\ biasReady' = biasReady
    BY <1>4 DEF AttStart, Start, startupVars
  <2>2. reinit'.active /\ ~reinit'.done /\ reinit'.count = 0
    BY <2>1
  <2> QED BY <2>1, <2>2 DEF AttInv, Typed, BiasKnown, Averages, MadeAnew, AngleOfRun
<1>5. CASE UNCHANGED attVars
  BY <1>5 DEF attVars, vars, startupVars, syncVars, attitudeVars, AttInv, Typed, BiasKnown, Averages,
              MadeAnew, AngleOfRun, ThisAttitude
<1> QED BY <1>1, <1>2, <1>3, <1>4, <1>5 DEF AttNext

(* The motor is asked for current only in a measurement whose attitude this run
   made anew from enough upright samples in a row, and whose angle is of that
   attitude and from its zero: updateStartSync, beginMeasurementRun,
   updateDisplayedAngles and every path out of a measurement. *)
THEOREM MotorUpright == AttSpec => []MotorOnThisAttitude
<1>1. AttInv => MotorOnThisAttitude
  BY DEF AttInv, BiasKnown, MadeAnew, AngleOfRun, ThisAttitude, MotorOnThisAttitude, MotorOnlyWhenUpright
<1>2. AttInit => AttInv
  BY InitAtt
<1>3. AttInv /\ [AttNext]_attVars => AttInv'
  BY NextAtt
<1> QED BY <1>1, <1>2, <1>3, PTL DEF AttSpec

-----------------------------------------------------------------------------
(* The accelerometer's weight in a measurement: it is the ceiling until the first
   pulse, and after a pulse it is known for how long the motor has been off. *)
BetaInv ==
  /\ motor \in BOOLEAN /\ beta \in Nat /\ quiet \in 0 .. BetaHold /\ pulseEnd \in Nat \cup {None}
  /\ state = "RUNNING" /\ pulseEnd = None /\ ~motor => beta = BetaCeiling
  /\ state = "RUNNING" /\ pulseEnd # None /\ ~motor => quiet >= Least(pulseEnd, BetaHold)

(* A weight is never negative. *)
LEMMA WeightType ==
  ASSUME BetaInv, NEW gap \in Gaps, NEW sample \in Samples
  PROVE  Weight(gap, sample) \in Nat
<1>1. Ceiling \in Nat /\ IdleCeiling \in Nat \ {0} /\ beta \in Nat
  BY AttitudeAssumption DEF Ceiling, BetaInv
<1>2. CASE Protected(gap) \/ sample = "none" \/ beta >= Ceiling
  BY <1>1, <1>2 DEF Weight, Samples
<1>3. CASE ~Protected(gap) /\ sample # "none" /\ beta < Ceiling
  <2>1. Weight(gap, sample) = Recovering(gap)
    BY <1>1, <1>3 DEF Weight
  <2>2. CASE pulseEnd = None
    BY <1>1, <2>1, <2>2 DEF Recovering
  <2>3. CASE pulseEnd # None
    <3> DEFINE t == pulseEnd + gap - BetaHold
    <3>1. t \in Nat /\ SoftStart \in Nat \ {0}
      BY <1>3, <2>3, ExperimentAssumption, AttitudeAssumption DEF Protected, BetaInv, Gaps
    <3>2. Ramp(t) \in Nat
      <4> HIDE DEF t
      <4>1. t * t \in Nat /\ 2 * SoftStart \in Nat \ {0}
        BY <3>1
      <4>2. (t * t) \div (2 * SoftStart) \in Nat
        <5> DEFINE a == t * t
                   b == 2 * SoftStart
        <5>1. a \in Nat /\ b \in Nat \ {0}
          BY <4>1
        <5> HIDE DEF a, b
        <5>2. a \div b \in Nat
          BY <5>1
        <5> QED BY <5>2 DEF a, b
      <4> QED BY <3>1, <4>2 DEF Ramp
    <3>3. (Ramp(t) * Ceiling) \div IdleCeiling \in Nat
      <4> DEFINE a == Ramp(t) * Ceiling
      <4>1. a \in Nat
        BY <1>1, <3>2
      <4> HIDE DEF a
      <4>2. a \div IdleCeiling \in Nat
        BY <1>1, <4>1
      <4> QED BY <4>2 DEF a
    <3>4. Recovering(gap) = Least((Ramp(t) * Ceiling) \div IdleCeiling, Ceiling)
      BY <2>3 DEF Recovering
    <3> QED BY <1>1, <2>1, <3>3, <3>4 DEF Least
  <2> QED BY <2>2, <2>3
<1> QED BY <1>1, <1>2, <1>3

(* In a measurement the weight rises only when the motor has been off for the hold:
   the times of the pulse's end and of the motor's rest agree. *)
LEMMA MeasureBeta ==
  ASSUME BetaInv, NEW gap \in Gaps, NEW sample \in Samples,
         state = "RUNNING", ~MeasurementBegins, Weigh(gap, sample), Quiet(gap)
  PROVE  beta' > beta => ~motor /\ quiet' = BetaHold
<1> SUFFICES ASSUME beta' > beta PROVE ~motor /\ quiet' = BetaHold
  OBVIOUS
<1>1. beta' = Weight(gap, sample) /\ beta \in Nat /\ Ceiling = BetaCeiling /\ BetaCeiling \in Nat
  BY AttitudeAssumption DEF Weigh, Ceiling, BetaInv
<1>2. ~Protected(gap) /\ sample # "none" /\ beta < BetaCeiling
  BY <1>1 DEF Weight, Samples
<1>3. ~motor /\ pulseEnd # None /\ pulseEnd \in Nat
  BY <1>1, <1>2 DEF Protected, BetaInv
<1>4. pulseEnd + gap >= BetaHold
  BY <1>2, <1>3, ExperimentAssumption, AttitudeAssumption DEF Protected, Gaps
<1>5. quiet >= Least(pulseEnd, BetaHold)
  BY <1>3 DEF BetaInv
<1> QED BY <1>3, <1>4, <1>5, ExperimentAssumption, AttitudeAssumption
        DEF Quiet, Least, BetaInv, Gaps

LEMMA UpdateBeta ==
  ASSUME BetaInv, NEW gap \in Gaps, NEW sample \in Samples,
         Update(gap, sample), Weigh(gap, sample), NoteEnd(gap), Quiet(gap)
  PROVE  BetaInv'
<1>1. gap \in Nat \ {0} /\ BetaHold \in Nat /\ RampEnd \in Nat /\ RampEnd >= BetaHold
      /\ BetaCeiling \in Nat
  BY ExperimentAssumption, AttitudeAssumption DEF Gaps, RampEnd
<1>2. beta' \in Nat /\ motor' \in BOOLEAN
  <2>1. beta' \in Nat
    BY <1>1, WeightType DEF Weigh
  <2>2. motor' \in BOOLEAN
    BY DEF Update, Calibrate, Settle, Rest, IdleOutputs, StartSyncStops, Estop, StartSync,
           PatternGoesOn, BeginMeasurement, Measure, FinishRun, EndSync, Finish
  <2> QED BY <2>1, <2>2
<1>3. quiet' \in 0 .. BetaHold
  BY <1>1 DEF Quiet, Least, BetaInv
<1>4. pulseEnd' \in Nat \cup {None}
  BY <1>1 DEF NoteEnd, Since, Least, BetaInv, None
<1>5. CASE MeasurementBegins
  <2>1. pulseEnd' = None /\ beta' = BetaCeiling
    BY <1>5 DEF Weigh, NoteEnd, MeasurementBegins, PulseEnds
  <2> QED BY <1>2, <1>3, <1>4, <2>1 DEF BetaInv
<1>6. CASE state' # "RUNNING"
  BY <1>2, <1>3, <1>4, <1>6 DEF BetaInv
<1>7. CASE ~MeasurementBegins /\ state' = "RUNNING"
  <2>1. state = "RUNNING"
    BY <1>7 DEF Update, Calibrate, Settle, Rest, StartSyncStops, Estop, StartSync, PatternGoesOn,
                BeginMeasurement, Measure, FinishRun, EndSync, Finish, MeasurementBegins
  <2>2. CASE motor /\ ~motor'
    <3>1. pulseEnd' = 0 /\ quiet' = 0
      BY <1>7, <2>1, <2>2 DEF NoteEnd, PulseEnds, Quiet
    <3> QED BY <1>1, <1>2, <1>3, <1>4, <3>1 DEF BetaInv, Least, None
  <2>3. CASE motor'
    BY <1>2, <1>3, <1>4, <2>3 DEF BetaInv
  <2>4. CASE ~motor /\ ~motor'
    <3>1. pulseEnd' = Since(pulseEnd, gap, RampEnd) /\ quiet' = Least(quiet + gap, BetaHold)
      BY <1>7, <2>4 DEF NoteEnd, PulseEnds, Quiet
    <3>2. CASE pulseEnd = None
      <4>1. beta = BetaCeiling /\ Ceiling = BetaCeiling
        BY <2>1, <2>4, <3>2 DEF BetaInv, Ceiling
      <4>2. ~Protected(gap)
        BY <2>4, <3>2 DEF Protected
      <4>3. beta' = BetaCeiling
        BY <1>1, <1>7, <4>1, <4>2 DEF Weigh, Weight, Samples
      <4> QED BY <1>2, <1>3, <1>4, <3>1, <3>2, <4>3 DEF BetaInv, Since
    <3>3. CASE pulseEnd # None
      <4>1. quiet >= Least(pulseEnd, BetaHold) /\ pulseEnd \in Nat /\ quiet \in Nat
        BY <1>1, <2>1, <2>4, <3>3 DEF BetaInv
      <4>2. pulseEnd' = Least(pulseEnd + gap, RampEnd) /\ pulseEnd' # None
        BY <1>1, <3>1, <3>3, <4>1 DEF Since, Least, None
      <4>3. quiet' >= Least(pulseEnd', BetaHold)
        BY <1>1, <3>1, <4>1, <4>2 DEF Least
      <4> QED BY <1>2, <1>3, <1>4, <4>2, <4>3 DEF BetaInv
    <3> QED BY <3>2, <3>3
  <2> QED BY <2>2, <2>3, <2>4
<1> QED BY <1>5, <1>6, <1>7

(* In a measurement the weight of the accelerometer does not rise while the motor is
   on, nor for the hold after it: updateFilterSeries, stopActivePulse. *)
THEOREM BetaCorrect == AttSpec => BetaHeld
<1>1. AttInit => BetaInv
  <2> SUFFICES ASSUME AttInit PROVE BetaInv
    OBVIOUS
  <2>1. /\ beta = IdleCeiling /\ pulseEnd = None /\ quiet = BetaHold
        /\ state = "STARTUP_GYRO_CALIB" /\ motor = FALSE
    BY DEF AttInit, Init
  <2>2. IdleCeiling \in Nat /\ BetaHold \in 0 .. BetaHold
    BY AttitudeAssumption
  <2> QED BY <2>1, <2>2 DEF BetaInv
<1>2. BetaInv /\ [AttNext]_attVars => BetaInv'
  <2> SUFFICES ASSUME BetaInv, [AttNext]_attVars PROVE BetaInv'
    OBVIOUS
  <2>1. CASE AttUpdates
    BY <2>1, UpdateBeta DEF AttUpdates, AttUpdate
  <2>2. CASE AttStop
    BY <2>2 DEF AttStop, RequestEmergencyStop, Estop, BetaInv
  <2>3. CASE AttClear
    BY <2>3 DEF AttClear, Clear, betaVars, BetaInv
  <2>4. CASE AttStart
    BY <2>4 DEF AttStart, Start, BetaInv
  <2>5. CASE UNCHANGED attVars
    BY <2>5 DEF attVars, vars, betaVars, BetaInv, Least
  <2> QED BY <2>1, <2>2, <2>3, <2>4, <2>5 DEF AttNext
<1>3. BetaInv /\ [AttNext]_attVars =>
        (state = "RUNNING" /\ state' = "RUNNING" /\ beta' > beta => ~motor /\ quiet' = BetaHold)
  <2> SUFFICES ASSUME BetaInv, [AttNext]_attVars, state = "RUNNING", state' = "RUNNING", beta' > beta
               PROVE  ~motor /\ quiet' = BetaHold
    OBVIOUS
  <2>1. beta \in Nat
    BY DEF BetaInv
  <2>2. CASE AttUpdates
    <3> PICK gap \in Gaps, sample \in Samples, falling \in BOOLEAN : AttUpdate(gap, sample, falling)
      BY <2>2 DEF AttUpdates
    <3>1. ~MeasurementBegins
      BY DEF MeasurementBegins
    <3> QED BY <3>1, MeasureBeta DEF AttUpdate
  <2>3. CASE beta' = beta
    BY <2>1, <2>3
  <2> QED BY <2>2, <2>3 DEF AttNext, AttStop, AttClear, betaVars, AttStart, attVars
<1> QED BY <1>1, <1>2, <1>3, PTL DEF AttSpec, BetaHeld

-----------------------------------------------------------------------------
(* Induction, and what the recursive definitions compute. *)

(* What holds of 0, and of n + 1 when of n, holds of every number. *)
LEMMA NatInductive ==
  ASSUME NEW S, 0 \in S, \A n \in Nat : n \in S => n + 1 \in S
  PROVE  Nat \subseteq S
<1> SUFFICES ASSUME Nat \ S # {} PROVE FALSE
  OBVIOUS
<1> DEFINE R == {ss \in Nat \X Nat : ss[1] < ss[2]}
<1>1. IsWellFoundedOn(R, Nat)
  BY NatLessThanWellFounded, Zenon DEF OpToRel
<1>2. PICK x \in Nat \ S : \A y \in Nat \ S : ~(<<y, x>> \in R)
  BY <1>1, WFMin
<1>3. \A y \in Nat \ S : ~(y < x)
  BY <1>2
<1> QED BY <1>3

PatternStep == [on : BOOLEAN, duration : Nat \ {0}]

(* Each step of a pattern lasts. *)
LEMMA Durations ==
  ASSUME NEW p, IsPattern(p)
  PROVE  Len(p) \in Nat \ {0} /\ \A k \in 1 .. Len(p) : p[k].duration \in Nat \ {0} /\ p[k].on \in BOOLEAN
<1>1. p \in Seq(PatternStep) /\ Len(p) > 0
  BY DEF IsPattern, PatternStep
<1>2. \A k \in 1 .. Len(p) : p[k] \in PatternStep
  BY <1>1
<1> QED BY <1>1, <1>2 DEF PatternStep

(* The function that counts e from c on, from a to b. *)
Counter(a, b, c, e) == CHOOSE f : f = [i \in a .. b |-> IF i = a THEN c ELSE f[i - 1] + e[i]]

(* There is such a function: the sum up to b from that up to b - 1. *)
LEMMA Counting ==
  ASSUME NEW a \in Int, NEW b \in Int, a <= b, NEW c \in Int, NEW e
  PROVE  /\ Counter(a, b, c, e) = [i \in a .. b |-> Counter(a, b, c, e)[i]]
         /\ Counter(a, b, c, e)[a] = c
         /\ \A i \in a + 1 .. b : Counter(a, b, c, e)[i] = Counter(a, b, c, e)[i - 1] + e[i]
<1> DEFINE Sum(m, g) == g = [i \in a .. a + m |-> IF i = a THEN c ELSE g[i - 1] + e[i]]
           S == {m \in Nat : \E g : Sum(m, g)}
<1>1. 0 \in S
  <2>1. Sum(0, [i \in a .. a |-> c])
    OBVIOUS
  <2> QED BY <2>1
<1>2. ASSUME NEW m \in Nat, m \in S PROVE m + 1 \in S
  <2>1. PICK g : Sum(m, g)
    BY <1>2
  <2> DEFINE h == [i \in a .. a + (m + 1) |-> IF i = a + (m + 1) THEN g[a + m] + e[i] ELSE g[i]]
  <2>2. \A i \in a .. a + m : h[i] = g[i]
    OBVIOUS
  <2>3. \A i \in a .. a + (m + 1) : h[i] = IF i = a THEN c ELSE h[i - 1] + e[i]
    <3> SUFFICES ASSUME NEW i \in a .. a + (m + 1)
                 PROVE  h[i] = IF i = a THEN c ELSE h[i - 1] + e[i]
      OBVIOUS
    <3>1. CASE i = a + (m + 1)
      BY <2>2, <3>1
    <3>2. CASE i # a + (m + 1)
      <4>1. i \in a .. a + m /\ (i # a => i - 1 \in a .. a + m)
        BY <3>2
      <4>2. g[i] = IF i = a THEN c ELSE g[i - 1] + e[i]
        BY <2>1, <4>1
      <4> QED BY <2>2, <4>1, <4>2
    <3> QED BY <3>1, <3>2
  <2>4. Sum(m + 1, h)
    BY <2>3
  <2> HIDE DEF h, Sum
  <2> QED BY <2>4
<1>3. Nat \subseteq S
  <2> HIDE DEF S
  <2> QED BY <1>1, <1>2, NatInductive
<1>4. \E g : Sum(b - a, g)
  <2> HIDE DEF Sum
  <2> QED BY <1>3
<1>5. a + (b - a) = b
  OBVIOUS
<1> DEFINE g == Counter(a, b, c, e)
<1>6. g = [i \in a .. b |-> IF i = a THEN c ELSE g[i - 1] + e[i]]
  BY <1>4, <1>5 DEF Counter
<1> HIDE DEF g
<1>7. /\ g = [i \in a .. b |-> g[i]] /\ g[a] = c
      /\ \A i \in a + 1 .. b : g[i] = g[i - 1] + e[i]
  BY <1>6
<1> QED BY <1>7 DEF g

(* The steps of a pattern are over one after the other. *)
LEMMA OverIs ==
  ASSUME NEW p, IsPattern(p)
  PROVE  /\ Over(p)[0] = 0
         /\ \A k \in 1 .. Len(p) : Over(p)[k] = Over(p)[k - 1] + p[k].duration
<1> DEFINE Is(f) == f = [i \in 0 .. Len(p) |-> IF i = 0 THEN 0 ELSE f[i - 1] + p[i].duration]
           e == [i \in 0 .. Len(p) |-> p[i].duration]
<1>1. Len(p) \in Nat
  BY Durations
<1> DEFINE f == Counter(0, Len(p), 0, e)
<1>2. /\ f = [i \in 0 .. Len(p) |-> f[i]] /\ f[0] = 0
      /\ \A i \in 0 + 1 .. Len(p) : f[i] = f[i - 1] + e[i]
  <2> HIDE DEF e
  <2>1. ASSUME NEW a \in Int, NEW c \in Int, a <= Len(p)
        PROVE  /\ Counter(a, Len(p), c, e) = [i \in a .. Len(p) |-> Counter(a, Len(p), c, e)[i]]
               /\ Counter(a, Len(p), c, e)[a] = c
               /\ \A i \in a + 1 .. Len(p) : Counter(a, Len(p), c, e)[i] = Counter(a, Len(p), c, e)[i - 1] + e[i]
    BY <1>1, <2>1, Counting
  <2> QED BY <1>1, <2>1
<1>3. Is(f)
  <2> HIDE DEF f
  <2> QED BY <1>1, <1>2
<1>4. Over(p) = [i \in 0 .. Len(p) |-> IF i = 0 THEN 0 ELSE Over(p)[i - 1] + p[i].duration]
  BY <1>3 DEF Over
<1> QED BY <1>1, <1>4

LEMMA OverType ==
  ASSUME NEW p, IsPattern(p)
  PROVE  \A k \in 0 .. Len(p) : Over(p)[k] \in Nat
<1> DEFINE S == {k \in Nat : k <= Len(p) => Over(p)[k] \in Nat}
<1>1. 0 \in S
  BY OverIs
<1>2. ASSUME NEW k \in Nat, k \in S PROVE k + 1 \in S
  BY <1>2, OverIs, Durations
<1>3. Nat \subseteq S
  <2> HIDE DEF S
  <2> QED BY <1>1, <1>2, NatInductive
<1> QED BY <1>3, Durations

LEMMA OverGrows ==
  ASSUME NEW p, IsPattern(p)
  PROVE  \A j \in 0 .. Len(p), k \in 0 .. Len(p) : j <= k => Over(p)[j] <= Over(p)[k]
<1> SUFFICES ASSUME NEW j \in 0 .. Len(p)
             PROVE  \A k \in 0 .. Len(p) : j <= k => Over(p)[j] <= Over(p)[k]
  OBVIOUS
<1> DEFINE S == {k \in Nat : j <= k /\ k <= Len(p) => Over(p)[j] <= Over(p)[k]}
<1>o. /\ Len(p) \in Nat \ {0} /\ \A i \in 1 .. Len(p) : p[i].duration \in Nat
      /\ \A i \in 0 .. Len(p) : Over(p)[i] \in Nat
      /\ \A i \in 1 .. Len(p) : Over(p)[i] = Over(p)[i - 1] + p[i].duration
  BY Durations, OverIs, OverType
<1>1. 0 \in S
  BY <1>o
<1>2. ASSUME NEW k \in Nat, k \in S PROVE k + 1 \in S
  BY <1>2, <1>o
<1>3. Nat \subseteq S
  <2> HIDE DEF S
  <2> QED BY <1>1, <1>2, NatInductive
<1> QED BY <1>3, <1>o

(* updateSyncPattern's loop loses no time: the steps over and the time in the step
   reached are the time since the pattern began. *)
LEMMA AdvanceIs ==
  ASSUME NEW p, IsPattern(p), NEW k \in 1 .. Len(p), NEW t \in Nat
  PROVE  LET a == Advance(p, k, t)
         IN  /\ a.step \in k .. Len(p) + 1 /\ a.since \in 0 .. t
             /\ Over(p)[a.step - 1] + a.since = Over(p)[k - 1] + t
             /\ a.step <= Len(p) => a.since < p[a.step].duration
             /\ t >= p[k].duration => a.step > k /\ a.since <= t - p[k].duration
<1> DEFINE Is(f) == f = [j \in k .. Len(p) + 1 |-> IF j = k THEN t ELSE f[j - 1] - p[j - 1].duration]
           left == CHOOSE f : Is(f)
           Lasts(j) == j > Len(p) \/ left[j] < p[j].duration
           First(j) == Lasts(j) /\ \A i \in k .. j - 1 : ~Lasts(i)
           reached == CHOOSE j \in k .. Len(p) + 1 : First(j)
<1>a. Advance(p, k, t) = [step |-> reached, since |-> left[reached]]
  BY DEF Advance
<1>d. Len(p) \in Nat \ {0} /\ \A j \in 1 .. Len(p) : p[j].duration \in Nat \ {0}
  BY Durations
<1>o. /\ \A j \in 0 .. Len(p) : Over(p)[j] \in Nat
      /\ \A j \in 1 .. Len(p) : Over(p)[j] = Over(p)[j - 1] + p[j].duration
  BY OverIs, OverType
<1>1. Is(left)
  <2> DEFINE e == [j \in k .. Len(p) + 1 |-> -p[j - 1].duration]
  <2> DEFINE f == Counter(k, Len(p) + 1, t, e)
  <2>1. /\ f = [j \in k .. Len(p) + 1 |-> f[j]] /\ f[k] = t
        /\ \A j \in k + 1 .. Len(p) + 1 : f[j] = f[j - 1] + e[j]
    <3>1. k \in Int /\ Len(p) + 1 \in Int /\ k <= Len(p) + 1
      BY <1>d
    <3> HIDE DEF e
    <3> QED BY <3>1, Counting, SMTT(30)
  <2> HIDE DEF f
  <2>3. ASSUME NEW j \in k .. Len(p) + 1
        PROVE  f[j] = IF j = k THEN t ELSE f[j - 1] - p[j - 1].duration
    <3>1. e[j] = -p[j - 1].duration
      OBVIOUS
    <3>2. CASE j = k
      BY <2>1, <3>2
    <3>3. CASE j # k
      <4>1. j \in k + 1 .. Len(p) + 1
        BY <1>d, <3>3
      <4>2. f[j] = f[j - 1] + e[j]
        BY <2>1, <4>1
      <4> QED BY <3>1, <3>3, <4>2
    <3> QED BY <3>2, <3>3
  <2>4. Is(f)
    BY <2>1, <2>3
  <2> HIDE DEF Is
  <2> QED BY <2>4
<1>2. ASSUME NEW j \in k .. Len(p) + 1
      PROVE  left[j] = IF j = k THEN t ELSE left[j - 1] - p[j - 1].duration
  BY <1>1
<1> HIDE DEF left
<1>3. \A j \in k .. Len(p) + 1 : left[j] \in Int /\ Over(p)[j - 1] + left[j] = Over(p)[k - 1] + t
  <2> DEFINE Sum(j) == left[j] \in Int /\ Over(p)[j - 1] + left[j] = Over(p)[k - 1] + t
             S == {m \in Nat : k + m <= Len(p) + 1 => Sum(k + m)}
  <2>1. k + 0 = k /\ Sum(k)
    <3>1. k \in k .. Len(p) + 1 /\ k + 0 = k /\ k - 1 \in 0 .. Len(p)
      BY <1>d
    <3>2. left[k] = t
      BY <1>2, <3>1
    <3>3. Over(p)[k - 1] \in Nat
      BY <1>o, <3>1
    <3> QED BY <3>1, <3>2, <3>3
  <2>2. ASSUME NEW m \in Nat, k + (m + 1) <= Len(p) + 1, Sum(k + m) PROVE Sum(k + (m + 1))
    <3> DEFINE i == k + m
    <3>1. i \in 1 .. Len(p) /\ i + 1 \in k .. Len(p) + 1 /\ i + 1 # k /\ k + (m + 1) = i + 1
          /\ (i + 1) - 1 = i
      BY <1>d, <2>2, SMTT(30)
    <3>2. Sum(i)
      BY <2>2
    <3> HIDE DEF i
    <3>3. left[i + 1] = left[i] - p[i].duration
      BY <1>2, <3>1
    <3>4. /\ Over(p)[i] = Over(p)[i - 1] + p[i].duration
          /\ Over(p)[i - 1] \in Nat /\ p[i].duration \in Nat
      BY <1>o, <1>d, <3>1
    <3>5. Sum(i + 1)
      BY <3>1, <3>2, <3>3, <3>4
    <3> QED BY <3>1, <3>5
  <2> HIDE DEF Sum
  <2>3. Nat \subseteq S
    <3>1. 0 \in S
      BY <2>1
    <3>2. \A m \in Nat : m \in S => m + 1 \in S
      BY <2>2, <1>d
    <3> HIDE DEF S
    <3> QED BY <3>1, <3>2, NatInductive
  <2>4. ASSUME NEW j \in k .. Len(p) + 1 PROVE Sum(j)
    <3>1. j - k \in Nat /\ k + (j - k) = j /\ j <= Len(p) + 1
      BY <1>d
    <3> QED BY <2>3, <3>1
  <2> QED BY <2>4 DEF Sum
<1>4. \E j \in k .. Len(p) + 1 : First(j)
  <2> HIDE DEF Lasts
  <2> DEFINE S == {m \in Nat : k + m <= Len(p) + 1 => \A i \in k .. k + m : ~Lasts(i)}
  <2> SUFFICES ASSUME \A j \in k .. Len(p) + 1 : ~First(j) PROVE FALSE
    OBVIOUS
  <2>1. 0 \in S
    BY <1>d
  <2>2. ASSUME NEW m \in Nat, m \in S PROVE m + 1 \in S
    BY <1>d, <2>2
  <2>3. Nat \subseteq S
    <3> HIDE DEF S
    <3> QED BY <2>1, <2>2, NatInductive
  <2>4. ~Lasts(Len(p) + 1)
    <3>1. Len(p) + 1 - k \in S /\ k + (Len(p) + 1 - k) = Len(p) + 1
      <4> HIDE DEF S
      <4> QED BY <1>d, <2>3
    <3> QED BY <1>d, <3>1
  <2> QED BY <1>d, <2>4 DEF Lasts
<1>5. reached \in k .. Len(p) + 1 /\ First(reached)
  <2> HIDE DEF First
  <2> QED BY <1>4
<1> HIDE DEF reached
<1>6. reached > k => left[reached] >= 0 /\ left[reached] <= t - p[k].duration
  <2> SUFFICES ASSUME reached > k PROVE left[reached] >= 0 /\ left[reached] <= t - p[k].duration
    OBVIOUS
  <2>1. ~Lasts(reached - 1) /\ reached - 1 \in k .. Len(p)
    BY <1>d, <1>5
  <2>2. left[reached] = left[reached - 1] - p[reached - 1].duration
    BY <1>2, <1>5
  <2>3. left[reached] >= 0
    BY <1>3, <1>d, <2>1, <2>2
  <2>4. Over(p)[k] <= Over(p)[reached - 1]
    BY <1>d, <2>1, OverGrows
  <2>5. Over(p)[reached - 1] + left[reached] = Over(p)[k - 1] + t
    BY <1>3, <1>5
  <2>6. Over(p)[k] = Over(p)[k - 1] + p[k].duration /\ p[k].duration \in Nat
        /\ Over(p)[k] \in Nat /\ Over(p)[k - 1] \in Nat /\ Over(p)[reached - 1] \in Nat
        /\ left[reached] \in Int
    BY <1>o, <1>d, <1>3, <1>5, <2>1, SMTT(30)
  <2>7. \A a, b, c, d, l \in Int : b <= c /\ c + l = a + t /\ b = a + d => l <= t - d
    OBVIOUS
  <2>8. left[reached] <= t - p[k].duration
    BY <2>4, <2>5, <2>6, <2>7, SMTT(30)
  <2> QED BY <2>3, <2>8
<1>7. left[k] = t /\ left[reached] \in Int
      /\ Over(p)[reached - 1] + left[reached] = Over(p)[k - 1] + t
      /\ (reached <= Len(p) => left[reached] < p[reached].duration)
      /\ (t >= p[k].duration => reached > k)
  BY <1>2, <1>3, <1>5, <1>d
<1>8. left[reached] \in 0 .. t
  BY <1>5, <1>6, <1>7, <1>d, SMTT(30)
<1> HIDE DEF First, Lasts
<1> DEFINE r == reached
<1> HIDE DEF r
<1> QED BY <1>a, <1>5, <1>6, <1>7, <1>8

-----------------------------------------------------------------------------
(* The LED of a sync. *)

(* In a sync: the steps over and the time in the present one are the time since the
   sync began. *)
SyncsTo(pattern) ==
  /\ syncStep \in 1 .. Len(pattern)
  /\ stepAge \in Nat /\ stepAge < pattern[syncStep].duration
  /\ age = Over(pattern)[syncStep - 1] + stepAge
  /\ led = pattern[syncStep].on

(* A pattern begins so. *)
LEMMA SyncsToBegin ==
  ASSUME NEW p, IsPattern(p), syncStep' = 1, stepAge' = 0, age' = 0, led' = p[1].on
  PROVE  SyncsTo(p)'
BY Durations, OverIs DEF SyncsTo

(* It stays so, and a step changes only when it is over, to one that began since the
   last update. *)
LEMMA SyncsToOn ==
  ASSUME NEW p, IsPattern(p), PatternTime(p) <= Duration, SyncsTo(p), NEW gap \in Gaps,
         PatternGoesOn(p, gap)
  PROVE  /\ SyncsTo(p)'
         /\ syncStep' = syncStep => stepAge' = stepAge + gap /\ led' = led
         /\ syncStep' # syncStep => stepAge' < gap /\ stepAge + gap >= p[syncStep].duration
<1>1. /\ syncStep \in 1 .. Len(p) /\ stepAge \in Nat /\ gap \in Nat \ {0}
      /\ stepAge < p[syncStep].duration /\ age = Over(p)[syncStep - 1] + stepAge
      /\ led = p[syncStep].on /\ Len(p) \in Nat
  BY ExperimentAssumption, Durations DEF SyncsTo, Gaps
<1>2. Over(p)[Len(p)] <= Duration /\ Duration \in Nat
  BY ExperimentAssumption DEF PatternTime
<1>3. /\ ~PatternOver(p, gap) /\ Steps(p, gap) /\ age' = Least(age + gap, Duration)
      /\ led' = IF syncStep' = syncStep THEN led ELSE p[syncStep'].on
  BY DEF PatternGoesOn
<1>4. ASSUME NEW k \in 1 .. Len(p)
      PROVE  /\ p[k].duration \in Nat \ {0} /\ Over(p)[k] \in Nat /\ Over(p)[k - 1] \in Nat
             /\ Over(p)[k] = Over(p)[k - 1] + p[k].duration
             /\ Over(p)[k] <= Duration
  <2>1. k \in 0 .. Len(p) /\ k - 1 \in 0 .. Len(p) /\ Len(p) \in 0 .. Len(p) /\ k <= Len(p)
    BY <1>1
  <2>2. Over(p)[k] \in Nat /\ Over(p)[k - 1] \in Nat /\ Over(p)[Len(p)] \in Nat
    BY <2>1, OverType
  <2>3. Over(p)[k] <= Over(p)[Len(p)]
    BY <2>1, OverGrows
  <2> QED BY <1>2, <2>2, <2>3, OverIs, Durations
(* The age of the part after this update, when it is reached in step k. *)
<1>5. ASSUME NEW k \in 1 .. Len(p), NEW s \in Nat, Over(p)[k - 1] + s = age + gap, s < p[k].duration
      PROVE  age' = Over(p)[k - 1] + s
  <2> DEFINE o == Over(p)[k - 1]
             d == p[k].duration
  <2>1. o \in Nat /\ d \in Nat /\ o + d <= Duration /\ o + s = age + gap /\ s < d
    BY <1>4, <1>5
  <2> HIDE DEF o, d
  <2>2. age + gap <= Duration
    BY <1>2, <2>1
  <2>3. age' = age + gap
    BY <1>3, <2>2 DEF Least
  <2> QED BY <2>1, <2>3 DEF o
<1>6. CASE ~StepOver(p, gap)
  <2>1. syncStep' = syncStep /\ stepAge' = stepAge + gap /\ stepAge + gap < p[syncStep].duration
    BY <1>1, <1>3, <1>4, <1>6 DEF Steps, StepOver
  <2>2. Over(p)[syncStep - 1] \in Nat
    BY <1>1, <1>4
  <2>3. Over(p)[syncStep - 1] + (stepAge + gap) = age + gap /\ stepAge + gap \in Nat
    BY <1>1, <2>2
  <2>4. age' = Over(p)[syncStep - 1] + stepAge'
    BY <1>1, <1>5, <2>1, <2>3
  <2> QED BY <1>1, <1>3, <2>1, <2>3, <2>4 DEF SyncsTo
<1>7. CASE StepOver(p, gap)
  <2> DEFINE t == stepAge + gap
             a == Advance(p, syncStep, t)
  <2>1. t >= p[syncStep].duration /\ t \in Nat /\ t = stepAge + gap
    BY <1>1, <1>7 DEF StepOver
  <2> HIDE DEF t
  <2>2. /\ a.step \in syncStep .. Len(p) + 1 /\ a.since \in 0 .. t
        /\ Over(p)[a.step - 1] + a.since = Over(p)[syncStep - 1] + t
        /\ a.step <= Len(p) => a.since < p[a.step].duration
        /\ a.step > syncStep /\ a.since <= t - p[syncStep].duration
    BY <1>1, <2>1, AdvanceIs
  <2>3. a.step <= Len(p) /\ syncStep' = a.step /\ stepAge' = a.since
    BY <1>1, <1>3, <1>7, <2>1, <2>2 DEF PatternOver, Reached, Steps, t
  <2> HIDE DEF a
  <2>4. p[syncStep].duration \in Nat /\ Over(p)[syncStep - 1] \in Nat
    BY <1>1, <1>4
  <2>5. /\ syncStep' \in 1 .. Len(p) /\ stepAge' \in Nat /\ stepAge' < p[syncStep'].duration
        /\ syncStep' # syncStep
    BY <1>1, <2>1, <2>2, <2>3
  <2>6. stepAge' < gap
    <3> DEFINE d == p[syncStep].duration
               since == a.since
    <3>1. d \in Nat /\ stepAge < d /\ since <= t - d /\ stepAge' = since /\ since \in Nat
      BY <1>1, <2>2, <2>3, <2>4
    <3> HIDE DEF d, since
    <3> QED BY <1>1, <2>1, <3>1
  <2>7. Over(p)[syncStep' - 1] + stepAge' = age + gap
    BY <1>1, <2>1, <2>2, <2>3, <2>4
  <2>8. age' = Over(p)[syncStep' - 1] + stepAge'
    <3> PICK k \in 1 .. Len(p), s \in Nat : k = syncStep' /\ s = stepAge'
      BY <2>5
    <3> QED BY <1>5, <2>5, <2>7
  <2> QED BY <1>3, <2>1, <2>5, <2>6, <2>8 DEF SyncsTo
<1> QED BY <1>6, <1>7

(* Then the LED is as the schedule says. *)
LEMMA SyncsToSchedule ==
  ASSUME NEW p, IsPattern(p), SyncsTo(p)
  PROVE  OnSchedule(p)
<1>1. /\ syncStep \in 1 .. Len(p) /\ stepAge \in Nat /\ p[syncStep].duration \in Nat
      /\ stepAge < p[syncStep].duration /\ age = Over(p)[syncStep - 1] + stepAge
      /\ led = p[syncStep].on
      /\ Over(p)[syncStep - 1] \in Nat
      /\ Over(p)[syncStep] = Over(p)[syncStep - 1] + p[syncStep].duration
  BY Durations, OverIs, OverType DEF SyncsTo
<1>2. DOMAIN p = 1 .. Len(p)
  BY DEF IsPattern
<1>3. Over(p)[syncStep - 1] <= age /\ age < Over(p)[syncStep]
  BY <1>1
<1> QED BY <1>1, <1>2, <1>3 DEF OnSchedule

-----------------------------------------------------------------------------
(* The marks of a measurement. *)

(* The marks that began up to t. *)
Begun(t) == IF t < MidFirst THEN 0 ELSE (t - MidFirst) \div MidInterval + 1

(* The types of the constants. *)
LEMMA Constants ==
  ASSUME MarksLast
  PROVE  /\ MidInterval \in Nat \ {0} /\ MidTotal \in Nat \ {0} /\ MidFirst \in Nat
         /\ MaxGap \in Nat \ {0} /\ LogPeriod \in Nat \ {0} /\ Duration \in Nat \ {0}
         /\ MidOn \in Nat /\ MidGap \in Nat
BY ExperimentAssumption DEF MarksLast

(* A time is so many intervals and a phase after the first mark. *)
LEMMA Phases ==
  ASSUME MarksLast, NEW t \in Nat, t >= MidFirst
  PROVE  /\ MidPhase(t) \in 0 .. MidInterval - 1 /\ Begun(t) \in Nat \ {0}
         /\ t - MidFirst = MidInterval * (Begun(t) - 1) + MidPhase(t)
<1> DEFINE n == t - MidFirst
           m == MidInterval
<1>1. n \in Nat /\ m \in Nat \ {0}
  BY Constants
<1> HIDE DEF n, m
<1>2. n = m * (n \div m) + (n % m) /\ n % m \in 0 .. m - 1 /\ n \div m \in Nat
  BY <1>1
<1>3. MidPhase(t) = n % m /\ Begun(t) = n \div m + 1
  BY Constants DEF MidPhase, Begun, n, m
<1>4. n \div m = Begun(t) - 1
  BY <1>2, <1>3
<1> QED BY <1>2, <1>3, <1>4 DEF n, m

(* There is only one such count and phase. *)
LEMMA PhaseIs ==
  ASSUME MarksLast, NEW t \in Nat, t >= MidFirst, NEW b \in Nat, NEW r \in 0 .. MidInterval - 1,
         t - MidFirst = MidInterval * b + r
  PROVE  Begun(t) = b + 1 /\ MidPhase(t) = r
<1> DEFINE d == MidPhase(t)
           c == Begun(t) - 1
           m == MidInterval
<1>1. /\ m \in Nat \ {0} /\ d \in 0 .. m - 1 /\ c \in Nat
      /\ m * b + r = m * c + d /\ r \in 0 .. m - 1
  BY Phases, Constants
<1> HIDE DEF c, d, m
<1>2. c = b
  <2>1. CASE c > b
    <3>1. m * c >= m * (b + 1)
      BY <1>1, <2>1
    <3>2. m * (b + 1) = m * b + m
      BY <1>1
    <3> DEFINE x == m * b
               y == m * c
               z == m * (b + 1)
    <3>3. x \in Nat /\ y \in Nat /\ z \in Nat
      BY <1>1
    <3> HIDE DEF x, y, z
    <3> QED BY <1>1, <3>1, <3>2, <3>3 DEF x, y, z
  <2>2. CASE b > c
    <3>1. m * b >= m * (c + 1)
      BY <1>1, <2>2
    <3>2. m * (c + 1) = m * c + m
      BY <1>1
    <3> DEFINE x == m * b
               y == m * c
               z == m * (c + 1)
    <3>3. x \in Nat /\ y \in Nat /\ z \in Nat
      BY <1>1
    <3> HIDE DEF x, y, z
    <3> QED BY <1>1, <3>1, <3>2, <3>3 DEF x, y, z
  <2> QED BY <1>1, <2>1, <2>2
<1>3. d = r
  <2>1. m * b \in Nat
    BY <1>1
  <2> QED BY <1>1, <1>2, <2>1
<1>4. Begun(t) \in Nat
  BY Phases
<1> QED BY <1>2, <1>3, <1>4 DEF c, d

(* What a short while makes of the phase. *)
LEMMA Later ==
  ASSUME MarksLast, NEW t \in Nat, NEW gap \in 0 .. MaxGap
  PROVE  \/ t + gap < MidFirst
         \/ /\ t < MidFirst /\ t + gap >= MidFirst
            /\ Begun(t + gap) = 1 /\ MidPhase(t + gap) \in 0 .. gap - 1
         \/ t >= MidFirst /\ Begun(t + gap) = Begun(t) /\ MidPhase(t + gap) = MidPhase(t) + gap
         \/ /\ t >= MidFirst /\ Begun(t + gap) = Begun(t) + 1
            /\ MidPhase(t + gap) = MidPhase(t) + gap - MidInterval
            /\ MidPhase(t) + gap >= MidInterval
<1>c. /\ MidFirst \in Nat /\ MidInterval \in Nat \ {0} /\ gap \in Nat /\ t + gap \in Nat
      /\ gap < MidInterval
  BY Constants DEF MarksLast
<1>1. CASE t + gap < MidFirst
  BY <1>1
<1>2. CASE t < MidFirst /\ t + gap >= MidFirst
  <2>1. t + gap - MidFirst \in 0 .. MidInterval - 1 /\ t + gap - MidFirst \in 0 .. gap - 1
    BY <1>c, <1>2
  <2>2. t + gap - MidFirst = MidInterval * 0 + (t + gap - MidFirst)
    BY <1>c
  <2>3. Begun(t + gap) = 0 + 1 /\ MidPhase(t + gap) = t + gap - MidFirst
    BY <1>c, <1>2, <2>1, <2>2, PhaseIs
  <2> QED BY <1>2, <2>1, <2>3
<1>3. CASE t >= MidFirst
  <2> DEFINE b == Begun(t) - 1
             r == MidPhase(t)
             x == MidInterval * b
  <2>1. b \in Nat /\ r \in 0 .. MidInterval - 1 /\ t - MidFirst = x + r /\ x \in Nat
    BY <1>3, <1>c, Phases
  <2> HIDE DEF b, r, x
  <2>2. CASE r + gap < MidInterval
    <3>1. r + gap \in 0 .. MidInterval - 1 /\ t + gap - MidFirst = x + (r + gap) /\ t + gap >= MidFirst
      BY <1>3, <1>c, <2>1, <2>2
    <3>2. Begun(t + gap) = b + 1 /\ MidPhase(t + gap) = r + gap
      BY <1>c, <2>1, <3>1, PhaseIs DEF x
    <3>3. Begun(t) \in Nat
      BY <1>3, Phases
    <3> QED BY <1>3, <3>2, <3>3 DEF b, r
  <2>3. CASE r + gap >= MidInterval
    <3>1. MidInterval * (b + 1) = x + MidInterval
      BY <1>c, <2>1 DEF x
    <3> DEFINE y == MidInterval * (b + 1)
    <3>2. /\ r + gap - MidInterval \in 0 .. MidInterval - 1 /\ t + gap >= MidFirst
          /\ t + gap - MidFirst = y + (r + gap - MidInterval) /\ b + 1 \in Nat
      <4> HIDE DEF y
      <4>1. y = x + MidInterval
        BY <3>1 DEF y
      <4> QED BY <1>3, <1>c, <2>1, <2>3, <4>1
    <3>3. Begun(t + gap) = b + 1 + 1 /\ MidPhase(t + gap) = r + gap - MidInterval
      <4> DEFINE c == b + 1
                 q == r + gap - MidInterval
                 u == t + gap
      <4>1. /\ c \in Nat /\ q \in 0 .. MidInterval - 1 /\ u \in Nat /\ u >= MidFirst
            /\ u - MidFirst = MidInterval * c + q
        BY <1>c, <3>2
      <4> HIDE DEF c, q, u
      <4>2. Begun(u) = c + 1 /\ MidPhase(u) = q
        BY <4>1, PhaseIs
      <4> QED BY <4>2 DEF c, q, u
    <3>4. Begun(t) \in Nat
      BY <1>3, Phases
    <3> QED BY <1>3, <2>3, <3>3, <3>4 DEF b, r
  <2> QED BY <1>c, <2>1, <2>2, <2>3
<1> QED BY <1>c, <1>1, <1>2, <1>3

(* From one update to the next at most one mark begins or ends. *)
LEMMA MarkedLater ==
  ASSUME MarksLast, NEW t \in Nat, NEW gap \in Gaps
  PROVE  \/ /\ Marked(t) /\ Begun(t + gap) = Begun(t) /\ MidPhase(t + gap) = MidPhase(t) + gap
            /\ t >= MidFirst /\ t + gap >= MidFirst
         \/ /\ ~Marked(t) /\ Marked(t + gap) /\ Begun(t + gap) = Begun(t) + 1
            /\ MidPhase(t + gap) < gap /\ (t >= MidFirst => MidPhase(t) + gap >= MidInterval)
         \/ /\ ~Marked(t) /\ ~Marked(t + gap) /\ Begun(t + gap) = Begun(t)
            /\ t >= MidFirst => MidPhase(t + gap) = MidPhase(t) + gap
<1>1. /\ gap \in 0 .. MaxGap /\ gap \in Nat \ {0} /\ t + gap \in Nat
      /\ MidFirst \in Nat /\ MidTotal \in Nat /\ MidInterval \in Nat
      /\ gap < MidTotal /\ gap + MidTotal < MidInterval
  BY Constants DEF Gaps, MarksLast
<1>2. /\ t >= MidFirst => MidPhase(t) \in 0 .. MidInterval - 1 /\ Begun(t) \in Nat
      /\ t + gap >= MidFirst => MidPhase(t + gap) \in 0 .. MidInterval - 1
  BY <1>1, Phases
<1> DEFINE u == t + gap
<1>3. CASE t + gap < MidFirst
  BY <1>1, <1>3 DEF Marked, Begun
<1>4. CASE /\ t < MidFirst /\ t + gap >= MidFirst
           /\ Begun(t + gap) = 1 /\ MidPhase(t + gap) \in 0 .. gap - 1
  <2>1. ~Marked(t) /\ Marked(t + gap) /\ Begun(t) = 0
    BY <1>1, <1>4 DEF Marked, Begun
  <2> QED BY <1>1, <1>4, <2>1
<1>5. CASE t >= MidFirst /\ Begun(t + gap) = Begun(t) /\ MidPhase(t + gap) = MidPhase(t) + gap
  <2>1. t + gap >= MidFirst
    BY <1>1, <1>5
  <2>2. ~Marked(t) => ~Marked(t + gap)
    BY <1>1, <1>2, <1>5, <2>1 DEF Marked
  <2> QED BY <1>5, <2>1, <2>2
<1>6. CASE /\ t >= MidFirst /\ Begun(t + gap) = Begun(t) + 1
           /\ MidPhase(t + gap) = MidPhase(t) + gap - MidInterval
           /\ MidPhase(t) + gap >= MidInterval
  <2>1. t + gap >= MidFirst
    BY <1>1, <1>6
  <2>2. ~Marked(t) /\ Marked(t + gap) /\ MidPhase(t + gap) < gap
    BY <1>1, <1>2, <1>6, <2>1 DEF Marked
  <2> QED BY <1>6, <2>2
<1> QED BY <1>1, <1>3, <1>4, <1>5, <1>6, Later

(* No mark begins or ends at the end of the measurement. *)
LEMMA LastMark ==
  ASSUME MarksLast
  PROVE  /\ Marks \in Nat /\ Marks = Begun(Duration)
         /\ MidPhase(Duration) \in MidTotal .. MidInterval - MaxGap
<1>1. Duration - 1 \in Nat /\ 1 \in Gaps /\ Duration - 1 + 1 = Duration /\ MidFirst <= Duration
      /\ Duration \in Nat
  BY Constants DEF MarksLast, Gaps
<1>2. MidPhase(Duration) \in MidTotal .. MidInterval - MaxGap
  BY ExperimentAssumption DEF MidPhase
<1>3. ~Marked(Duration)
  BY <1>2, Constants DEF Marked
<1>4. 1 \in 0 .. MaxGap
  BY Constants
<1>5. Duration - 1 >= MidFirst /\ Begun(Duration) = Begun(Duration - 1)
  BY <1>1, <1>2, <1>4, Constants, Later, Phases
<1>6. Marks = Begun(Duration - 1)
  BY <1>1, <1>5, Constants DEF Marks, Begun
<1> QED BY <1>1, <1>2, <1>5, <1>6, Phases

(* No mark is taken back. *)
LEMMA BegunGrows ==
  ASSUME MarksLast, NEW t \in Nat, NEW u \in Nat, t <= u
  PROVE  Begun(t) \in Nat /\ Begun(t) <= Begun(u)
<1>1. MidFirst \in Nat
  BY Constants
<1>2. CASE t < MidFirst
  <2>1. Begun(t) = 0
    BY <1>2 DEF Begun
  <2>2. u < MidFirst => Begun(u) = 0
    BY DEF Begun
  <2>3. u >= MidFirst => Begun(u) \in Nat
    BY Phases
  <2> QED BY <1>1, <2>1, <2>2, <2>3
<1>3. CASE t >= MidFirst
  <2> DEFINE m == MidInterval
             b == Begun(t) - 1
             c == Begun(u) - 1
             x == m * b
             y == m * c
             z == m * (c + 1)
  <2>1. /\ b \in Nat /\ c \in Nat /\ m \in Nat \ {0} /\ MidPhase(t) \in Nat /\ MidPhase(u) \in 0 .. m - 1
        /\ t - MidFirst = x + MidPhase(t) /\ u - MidFirst = y + MidPhase(u)
    BY <1>1, <1>3, Phases, Constants
  <2> HIDE DEF m, b, c
  <2>2. x \in Nat /\ y \in Nat /\ z \in Nat /\ z = y + m
    BY <2>1
  <2>3. b > c => x >= z
    BY <2>1
  <2> HIDE DEF x, y, z
  <2>4. ~(b > c)
    BY <1>1, <2>1, <2>2, <2>3
  <2>5. b <= c
    BY <2>1, <2>4
  <2>6. Begun(t) \in Nat /\ Begun(u) \in Nat
    BY <1>1, <1>3, Phases
  <2> QED BY <2>5, <2>6 DEF b, c
<1> QED BY <1>1, <1>2, <1>3

(* The anchors of a run are its first two, those of the marks, and its last two. *)
LEMMA AnchorsAre ==
  ASSUME MarksLast
  PROVE  /\ Anchors \in Seq(Nat) /\ Len(Anchors) = Marks + 4
         /\ Anchors[1] = 1 /\ Anchors[2] = 2
         /\ \A i \in 3 .. Marks + 2 : Anchors[i] = 5
         /\ Anchors[Marks + 3] = 3 /\ Anchors[Marks + 4] = 4
<1> DEFINE m == Marks
           f == [i \in 1 .. m |-> 5]
           g == <<1, 2>> \o f
<1>1. m \in Nat
  BY LastMark
<1>2. Anchors = g \o <<3, 4>>
  BY DEF Anchors
<1> HIDE DEF m
<1>3. f \in Seq(Nat) /\ Len(f) = m /\ \A i \in 1 .. m : f[i] = 5
  BY <1>1
<1> HIDE DEF f
<1>4. <<1, 2>> \in Seq(Nat) /\ <<3, 4>> \in Seq(Nat)
  OBVIOUS
<1>5. /\ g \in Seq(Nat) /\ Len(g) = m + 2 /\ g[1] = 1 /\ g[2] = 2
      /\ \A i \in 3 .. m + 2 : g[i] = 5
  BY <1>1, <1>3, <1>4
<1> HIDE DEF g
<1>6. /\ Anchors \in Seq(Nat) /\ Len(Anchors) = m + 4
      /\ \A i \in 1 .. m + 2 : Anchors[i] = g[i]
      /\ Anchors[m + 3] = 3 /\ Anchors[m + 4] = 4
  BY <1>1, <1>2, <1>4, <1>5
<1> QED BY <1>1, <1>5, <1>6 DEF m

-----------------------------------------------------------------------------
(* The rows. *)

Log == [event : Nat, led : BOOLEAN, anchors : Seq(Nat)]

(* The rows l hold the first n anchors of a run. *)
Logged(l, n) ==
  /\ n \in 0 .. Len(Anchors) /\ Len(l.anchors) = n
  /\ \A i \in 1 .. n : l.anchors[i] = Anchors[i]

(* The rows l of a measurement hold the anchors up to its time t, but for that of
   a mark which began since the last row, that long ago. *)
Tells(l, t, since) ==
  /\ l.event \in {0, 2, 5}
  /\ IF Marked(t) /\ l.event # 5
       THEN MidPhase(t) <= since /\ Logged(l, 1 + Begun(t))
       ELSE Logged(l, 2 + Begun(t))
  /\ ~Marked(t) /\ l.event = 5 => t >= MidFirst /\ MidPhase(t) - MidTotal <= since

(* A row without an event, or of the event of the last, is no new anchor. *)
LEMMA RowKeeps ==
  ASSUME NEW l \in Log, NEW e \in Nat, NEW on \in BOOLEAN, e \in {0, l.event}
  PROVE  /\ Row(l, e, on) \in Log /\ Row(l, e, on).event = e /\ Row(l, e, on).led = on
         /\ Row(l, e, on).anchors = l.anchors
BY DEF Row, Log

(* A row of the next anchor. *)
LEMMA RowAdds ==
  ASSUME MarksLast, NEW l \in Log, NEW on \in BOOLEAN, NEW n \in Nat, n + 1 <= Len(Anchors),
         Logged(l, n), NEW e \in Nat, e = Anchors[n + 1], e \notin {0, l.event}
  PROVE  /\ Row(l, e, on) \in Log /\ Row(l, e, on).event = e /\ Row(l, e, on).led = on
         /\ Logged(Row(l, e, on), n + 1)
<1> DEFINE s == l.anchors
           r == Row(l, e, on)
<1>1. s \in Seq(Nat) /\ Len(s) = n /\ \A i \in 1 .. n : s[i] = Anchors[i]
  BY DEF Log, Logged
<1>2. r = [event |-> e, led |-> on, anchors |-> Append(s, e)]
  BY DEF Row
<1> HIDE DEF s, r
<1>3. /\ Append(s, e) \in Seq(Nat) /\ Len(Append(s, e)) = n + 1
      /\ \A i \in 1 .. n + 1 : Append(s, e)[i] = Anchors[i]
  BY <1>1
<1>4. r \in Log /\ r.event = e /\ r.led = on /\ r.anchors = Append(s, e)
  BY <1>2, <1>3 DEF Log
<1>5. Len(Anchors) \in Nat
  BY AnchorsAre
<1>6. Logged(r, n + 1)
  BY <1>3, <1>4, <1>5 DEF Logged
<1> QED BY <1>4, <1>6 DEF r

(* A mark's row is its anchor, unless there is one already. *)
LEMMA MarkRow ==
  ASSUME MarksLast, NEW l \in Log, NEW t \in Nat, NEW gap \in Gaps, NEW since \in Nat, since < LogPeriod,
         t + gap < Duration, Tells(l, t, since), NEW on \in BOOLEAN
  PROVE  Row(l, MidEvent(t + gap), on) \in Log /\ Tells(Row(l, MidEvent(t + gap), on), t + gap, 0)
<1>1. /\ gap \in Nat \ {0} /\ gap <= MaxGap /\ t + gap \in Nat /\ Duration \in Nat
      /\ MidTotal \in Nat /\ MidInterval \in Nat /\ LogPeriod \in Nat /\ MaxGap \in Nat
      /\ LogPeriod + MaxGap <= MidTotal /\ LogPeriod + MaxGap <= MidInterval - MidTotal
      /\ MidFirst \in Nat
  BY Constants DEF MarksLast, Gaps
<1> DEFINE u == t + gap
           e == MidEvent(u)
           r == Row(l, e, on)
<1>2. Begun(t) \in Nat /\ Begun(u) \in Nat /\ Begun(u) <= Marks /\ Marks \in Nat
  <2>1. u \in Nat /\ u <= Duration /\ Duration \in Nat
    BY <1>1
  <2> QED BY <2>1, BegunGrows, LastMark
<1>3. /\ t >= MidFirst => MidPhase(t) \in 0 .. MidInterval - 1
      /\ u >= MidFirst => MidPhase(u) \in 0 .. MidInterval - 1
  BY <1>1, Phases
<1>4. Marked(t) => t >= MidFirst /\ MidPhase(t) < MidTotal
  BY DEF Marked
<1>5. CASE Marked(u)
  <2>1. e = 5
    BY <1>5 DEF MidEvent
  <2>2. CASE l.event = 5
    <3>1. Logged(l, 2 + Begun(u))
      BY <1>1, <1>2, <1>3, <1>4, <1>5, <2>2, MarkedLater DEF Tells
    <3>2. r \in Log /\ r.event = 5 /\ r.anchors = l.anchors
      BY <2>1, <2>2, RowKeeps
    <3> QED BY <1>5, <3>1, <3>2 DEF Tells, Logged
  <2>3. CASE l.event # 5
    <3>1. Logged(l, 1 + Begun(u))
      BY <1>1, <1>2, <1>3, <1>4, <1>5, <2>3, MarkedLater DEF Tells
    <3>2. 1 <= Begun(u)
      BY <1>1, <1>2, <1>5, Phases DEF Marked
    <3> DEFINE n == 1 + Begun(u)
    <3>3. n \in Nat /\ n + 1 <= Len(Anchors) /\ Anchors[n + 1] = 5
      <4>1. n \in Nat /\ n + 1 \in 3 .. Marks + 2
        BY <1>2, <3>2
      <4> HIDE DEF n
      <4> QED BY <1>2, <4>1, AnchorsAre, SMTT(30)
    <3> HIDE DEF n, e
    <3>4. r \in Log /\ r.event = 5 /\ Logged(r, n + 1)
      BY <2>1, <2>3, <3>1, <3>3, RowAdds DEF n
    <3>5. n + 1 = 2 + Begun(u)
      BY <1>2 DEF n
    <3> QED BY <1>5, <3>4, <3>5 DEF Tells, e
  <2> QED BY <2>2, <2>3
<1>6. CASE ~Marked(u)
  <2>1. e = 0
    BY <1>6 DEF MidEvent
  <2>2. Logged(l, 2 + Begun(u))
    BY <1>1, <1>2, <1>3, <1>4, <1>6, MarkedLater DEF Tells, Marked
  <2>3. r \in Log /\ r.event = 0 /\ r.anchors = l.anchors
    BY <2>1, RowKeeps
  <2> QED BY <1>6, <2>2, <2>3 DEF Tells, Logged
<1> QED BY <1>5, <1>6

(* Without a row, the time since the last goes on. *)
LEMMA MarkWaits ==
  ASSUME MarksLast, NEW l \in Log, NEW t \in Nat, NEW gap \in Gaps, NEW since \in Nat,
         since < LogPeriod, Tells(l, t, since)
  PROVE  Tells(l, t + gap, since + gap)
<1>1. /\ gap \in Nat \ {0} /\ gap <= MaxGap /\ t + gap \in Nat
      /\ MidTotal \in Nat /\ MidInterval \in Nat /\ LogPeriod \in Nat /\ MaxGap \in Nat
      /\ LogPeriod + MaxGap <= MidTotal /\ LogPeriod + MaxGap <= MidInterval - MidTotal
      /\ MidFirst \in Nat
  BY Constants DEF MarksLast, Gaps
<1>2. Begun(t) \in Nat /\ Begun(t + gap) \in Nat
  BY <1>1, BegunGrows
<1>3. /\ t >= MidFirst => MidPhase(t) \in 0 .. MidInterval - 1
      /\ t + gap >= MidFirst => MidPhase(t + gap) \in 0 .. MidInterval - 1
  BY <1>1, Phases
<1>4. /\ Marked(t) <=> t >= MidFirst /\ MidPhase(t) < MidTotal
      /\ Marked(t + gap) <=> t + gap >= MidFirst /\ MidPhase(t + gap) < MidTotal
  BY DEF Marked
<1> HIDE DEF Marked
<1>5. CASE /\ Marked(t) /\ Begun(t + gap) = Begun(t) /\ MidPhase(t + gap) = MidPhase(t) + gap
           /\ t >= MidFirst /\ t + gap >= MidFirst
  BY <1>1, <1>2, <1>3, <1>4, <1>5 DEF Tells
<1>6. CASE /\ ~Marked(t) /\ Marked(t + gap) /\ Begun(t + gap) = Begun(t) + 1
           /\ MidPhase(t + gap) < gap /\ (t >= MidFirst => MidPhase(t) + gap >= MidInterval)
  <2>1. l.event # 5 /\ 1 + Begun(t + gap) = 2 + Begun(t) /\ MidPhase(t + gap) <= since + gap
    BY <1>1, <1>2, <1>3, <1>4, <1>6 DEF Tells
  <2> QED BY <1>6, <2>1 DEF Tells
<1>7. CASE /\ ~Marked(t) /\ ~Marked(t + gap) /\ Begun(t + gap) = Begun(t)
           /\ t >= MidFirst => MidPhase(t + gap) = MidPhase(t) + gap
  BY <1>1, <1>2, <1>3, <1>4, <1>7 DEF Tells
<1> QED BY <1>5, <1>6, <1>7, MarkedLater

(* The end of the measurement comes after the last mark and its rows. *)
LEMMA MarksOver ==
  ASSUME MarksLast, NEW l \in Log, NEW t \in Nat, NEW gap \in Gaps, NEW since \in Nat,
         since < LogPeriod, Tells(l, t, since), t < Duration, t + gap >= Duration
  PROVE  Logged(l, 2 + Marks) /\ MidEvent(t + gap) = 0 /\ MidLed(t + gap) = FALSE
<1>1. /\ gap \in Nat \ {0} /\ gap <= MaxGap /\ t + gap \in Nat
      /\ MidTotal \in Nat /\ MidInterval \in Nat /\ LogPeriod \in Nat /\ MaxGap \in Nat
      /\ LogPeriod + MaxGap <= MidTotal /\ LogPeriod + MaxGap <= MidInterval - MidTotal
      /\ MidFirst \in Nat /\ Duration \in Nat /\ MidFirst <= Duration
  BY Constants DEF MarksLast, Gaps
<1>2. /\ Marks \in Nat /\ Marks = Begun(Duration)
      /\ MidPhase(Duration) \in MidTotal .. MidInterval - MaxGap
  BY LastMark
<1>3. ~Marked(t + gap)
  <2> DEFINE late == t + gap - Duration
  <2>1. late \in 0 .. MaxGap /\ late < MaxGap /\ Duration + late = t + gap /\ late \in Nat
    BY <1>1
  <2> HIDE DEF late
  <2>2. MidPhase(Duration + late) = MidPhase(Duration) + late
    BY <1>1, <1>2, <2>1, Later
  <2> QED BY <1>1, <1>2, <2>1, <2>2 DEF Marked
<1>4. Begun(t) = Begun(Duration) /\ t >= MidFirst /\ MidPhase(Duration) = MidPhase(t) + (Duration - t)
  <2> DEFINE left == Duration - t
  <2>1. left \in 0 .. MaxGap /\ t + left = Duration /\ left \in Nat /\ left \in Gaps
    BY <1>1 DEF Gaps
  <2> HIDE DEF left
  <2>2. ~Marked(t + left) /\ MidPhase(t + left) \in MidTotal .. MidInterval - MaxGap
    BY <1>1, <1>2, <2>1 DEF Marked
  <2>3. \/ t >= MidFirst /\ Begun(t + left) = Begun(t) /\ MidPhase(t + left) = MidPhase(t) + left
    BY <1>1, <2>1, <2>2, Later, Phases
  <2> QED BY <2>1, <2>3 DEF left
<1>5. MidPhase(t) \in Nat
  BY <1>1, <1>4, Phases
<1>6. ~(Marked(t) /\ l.event # 5)
  BY <1>1, <1>2, <1>4, <1>5 DEF Tells
<1>7. Logged(l, 2 + Marks)
  BY <1>2, <1>4, <1>6 DEF Tells
<1>8. MidEvent(t + gap) = 0 /\ MidLed(t + gap) = FALSE
  BY <1>3 DEF MidEvent, MidLed
<1> QED BY <1>7, <1>8

(* The LED and the rows in every part of a run: the inductive invariant of
   SyncTiesVideo. *)
VideoInv ==
  /\ log \in Log /\ event \in Nat /\ logAge \in Nat /\ led \in BOOLEAN
  /\ Running => logAge < LogPeriod
  /\ state = "START_SYNC" => SyncsTo(StartPattern) /\ event = 1 /\ log.event = 1 /\ Logged(log, 1)
  /\ state = "RUNNING" => age \in 0 .. Duration - 1 /\ Tells(log, age, logAge)
  /\ state = "END_SYNC" => SyncsTo(EndPattern) /\ event = 4 /\ log.event = 4 /\ Logged(log, Marks + 4)
  /\ state = "FINISHED" => Logged(log, Marks + 4)

(* An update logs a row, or the time since the last goes on. *)
LEMMA RowOrNot ==
  ASSUME logAge \in Nat, NEW gap \in Gaps, LogIfDue(gap)
  PROVE  \/ logAge' = 0 /\ log' = Row(log, event', led')
         \/ logAge + gap < LogPeriod /\ logAge' = logAge + gap /\ log' = log
BY ExperimentAssumption DEF LogIfDue, Due, Least, Gaps

(* The rows of a sync are of one event: they add no anchor. *)
LEMMA SyncRow ==
  ASSUME log \in Log, logAge \in Nat, NEW gap \in Gaps, LogIfDue(gap), led' \in BOOLEAN,
         event' \in Nat, event' \in {0, log.event}
  PROVE  /\ log' \in Log /\ logAge' \in Nat /\ logAge' < LogPeriod
         /\ log'.anchors = log.anchors /\ log'.event \in {event', log.event}
<1>1. gap \in Nat /\ LogPeriod \in Nat \ {0}
  BY ExperimentAssumption DEF Gaps
<1>2. CASE logAge' = 0 /\ log' = Row(log, event', led')
  BY <1>1, <1>2, RowKeeps
<1>3. CASE logAge + gap < LogPeriod /\ logAge' = logAge + gap /\ log' = log
  BY <1>1, <1>3
<1> QED BY <1>2, <1>3, RowOrNot

(* The row of the start is the first anchor. *)
LEMMA FirstRow ==
  ASSUME MarksLast, NEW on \in BOOLEAN
  PROVE  /\ Row(NoRows, 1, on) \in Log /\ Row(NoRows, 1, on).event = 1
         /\ Row(NoRows, 1, on).led = on /\ Logged(Row(NoRows, 1, on), 1)
<1>1. NoRows \in Log /\ NoRows.event = 0 /\ NoRows.anchors = <<>>
  <2>1. <<>> \in Seq(Nat)
    OBVIOUS
  <2> QED BY <2>1 DEF NoRows, Log
<1>2. Marks \in Nat /\ Len(Anchors) = Marks + 4 /\ Anchors[1] = 1
  BY LastMark, AnchorsAre
<1>3. Logged(NoRows, 0)
  BY <1>1, <1>2 DEF Logged
<1>4. 0 + 1 <= Len(Anchors) /\ Anchors[0 + 1] = 1 /\ 1 \notin {0, NoRows.event}
  BY <1>1, <1>2
<1>5. Logged(Row(NoRows, 1, on), 0 + 1) /\ Row(NoRows, 1, on) \in Log
      /\ Row(NoRows, 1, on).event = 1 /\ Row(NoRows, 1, on).led = on
  BY <1>1, <1>3, <1>4, RowAdds
<1> QED BY <1>5

(* The row of t_test 0 is the second anchor. *)
LEMMA SecondRow ==
  ASSUME MarksLast, NEW l \in Log, l.event = 1, Logged(l, 1)
  PROVE  /\ Row(l, 2, FALSE) \in Log /\ Row(l, 2, FALSE).led = FALSE
         /\ Tells(Row(l, 2, FALSE), 0, 0)
<1> DEFINE r == Row(l, 2, FALSE)
<1>1. Marks \in Nat /\ Len(Anchors) = Marks + 4 /\ Anchors[2] = 2
  BY LastMark, AnchorsAre
<1>2. 1 + 1 <= Len(Anchors) /\ Anchors[1 + 1] = 2 /\ 2 \notin {0, l.event}
  BY <1>1
<1>3. r \in Log /\ r.event = 2 /\ r.led = FALSE /\ Logged(r, 1 + 1)
  BY <1>2, RowAdds
<1> HIDE DEF r
<1>4. ASSUME Marked(0) PROVE Tells(r, 0, 0)
  <2>1. MidFirst = 0 /\ MidInterval \in Nat \ {0}
    BY <1>4, Constants DEF Marked
  <2>2. 0 - MidFirst = MidInterval * 0 + 0 /\ 0 \in 0 .. MidInterval - 1
    BY <2>1
  <2>3. Begun(0) = 0 + 1 /\ MidPhase(0) = 0
    BY <2>1, <2>2, PhaseIs
  <2>4. Logged(r, 1 + Begun(0)) /\ MidPhase(0) <= 0
    BY <1>3, <2>3
  <2> QED BY <1>3, <1>4, <2>4 DEF Tells
<1>5. ASSUME ~Marked(0) PROVE Tells(r, 0, 0)
  <2>1. Begun(0) = 0
    <3>1. CASE MidFirst > 0
      BY <3>1, Constants DEF Begun
    <3>2. CASE ~(MidFirst > 0)
      <4>1. MidFirst = 0 /\ MidInterval \in Nat \ {0} /\ MidTotal \in Nat \ {0}
        BY <3>2, Constants
      <4>2. 0 - MidFirst = MidInterval * 0 + 0 /\ 0 \in 0 .. MidInterval - 1
        BY <4>1
      <4>3. MidPhase(0) = 0
        BY <4>1, <4>2, PhaseIs
      <4> QED BY <1>5, <4>1, <4>3 DEF Marked
    <3> QED BY <3>1, <3>2
  <2>2. Logged(r, 2 + Begun(0))
    BY <1>3, <2>1
  <2> QED BY <1>3, <1>5, <2>2 DEF Tells
<1> QED BY <1>3, <1>4, <1>5 DEF r

(* The rows of the end are the last two anchors. *)
LEMMA LastRows ==
  ASSUME MarksLast, NEW l \in Log, l.event \in {0, 2, 5}, Logged(l, 2 + Marks)
  PROVE  /\ EndRows(l) \in Log /\ EndRows(l).event = 4 /\ EndRows(l).led = EndPattern[1].on
         /\ Logged(EndRows(l), Marks + 4)
<1>1. Marks \in Nat /\ Len(Anchors) = Marks + 4 /\ Anchors[Marks + 3] = 3 /\ Anchors[Marks + 4] = 4
  BY LastMark, AnchorsAre
<1> DEFINE r == Row(l, 3, FALSE)
<1>2. r \in Log /\ r.event = 3 /\ Logged(r, Marks + 3)
  <2> DEFINE n == 2 + Marks
  <2>1. n \in Nat /\ n + 1 <= Len(Anchors) /\ Anchors[n + 1] = 3 /\ 3 \notin {0, l.event}
        /\ Logged(l, n)
    BY <1>1
  <2>2. n + 1 = Marks + 3
    BY <1>1
  <2> HIDE DEF n
  <2>3. r \in Log /\ r.event = 3 /\ Logged(r, n + 1)
    <3> DEFINE e == 3
    <3>1. e \in Nat /\ e = Anchors[n + 1] /\ e \notin {0, l.event} /\ r = Row(l, e, FALSE) /\ e = 3
      BY <2>1
    <3> HIDE DEF e, r
    <3>2. FALSE \in BOOLEAN
      OBVIOUS
    <3>3. /\ Row(l, e, FALSE) \in Log /\ Row(l, e, FALSE).event = e
          /\ Logged(Row(l, e, FALSE), n + 1)
      BY <2>1, <3>1, <3>2, RowAdds, Zenon
    <3> QED BY <3>1, <3>3, Zenon
  <2> QED BY <2>2, <2>3
<1>3. EndRows(l) = Row(r, 4, EndPattern[1].on)
  BY DEF EndRows
<1>4. EndPattern[1].on \in BOOLEAN
  BY Durations, ExperimentAssumption
<1> HIDE DEF r
<1> DEFINE n == Marks + 3
<1>5. n \in Nat /\ n + 1 = Marks + 4 /\ n + 1 <= Len(Anchors) /\ Anchors[n + 1] = 4 /\ 4 \notin {0, r.event}
  BY <1>1, <1>2
<1> HIDE DEF n
<1> QED BY <1>2, <1>3, <1>4, <1>5, RowAdds DEF n

(* Before the first run there are no rows. *)
LEMMA InitVideo == Init => VideoInv
<1> SUFFICES ASSUME Init PROVE VideoInv
  OBVIOUS
<1>1. <<>> \in Seq(Nat)
  OBVIOUS
<1>2. log \in Log
  BY <1>1 DEF Init, NoRows, Log
<1> QED BY <1>2 DEF Init, VideoInv, Running

(* Every update of every state preserves it. *)
LEMMA UpdateVideo ==
  ASSUME MarksLast, VideoInv, NEW gap \in Gaps, NEW sample \in Samples, Update(gap, sample)
  PROVE  VideoInv'
<1>0. /\ log \in Log /\ event \in Nat /\ logAge \in Nat /\ led \in BOOLEAN /\ gap \in Nat \ {0}
      /\ LogPeriod \in Nat \ {0} /\ Duration \in Nat \ {0}
  BY ExperimentAssumption DEF VideoInv, Gaps
<1>p. /\ IsPattern(StartPattern) /\ IsPattern(EndPattern)
      /\ PatternTime(StartPattern) <= Duration /\ PatternTime(EndPattern) <= Duration
  BY ExperimentAssumption
<1>1. CASE Calibrate(gap, sample) \/ Settle(gap) \/ Rest(gap)
  <2>1. /\ ~Running' /\ UNCHANGED <<event, logAge, log>> /\ led' = FALSE
        /\ state' \notin {"START_SYNC", "RUNNING", "END_SYNC"}
        /\ state' = "FINISHED" => state = "FINISHED"
    BY <1>1 DEF Calibrate, Settle, Rest, IdleOutputs, logVars, Running
  <2> QED BY <1>0, <2>1 DEF VideoInv, Logged
<1>2. CASE StartSyncStops(gap, sample)
  <2>1. /\ state = "START_SYNC" /\ state' = "ESTOP" /\ led' = FALSE /\ event' = event /\ LogIfDue(gap)
    BY <1>2 DEF StartSyncStops, Estop
  <2>2. event = log.event /\ event \in Nat
    BY <2>1 DEF VideoInv
  <2>3. log' \in Log /\ logAge' \in Nat
    BY <1>0, <2>1, <2>2, SyncRow
  <2> QED BY <1>0, <2>1, <2>3 DEF VideoInv, Running
<1>3. CASE StartSync(gap, sample)
  <2>1. state = "START_SYNC" /\ state' = "START_SYNC" /\ PatternGoesOn(StartPattern, gap)
    BY <1>3 DEF StartSync
  <2>2. SyncsTo(StartPattern) /\ event = 1 /\ log.event = 1 /\ Logged(log, 1)
    BY <2>1 DEF VideoInv
  <2>3. SyncsTo(StartPattern)'
    BY <1>p, <2>1, <2>2, SyncsToOn
  <2>4. led' \in BOOLEAN
    BY <1>p, <2>3, Durations DEF SyncsTo
  <2>5. event' = 1 /\ LogIfDue(gap)
    BY <2>1, <2>2 DEF PatternGoesOn
  <2>6. log' \in Log /\ logAge' \in Nat /\ logAge' < LogPeriod /\ log'.anchors = log.anchors /\ log'.event = 1
    BY <1>0, <2>2, <2>4, <2>5, SyncRow
  <2> QED BY <2>1, <2>2, <2>3, <2>4, <2>5, <2>6 DEF VideoInv, Running, Logged
<1>4. CASE BeginMeasurement(gap, sample)
  <2>1. /\ state = "START_SYNC" /\ state' = "RUNNING" /\ age' = 0 /\ led' = FALSE /\ event' = 0
        /\ logAge' = 0
    BY <1>4 DEF BeginMeasurement
  <2>2. log.event = 1 /\ Logged(log, 1)
    BY <2>1 DEF VideoInv
  <2>3. log' = Row(log, 2, FALSE)
    BY <1>4 DEF BeginMeasurement
  <2>4. log' \in Log /\ Tells(log', 0, 0)
    BY <1>0, <2>2, <2>3, SecondRow
  <2>5. age' \in 0 .. Duration - 1 /\ Tells(log', age', logAge')
    BY <1>0, <2>1, <2>4
  <2>6. led' \in BOOLEAN /\ event' \in Nat /\ logAge' \in Nat
    BY <2>1
  <2>7. logAge' < LogPeriod
    BY <1>0, <2>1
  <2> QED BY <2>1, <2>4, <2>5, <2>6, <2>7 DEF VideoInv, Running
<1>5. CASE Measure(gap)
  <2>1. /\ state = "RUNNING" /\ state' = "RUNNING" /\ ~(age + gap >= Duration)
        /\ age' = Least(age + gap, Duration) /\ event' = MidEvent(age') /\ led' = MidLed(age')
        /\ LogIfDue(gap)
    BY <1>5 DEF Measure, MeasurementOver
  <2>2. age \in 0 .. Duration - 1 /\ age \in Nat /\ Tells(log, age, logAge) /\ logAge < LogPeriod
    BY <1>0, <2>1 DEF VideoInv, Running
  <2>3. age' = age + gap /\ age + gap < Duration /\ age + gap \in 0 .. Duration - 1
    BY <1>0, <2>1, <2>2 DEF Least
  <2>4. led' \in BOOLEAN /\ event' \in Nat
    BY <2>1 DEF MidLed, MidEvent
  <2>5. log' \in Log /\ Tells(log', age + gap, logAge') /\ logAge' \in Nat /\ logAge' < LogPeriod
    <3>1. CASE logAge' = 0 /\ log' = Row(log, event', led')
      <4>1. log' = Row(log, MidEvent(age + gap), led')
        BY <2>1, <2>3, <3>1
      <4> QED BY <1>0, <2>2, <2>3, <2>4, <3>1, <4>1, MarkRow
    <3>2. CASE logAge + gap < LogPeriod /\ logAge' = logAge + gap /\ log' = log
      BY <1>0, <2>2, <3>2, MarkWaits
    <3> QED BY <1>0, <2>1, <3>1, <3>2, RowOrNot
  <2> QED BY <2>1, <2>3, <2>4, <2>5 DEF VideoInv, Running
<1>6. CASE FinishRun(gap)
  <2>1. /\ state = "RUNNING" /\ state' = "END_SYNC" /\ age + gap >= Duration /\ age' = 0
        /\ syncStep' = 1 /\ stepAge' = 0 /\ led' = EndPattern[1].on /\ event' = 4 /\ logAge' = 0
        /\ \/ log' = EndRows(log)
           \/ log' = EndRows(Row(log, MidEvent(age + gap), MidLed(age + gap)))
    BY <1>6 DEF FinishRun, MeasurementOver
  <2>2. age \in 0 .. Duration - 1 /\ age \in Nat /\ age < Duration /\ Tells(log, age, logAge) /\ logAge < LogPeriod
    BY <1>0, <2>1 DEF VideoInv, Running
  <2>3. Logged(log, 2 + Marks) /\ MidEvent(age + gap) = 0 /\ MidLed(age + gap) = FALSE
        /\ log.event \in {0, 2, 5}
    <3>1. log.event \in {0, 2, 5}
      BY <2>2 DEF Tells
    <3> QED BY <1>0, <2>1, <2>2, <3>1, MarksOver
  <2>4. log' \in Log /\ log'.event = 4 /\ Logged(log', Marks + 4)
    <3>1. CASE log' = EndRows(log)
      BY <1>0, <2>3, <3>1, LastRows
    <3>2. CASE log' = EndRows(Row(log, MidEvent(age + gap), MidLed(age + gap)))
      <4> DEFINE r == Row(log, 0, FALSE)
      <4>1. log' = EndRows(r)
        BY <2>3, <3>2
      <4>2. r \in Log /\ r.event = 0 /\ r.anchors = log.anchors
        BY <1>0, RowKeeps
      <4> HIDE DEF r
      <4>3. Logged(r, 2 + Marks)
        BY <2>3, <4>2 DEF Logged
      <4> QED BY <4>1, <4>2, <4>3, LastRows
    <3> QED BY <2>1, <3>1, <3>2
  <2>5. SyncsTo(EndPattern)' /\ led' \in BOOLEAN
    BY <1>p, <2>1, SyncsToBegin, Durations
  <2> QED BY <1>0, <2>1, <2>4, <2>5 DEF VideoInv, Running
<1>7. CASE EndSync(gap)
  <2>1. state = "END_SYNC" /\ state' = "END_SYNC" /\ PatternGoesOn(EndPattern, gap)
    BY <1>7 DEF EndSync
  <2>2. SyncsTo(EndPattern) /\ event = 4 /\ log.event = 4 /\ Logged(log, Marks + 4)
    BY <2>1 DEF VideoInv
  <2>3. SyncsTo(EndPattern)'
    BY <1>p, <2>1, <2>2, SyncsToOn
  <2>4. led' \in BOOLEAN
    BY <1>p, <2>3, Durations DEF SyncsTo
  <2>5. event' = 4 /\ LogIfDue(gap)
    BY <2>1, <2>2 DEF PatternGoesOn
  <2>6. log' \in Log /\ logAge' \in Nat /\ logAge' < LogPeriod /\ log'.anchors = log.anchors /\ log'.event = 4
    BY <1>0, <2>2, <2>4, <2>5, SyncRow
  <2> QED BY <2>1, <2>2, <2>3, <2>4, <2>5, <2>6 DEF VideoInv, Running, Logged
<1>8. CASE Finish(gap)
  <2>1. state = "END_SYNC" /\ state' = "FINISHED" /\ led' = FALSE /\ event' = 0 /\ LogIfDue(gap)
    BY <1>8 DEF Finish
  <2>2. Logged(log, Marks + 4)
    BY <2>1 DEF VideoInv
  <2>3. log' \in Log /\ logAge' \in Nat /\ log'.anchors = log.anchors
    BY <1>0, <2>1, SyncRow
  <2> QED BY <2>1, <2>2, <2>3 DEF VideoInv, Running, Logged
<1> QED BY <1>1, <1>2, <1>3, <1>4, <1>5, <1>6, <1>7, <1>8 DEF Update

(* So does every step. *)
LEMMA NextVideo ==
  ASSUME MarksLast, VideoInv, [Next]_vars
  PROVE  VideoInv'
<1>1. CASE Updates
  BY <1>1, UpdateVideo DEF Updates
<1>2. CASE RequestEmergencyStop
  BY <1>2 DEF RequestEmergencyStop, Estop, logVars, VideoInv, Running
<1>3. CASE Clear
  BY <1>3 DEF Clear, VideoInv, Running
<1>4. CASE Start
  <2>1. /\ state' = "START_SYNC" /\ age' = 0 /\ syncStep' = 1 /\ stepAge' = 0
        /\ led' = StartPattern[1].on /\ event' = 1 /\ logAge' = 0 /\ log' = Row(NoRows, 1, led')
    BY <1>4 DEF Start
  <2>2. IsPattern(StartPattern) /\ LogPeriod > 0
    BY ExperimentAssumption
  <2>3. SyncsTo(StartPattern)' /\ led' \in BOOLEAN
    BY <2>1, <2>2, SyncsToBegin, Durations
  <2>4. log' \in Log /\ log'.event = 1 /\ Logged(log', 1)
    BY <2>1, <2>3, FirstRow
  <2> QED BY <2>1, <2>2, <2>3, <2>4 DEF VideoInv, Running
<1>5. CASE UNCHANGED vars
  BY <1>5 DEF vars, startupVars, syncVars, logVars, VideoInv, Running, SyncsTo, Logged, Tells
<1> QED BY <1>1, <1>2, <1>3, <1>4, <1>5 DEF Next

(* The rows so far are a prefix of the anchors. *)
LEMMA LoggedPrefix ==
  ASSUME MarksLast, NEW l \in Log, NEW n \in Nat, Logged(l, n)
  PROVE  IsPrefix(l.anchors, Anchors) /\ (n = Marks + 4 => l.anchors = Anchors)
<1> DEFINE s == l.anchors
           t == Anchors
<1>1. /\ s \in Seq(Nat) /\ t \in Seq(Nat) /\ Len(s) = n /\ n <= Len(t)
      /\ \A i \in 1 .. n : s[i] = t[i]
  BY AnchorsAre DEF Log, Logged
<1>2. Len(t) = Marks + 4
  BY AnchorsAre
<1> HIDE DEF s, t
<1>3. SubSeq(s, 1, n) = SubSeq(t, 1, n)
  <2>1. /\ SubSeq(s, 1, n) \in Seq(Nat) /\ Len(SubSeq(s, 1, n)) = n
        /\ \A i \in 1 .. n : SubSeq(s, 1, n)[i] = s[i]
    BY <1>1
  <2>2. /\ SubSeq(t, 1, n) \in Seq(Nat) /\ Len(SubSeq(t, 1, n)) = n
        /\ \A i \in 1 .. n : SubSeq(t, 1, n)[i] = t[i]
    BY <1>1
  <2> QED BY <1>1, <2>1, <2>2
<1>4. IsPrefix(s, t)
  BY <1>1, <1>3 DEF IsPrefix
<1>5. n = Len(t) => s = t
  BY <1>1
<1> QED BY <1>2, <1>4, <1>5 DEF s, t

(* It implies the property. *)
LEMMA VideoTells ==
  ASSUME MarksLast, VideoInv
  PROVE  SyncTiesVideo
<1>1. SyncOnSchedule
  BY ExperimentAssumption, SyncsToSchedule DEF VideoInv, SyncOnSchedule
<1>2. log \in Log /\ Marks \in Nat
  BY LastMark DEF VideoInv
<1>3. ASSUME Running PROVE IsPrefix(log.anchors, Anchors)
  <2>1. CASE state = "START_SYNC"
    BY <1>2, <2>1, LoggedPrefix DEF VideoInv
  <2>2. CASE state = "RUNNING"
    <3>1. Begun(age) \in Nat
      BY <2>2, BegunGrows DEF VideoInv
    <3>2. PICK n \in Nat : Logged(log, n)
      <4>1. 1 + Begun(age) \in Nat /\ 2 + Begun(age) \in Nat
        BY <3>1
      <4> QED BY <2>2, <4>1 DEF VideoInv, Tells
    <3> QED BY <1>2, <3>2, LoggedPrefix
  <2>3. CASE state = "END_SYNC"
    BY <1>2, <2>3, LoggedPrefix DEF VideoInv
  <2> QED BY <1>3, <2>1, <2>2, <2>3 DEF Running
<1>4. state = "FINISHED" => log.anchors = Anchors
  BY <1>2, LoggedPrefix DEF VideoInv
<1> QED BY <1>1, <1>3, <1>4 DEF SyncTiesVideo, AnchorsLogged

(* What the attitude does besides leaves the life of a run as Experiment has it. *)
LEMMA SpecOf == AttSpec => Init /\ [][Next]_vars
<1>1. [AttNext]_attVars => [Next]_vars
  BY DEF AttNext, AttUpdates, AttUpdate, AttStop, AttClear, AttStart, attVars, Next, Updates
<1> QED BY <1>1, PTL DEF AttSpec, AttInit

(* During a sync the LED is what the pattern says at this time since the sync began,
   however late the updates, and the rows of a run hold its anchors in their order,
   all of them once it finished: updateSyncPattern, updateMidSyncLed, beginStartSync,
   beginMeasurementRun, finishRun, beginEndSync. *)
THEOREM VideoCorrect == ASSUME MarksLast PROVE AttSpec => []SyncTiesVideo
<1>1. Init => VideoInv
  BY InitVideo
<1>2. VideoInv /\ [Next]_vars => VideoInv'
  BY NextVideo
<1>3. VideoInv => SyncTiesVideo
  BY VideoTells
<1> QED BY <1>1, <1>2, <1>3, SpecOf, PTL

-----------------------------------------------------------------------------
(* The LED of a run. *)

(* For how long the LED of a measurement has been as it is at t. *)
LedAge(t) ==
  MidPhase(t) - (IF MidPhase(t) < MidOn THEN 0
                 ELSE IF MidPhase(t) < MidOn + MidGap THEN MidOn
                 ELSE IF MidPhase(t) < MidTotal THEN MidOn + MidGap ELSE MidTotal)

(* In a run the pin is the LED the runner means, and a LED no row shows as it is has
   changed since the last row. *)
LedInv ==
  /\ Running => pin = led
  /\ state \in {"START_SYNC", "END_SYNC"} /\ log.led # led => stepAge <= logAge
  /\ state = "RUNNING" => led = MidLed(age) /\ (log.led # led => age >= MidFirst /\ LedAge(age) <= logAge)

(* From one update to the next the LED changes at most once, and as it just did. *)
LEMMA LedLater ==
  ASSUME PhasesLast, NEW t \in Nat, NEW gap \in Gaps
  PROVE  \/ t + gap < MidFirst /\ MidLed(t + gap) = MidLed(t)
         \/ /\ t + gap >= MidFirst /\ LedAge(t + gap) < gap
            /\ t >= MidFirst => LedAge(t) + gap >= LogPeriod + MaxGap
         \/ t >= MidFirst /\ MidLed(t + gap) = MidLed(t) /\ LedAge(t + gap) = LedAge(t) + gap
<1>1. /\ gap \in 0 .. MaxGap /\ gap \in Nat \ {0} /\ t + gap \in Nat /\ MidFirst \in Nat
      /\ MidTotal \in Nat /\ MidInterval \in Nat /\ MidOn \in Nat /\ MidGap \in Nat
      /\ LogPeriod \in Nat /\ MaxGap \in Nat
      /\ MidOn >= LogPeriod + MaxGap /\ MidGap >= LogPeriod + MaxGap
      /\ MidTotal - MidOn - MidGap >= LogPeriod + MaxGap
      /\ MidInterval - MidTotal >= LogPeriod + MaxGap
      /\ MarksLast
  BY Constants DEF Gaps, MarksLast, PhasesLast
<1>2. /\ t >= MidFirst => MidPhase(t) \in 0 .. MidInterval - 1
      /\ t + gap >= MidFirst => MidPhase(t + gap) \in 0 .. MidInterval - 1
  BY <1>1, Phases
<1>3. CASE t + gap < MidFirst
  BY <1>1, <1>3 DEF MidLed, Marked
<1>4. CASE /\ t < MidFirst /\ t + gap >= MidFirst
           /\ Begun(t + gap) = 1 /\ MidPhase(t + gap) \in 0 .. gap - 1
  <2>1. MidPhase(t + gap) < MidOn /\ MidPhase(t + gap) < gap /\ MidPhase(t + gap) \in Nat
    BY <1>1, <1>4
  <2>2. LedAge(t + gap) = MidPhase(t + gap)
    BY <1>1, <2>1 DEF LedAge
  <2> QED BY <1>1, <1>4, <2>1, <2>2
<1>5. CASE t >= MidFirst /\ Begun(t + gap) = Begun(t) /\ MidPhase(t + gap) = MidPhase(t) + gap
  <2> DEFINE a == MidPhase(t)
             b == MidPhase(t + gap)
  <2>1. t >= MidFirst /\ t + gap >= MidFirst /\ a \in Nat /\ b = a + gap
    BY <1>1, <1>2, <1>5
  <2>2. /\ Marked(t) <=> a < MidTotal
        /\ Marked(t + gap) <=> b < MidTotal
    BY <2>1 DEF Marked
  <2>3. /\ MidLed(t) <=> a < MidOn \/ (MidOn + MidGap <= a /\ a < MidTotal)
        /\ MidLed(t + gap) <=> b < MidOn \/ (MidOn + MidGap <= b /\ b < MidTotal)
    BY <1>1, <2>1, <2>2 DEF MidLed
  <2>4. /\ MidLed(t) \in BOOLEAN /\ MidLed(t + gap) \in BOOLEAN
    BY DEF MidLed
  <2>5. /\ LedAge(t) = a - (IF a < MidOn THEN 0 ELSE IF a < MidOn + MidGap THEN MidOn
                            ELSE IF a < MidTotal THEN MidOn + MidGap ELSE MidTotal)
        /\ LedAge(t + gap) = b - (IF b < MidOn THEN 0 ELSE IF b < MidOn + MidGap THEN MidOn
                                  ELSE IF b < MidTotal THEN MidOn + MidGap ELSE MidTotal)
    BY DEF LedAge
  <2> HIDE DEF a, b
  <2>6. CASE \/ a < MidOn /\ b < MidOn
             \/ MidOn <= a /\ a < MidOn + MidGap /\ b < MidOn + MidGap
             \/ MidOn + MidGap <= a /\ a < MidTotal /\ b < MidTotal
             \/ MidTotal <= a
    <3>1. MidLed(t + gap) = MidLed(t)
      BY <1>1, <2>1, <2>3, <2>4, <2>6
    <3>2. LedAge(t + gap) = LedAge(t) + gap
      BY <1>1, <2>1, <2>5, <2>6
    <3> QED BY <2>1, <3>1, <3>2
  <2>7. CASE \/ a < MidOn /\ b >= MidOn
             \/ MidOn <= a /\ a < MidOn + MidGap /\ b >= MidOn + MidGap
             \/ MidOn + MidGap <= a /\ a < MidTotal /\ b >= MidTotal
    <3>1. LedAge(t + gap) < gap /\ LedAge(t) + gap >= LogPeriod + MaxGap
      BY <1>1, <2>1, <2>5, <2>7
    <3> QED BY <2>1, <3>1
  <2> QED BY <1>1, <2>1, <2>6, <2>7
<1>6. CASE /\ t >= MidFirst /\ Begun(t + gap) = Begun(t) + 1
           /\ MidPhase(t + gap) = MidPhase(t) + gap - MidInterval
           /\ MidPhase(t) + gap >= MidInterval
  <2>1. /\ t + gap >= MidFirst /\ MidPhase(t + gap) < MidOn /\ MidPhase(t + gap) < gap
        /\ MidPhase(t) >= MidTotal /\ MidPhase(t + gap) \in Nat /\ MidPhase(t) \in Nat
    BY <1>1, <1>2, <1>6
  <2>2. LedAge(t + gap) = MidPhase(t + gap) /\ LedAge(t) = MidPhase(t) - MidTotal
    BY <1>1, <2>1 DEF LedAge
  <2> QED BY <1>1, <1>6, <2>1, <2>2
<1> QED BY <1>1, <1>3, <1>4, <1>5, <1>6, Later

(* In a sync: the LED changes only once a row shows it. *)
LEMMA SyncLed ==
  ASSUME PhasesLast, NEW p \in {StartPattern, EndPattern}, SyncsTo(p), NEW gap \in Gaps,
         logAge \in Nat, logAge < LogPeriod, log \in Log, led \in BOOLEAN,
         log.led # led => stepAge <= logAge
  PROVE  /\ StepOver(p, gap) => log.led = led
         /\ PatternGoesOn(p, gap) =>
              /\ led' # led => log.led = led
              /\ log'.led # led' => stepAge' <= logAge'
              /\ syncStep' = syncStep => led' = led
<1>1. /\ IsPattern(p) /\ PatternTime(p) <= Duration /\ gap \in Nat \ {0} /\ gap <= MaxGap
      /\ LogPeriod \in Nat /\ MaxGap \in Nat
  BY ExperimentAssumption DEF Gaps
<1>2. /\ syncStep \in 1 .. Len(p) /\ stepAge \in Nat
      /\ p[syncStep].duration >= LogPeriod + MaxGap /\ p[syncStep].duration \in Nat
  BY <1>1, Durations DEF PhasesLast, SyncsTo
<1>3. stepAge + gap >= p[syncStep].duration => log.led = led
  BY <1>1, <1>2
<1>4. StepOver(p, gap) => log.led = led
  BY <1>2, <1>3, <1>1, Durations DEF StepOver
<1>5. ASSUME PatternGoesOn(p, gap)
      PROVE  /\ led' # led => log.led = led
             /\ log'.led # led' => stepAge' <= logAge'
             /\ syncStep' = syncStep => led' = led
  <2>1. /\ SyncsTo(p)'
        /\ syncStep' = syncStep => stepAge' = stepAge + gap /\ led' = led
        /\ syncStep' # syncStep => stepAge' < gap /\ stepAge + gap >= p[syncStep].duration
    BY <1>1, <1>5, SyncsToOn
  <2>2. led' \in BOOLEAN /\ stepAge' \in Nat /\ event' = event
    BY <1>1, <1>5, <2>1, Durations DEF SyncsTo, PatternGoesOn
  <2>3. led' # led => log.led = led
    BY <1>3, <2>1
  <2>4. LogIfDue(gap)
    BY <1>5 DEF PatternGoesOn
  <2>5. CASE logAge' = 0 /\ log' = Row(log, event', led')
    <3>1. log'.led = led'
      BY <2>5 DEF Row
    <3> QED BY <2>1, <2>3, <3>1
  <2>6. CASE logAge + gap < LogPeriod /\ logAge' = logAge + gap /\ log' = log
    BY <1>1, <1>2, <2>1, <2>2, <2>3, <2>6
  <2> QED BY <2>4, <2>5, <2>6, RowOrNot
<1> QED BY <1>4, <1>5

(* What an update does to the LED in a run, and what the log then knows. *)
LEMMA UpdateLed ==
  ASSUME PhasesLast, VideoInv, LedInv, NEW gap \in Gaps, NEW sample \in Samples,
         Update(gap, sample), Lights(gap, sample), Running
  PROVE  LedInv' /\ (state' # "ESTOP" /\ pin' # pin => log.led = pin)
<1>0. /\ log \in Log /\ log.led \in BOOLEAN /\ logAge \in Nat /\ logAge < LogPeriod /\ led \in BOOLEAN
      /\ gap \in Nat \ {0} /\ gap <= MaxGap /\ MaxGap \in Nat
      /\ LogPeriod \in Nat \ {0} /\ Duration \in Nat /\ MarksLast /\ pin = led
  BY ExperimentAssumption DEF VideoInv, LedInv, Log, Gaps, PhasesLast
<1>1. SetSyncLed
  BY DEF Lights, Guiding
<1>2. state # state' => pin' = led'
  BY <1>1 DEF SetSyncLed, PinUntouched
<1>3. CASE StartSyncStops(gap, sample)
  <2>1. state' = "ESTOP"
    BY <1>3 DEF StartSyncStops, Estop
  <2> QED BY <2>1 DEF LedInv, Running
<1>4. CASE StartSync(gap, sample) \/ EndSync(gap)
  <2>1. PICK p \in {StartPattern, EndPattern} :
          SyncsTo(p) /\ PatternGoesOn(p, gap) /\ state \in {"START_SYNC", "END_SYNC"} /\ state' = state
    BY <1>4 DEF StartSync, EndSync, VideoInv
  <2>2. /\ led' # led => log.led = led
        /\ log'.led # led' => stepAge' <= logAge'
        /\ syncStep' = syncStep => led' = led
    BY <1>0, <2>1, SyncLed DEF LedInv
  <2>3. pin' = led'
    BY <1>0, <1>1, <2>1, <2>2 DEF SetSyncLed, PinUntouched
  <2> QED BY <1>0, <2>1, <2>2, <2>3 DEF LedInv
<1>5. CASE BeginMeasurement(gap, sample)
  <2>1. /\ state = "START_SYNC" /\ state' = "RUNNING" /\ age' = 0 /\ led' = FALSE
        /\ StepOver(StartPattern, gap)
    BY <1>5 DEF BeginMeasurement, PatternOver
  <2>2. log'.led = FALSE
    BY <1>5 DEF BeginMeasurement, Row
  <2>3. log.led = led
    BY <1>0, <2>1, SyncLed DEF LedInv, VideoInv
  <2>4. MidLed(0) = FALSE
    BY Constants DEF PhasesLast, MidLed, Marked
  <2> QED BY <1>0, <1>2, <2>1, <2>2, <2>3, <2>4 DEF LedInv
<1>6. CASE Measure(gap)
  <2>1. /\ state = "RUNNING" /\ state' = "RUNNING" /\ age' = Least(age + gap, Duration)
        /\ ~(age + gap >= Duration) /\ led' = MidLed(age') /\ LogIfDue(gap)
    BY <1>6 DEF Measure, MeasurementOver
  <2>2. age \in Nat /\ led = MidLed(age) /\ (log.led # led => age >= MidFirst /\ LedAge(age) <= logAge)
    BY <1>0, <2>1 DEF VideoInv, LedInv
  <2>3. age' = age + gap
    BY <1>0, <2>1, <2>2 DEF Least
  <2>4. pin' = led'
    BY <1>1, <2>1 DEF SetSyncLed, PinUntouched
  <2>5. age >= MidFirst => LedAge(age) \in Int
    <3>1. age >= MidFirst => MidPhase(age) \in Nat
      BY <1>0, <2>2, Constants, Phases
    <3> QED BY <1>0, <3>1, Constants DEF LedAge
  <2>6. CASE log.led # led
    <3>1. age >= MidFirst /\ LedAge(age) <= logAge /\ LedAge(age) + gap < LogPeriod + MaxGap
          /\ MidFirst \in Nat
      BY <1>0, <2>2, <2>5, <2>6, Constants
    <3>2. MidLed(age + gap) = MidLed(age) /\ LedAge(age + gap) = LedAge(age) + gap
      BY <1>0, <2>2, <2>5, <3>1, LedLater
    <3>3. led' = led /\ age' >= MidFirst /\ LedAge(age') = LedAge(age) + gap
      BY <1>0, <2>1, <2>2, <2>3, <3>1, <3>2
    <3>4. log'.led # led' => LedAge(age') <= logAge'
      <4>1. CASE logAge' = 0 /\ log' = Row(log, event', led')
        BY <4>1 DEF Row
      <4>2. CASE logAge + gap < LogPeriod /\ logAge' = logAge + gap /\ log' = log
        BY <1>0, <2>5, <3>1, <3>3, <4>2
      <4> QED BY <1>0, <2>1, <4>1, <4>2, RowOrNot
    <3> QED BY <1>0, <2>1, <2>4, <3>3, <3>4 DEF LedInv
  <2>7. CASE log.led = led
    <3>1. CASE logAge' = 0 /\ log' = Row(log, event', led')
      <4>1. log'.led = led'
        BY <3>1 DEF Row
      <4> QED BY <1>0, <2>1, <2>4, <2>7, <4>1 DEF LedInv
    <3>2. CASE logAge + gap < LogPeriod /\ logAge' = logAge + gap /\ log' = log
      <4>1. led' # led => age' >= MidFirst /\ LedAge(age') < gap
        BY <2>1, <2>2, <2>3, LedLater
      <4>2. age' >= MidFirst => LedAge(age') \in Int
        <5>1. age' >= MidFirst => MidPhase(age') \in Nat
          BY <1>0, <2>2, <2>3, Constants, Phases
        <5> QED BY <1>0, <5>1, Constants DEF LedAge
      <4>3. log'.led # led' => age' >= MidFirst /\ LedAge(age') <= logAge'
        BY <1>0, <2>7, <3>2, <4>1, <4>2
      <4> QED BY <1>0, <2>1, <2>4, <2>7, <4>3 DEF LedInv
    <3> QED BY <1>0, <2>1, <3>1, <3>2, RowOrNot
  <2> QED BY <2>6, <2>7
<1>7. CASE FinishRun(gap)
  <2>1. /\ state = "RUNNING" /\ state' = "END_SYNC" /\ age + gap >= Duration
        /\ stepAge' = 0 /\ led' = EndPattern[1].on /\ logAge' = 0
    BY <1>7 DEF FinishRun, MeasurementOver
  <2>2. /\ age \in Nat /\ age < Duration /\ led = MidLed(age) /\ Tells(log, age, logAge)
        /\ log.led # led => age >= MidFirst /\ LedAge(age) <= logAge
    BY <1>0, <2>1 DEF VideoInv, LedInv
  <2>3. MidLed(age + gap) = FALSE
    BY <1>0, <2>1, <2>2, MarksOver
  <2>4. led => log.led = led
    <3> SUFFICES ASSUME led, log.led # led PROVE FALSE
      OBVIOUS
    <3>1. MidPhase(age) \in Nat
      BY <1>0, <2>2, Constants, Phases
    <3>2. LedAge(age) \in Int
      BY <1>0, <3>1, Constants DEF LedAge
    <3>3. LedAge(age) + gap < LogPeriod + MaxGap /\ MidFirst \in Nat
      BY <1>0, <2>2, <3>2, Constants
    <3>4. MidLed(age + gap) = MidLed(age)
      BY <1>0, <2>2, <3>2, <3>3, LedLater
    <3> QED BY <2>2, <2>3, <3>4
  <2>5. led' = FALSE
    <3>1. EndPattern[1].on \in BOOLEAN
      BY Durations, ExperimentAssumption
    <3> QED BY <2>1, <3>1 DEF PhasesLast
  <2>6. pin' # pin => log.led = pin
    BY <1>0, <1>2, <2>1, <2>4, <2>5
  <2> QED BY <1>2, <2>1, <2>6 DEF LedInv
<1>8. CASE Finish(gap)
  <2>1. /\ state = "END_SYNC" /\ state' = "FINISHED" /\ led' = FALSE /\ StepOver(EndPattern, gap)
    BY <1>8 DEF Finish, PatternOver
  <2>2. log.led = led
    BY <1>0, <2>1, SyncLed DEF LedInv, VideoInv
  <2> QED BY <1>0, <1>2, <2>1, <2>2 DEF LedInv, Running
<1>9. ~(Calibrate(gap, sample) \/ Settle(gap) \/ Rest(gap))
  BY DEF Calibrate, Settle, Rest, Running
<1> QED BY <1>3, <1>4, <1>5, <1>6, <1>7, <1>8, <1>9 DEF Update

(* The same of every step. *)
LEMMA NextLed ==
  ASSUME PhasesLast, VideoInv, LedInv, [AttNext]_attVars
  PROVE  LedInv' /\ (Running /\ state' # "ESTOP" /\ pin' # pin => log.led = pin)
<1>1. CASE AttUpdates
  <2> PICK gap \in Gaps, sample \in Samples, falling \in BOOLEAN : AttUpdate(gap, sample, falling)
    BY <1>1 DEF AttUpdates
  <2>1. Update(gap, sample) /\ Lights(gap, sample)
    BY DEF AttUpdate
  <2>2. CASE Running
    BY <2>1, <2>2, UpdateLed
  <2>3. CASE ~Running
    <3>1. ~Running'
      BY <2>1, <2>3 DEF Update, Calibrate, Settle, Rest, StartSyncStops, StartSync, BeginMeasurement,
                        Measure, FinishRun, EndSync, Finish, Running
    <3> QED BY <2>3, <3>1 DEF LedInv, Running
  <2> QED BY <2>2, <2>3
<1>2. CASE AttStop
  BY <1>2 DEF AttStop, RequestEmergencyStop, Estop, LedInv, Running
<1>3. CASE AttClear
  BY <1>3 DEF AttClear, Clear, LedInv, Running
<1>4. CASE AttStart
  <2>1. /\ state' = "START_SYNC" /\ ~Running /\ pin' = led'
    BY <1>4 DEF AttStart, Start, Running
  <2>2. log'.led = led'
    BY <1>4 DEF AttStart, Start, Row
  <2> QED BY <2>1, <2>2 DEF LedInv
<1>5. CASE UNCHANGED attVars
  BY <1>5 DEF attVars, vars, guideVars, syncVars, logVars, LedInv, Running
<1> QED BY <1>1, <1>2, <1>3, <1>4, <1>5 DEF AttNext

(* The LED does not change in a run before a row shows it as it is, whatever the
   startup guide did before: logSampleIfDue, updateStartupPoseGuide. *)
THEOREM LedCorrect == ASSUME PhasesLast PROVE AttSpec => EveryPhaseLogged
<1>1. AttInit => VideoInv /\ LedInv
  BY InitVideo DEF AttInit, Init, LedInv, Running
<1>2. VideoInv /\ LedInv /\ [AttNext]_attVars => VideoInv' /\ LedInv'
  <2>1. [AttNext]_attVars => [Next]_vars
    BY DEF AttNext, AttUpdates, AttUpdate, AttStop, AttClear, AttStart, attVars, Next, Updates
  <2> QED BY <2>1, NextVideo, NextLed DEF PhasesLast
<1>3. VideoInv /\ LedInv /\ [AttNext]_attVars =>
        (Running /\ state' # "ESTOP" /\ pin' # pin => log.led = pin)
  BY NextLed
<1> QED BY <1>1, <1>2, <1>3, PTL DEF AttSpec, EveryPhaseLogged

-----------------------------------------------------------------------------
(* Liveness.  ENABLED and induction over the time of a behaviour are out of the
   provers' reach: what the theorem needs of them are its hypotheses. *)

(* An update, which takes time, is possible throughout a run. *)
Enabling == Running => ENABLED <<AttUpdates>>_attVars

(* A natural number that falls again and again also rises again and again. *)
Descent(n) == []<><<n' < n>>_attVars => []<><<n' > n>>_attVars

(* What the present part of the run may still last. *)
TimeLeft == Duration - age

Falls == <<TimeLeft' < TimeLeft>>_attVars
Rises == <<TimeLeft' > TimeLeft>>_attVars

InPart(s) == state = s

(* How long a part lasts, whether or not its marks are long enough for a row. *)
ClockInv ==
  /\ state = "START_SYNC" => SyncsTo(StartPattern)
  /\ state = "RUNNING" => age \in 0 .. Duration - 1
  /\ state = "END_SYNC" => SyncsTo(EndPattern)

(* A part of a run lasts, with less time left, or gives way to the next. *)
PartMoves ==
  /\ InPart("START_SYNC") =>
       \/ ~<<AttUpdates>>_attVars /\ ~Rises /\ InPart("START_SYNC")'
       \/ Falls /\ ~Rises /\ InPart("START_SYNC")'
       \/ InPart("RUNNING")' \/ ~Running'
  /\ InPart("RUNNING") =>
       \/ ~<<AttUpdates>>_attVars /\ ~Rises /\ InPart("RUNNING")'
       \/ Falls /\ ~Rises /\ InPart("RUNNING")'
       \/ InPart("END_SYNC")' \/ ~Running'
  /\ InPart("END_SYNC") =>
       \/ ~<<AttUpdates>>_attVars /\ ~Rises /\ InPart("END_SYNC")'
       \/ Falls /\ ~Rises /\ InPart("END_SYNC")'
       \/ ~Running'

(* A sync that goes on has aged, and is not over. *)
LEMMA SyncAges ==
  ASSUME NEW p, IsPattern(p), PatternTime(p) <= Duration, SyncsTo(p), NEW gap \in Gaps,
         PatternGoesOn(p, gap)
  PROVE  SyncsTo(p)' /\ age \in Int /\ age' \in Int /\ age' > age
<1>1. SyncsTo(p)'
  BY SyncsToOn
<1>2. /\ syncStep \in 1 .. Len(p) /\ stepAge \in Nat /\ stepAge < p[syncStep].duration
      /\ age = Over(p)[syncStep - 1] + stepAge
  BY DEF SyncsTo
<1>3. /\ Over(p)[syncStep - 1] \in Nat /\ Over(p)[syncStep] \in Nat /\ Over(p)[Len(p)] \in Nat
      /\ p[syncStep].duration \in Nat
      /\ Over(p)[syncStep] = Over(p)[syncStep - 1] + p[syncStep].duration
  BY <1>2, Durations, OverIs, OverType
<1>4. Over(p)[syncStep] <= Over(p)[Len(p)]
  <2>1. syncStep \in 0 .. Len(p) /\ Len(p) \in 0 .. Len(p) /\ syncStep <= Len(p)
    BY <1>2, Durations
  <2> QED BY <2>1, OverGrows
<1>5. Over(p)[Len(p)] <= Duration /\ Duration \in Nat /\ gap \in Nat \ {0}
  BY ExperimentAssumption DEF PatternTime, Gaps
<1>6. age \in Nat /\ age < Duration
  <2> DEFINE o == Over(p)[syncStep - 1]
             e == Over(p)[syncStep]
             l == Over(p)[Len(p)]
             d == p[syncStep].duration
  <2>1. /\ o \in Nat /\ e \in Nat /\ l \in Nat /\ d \in Nat
        /\ e = o + d /\ age = o + stepAge /\ stepAge \in Nat /\ stepAge < d
        /\ e <= l /\ l <= Duration
    BY <1>2, <1>3, <1>4, <1>5
  <2> HIDE DEF o, e, l, d
  <2> QED BY <1>5, <2>1
<1>7. age' = Least(age + gap, Duration)
  BY DEF PatternGoesOn
<1> QED BY <1>1, <1>5, <1>6, <1>7 DEF Least

(* What an update of a run makes of its parts. *)
LEMMA UpdateAges ==
  ASSUME ClockInv, Running, NEW gap \in Gaps, NEW sample \in Samples, Update(gap, sample)
  PROVE  /\ ClockInv'
         /\ \/ state' = state /\ age \in Int /\ age' \in Int /\ age' > age
            \/ state = "START_SYNC" /\ state' = "RUNNING"
            \/ state = "RUNNING" /\ state' = "END_SYNC"
            \/ ~Running'
<1>1. /\ IsPattern(StartPattern) /\ IsPattern(EndPattern) /\ Duration \in Nat \ {0} /\ gap \in Nat \ {0}
      /\ PatternTime(StartPattern) <= Duration /\ PatternTime(EndPattern) <= Duration
  BY ExperimentAssumption DEF Gaps
<1>2. CASE Calibrate(gap, sample) \/ Settle(gap) \/ Rest(gap)
  BY <1>2 DEF Calibrate, Settle, Rest, Running
<1>3. CASE StartSyncStops(gap, sample) \/ Finish(gap)
  BY <1>3 DEF StartSyncStops, Estop, Finish, Running, ClockInv
<1>4. CASE StartSync(gap, sample)
  <2>1. state = "START_SYNC" /\ state' = "START_SYNC" /\ PatternGoesOn(StartPattern, gap)
    BY <1>4 DEF StartSync
  <2> QED BY <1>1, <2>1, SyncAges DEF ClockInv
<1>5. CASE BeginMeasurement(gap, sample)
  <2>1. state = "START_SYNC" /\ state' = "RUNNING" /\ age' = 0
    BY <1>5 DEF BeginMeasurement
  <2> QED BY <1>1, <2>1 DEF ClockInv
<1>6. CASE Measure(gap)
  <2>1. /\ state = "RUNNING" /\ state' = "RUNNING" /\ age' = Least(age + gap, Duration)
        /\ ~(age + gap >= Duration)
    BY <1>6 DEF Measure, MeasurementOver
  <2> QED BY <1>1, <2>1 DEF ClockInv, Least
<1>7. CASE FinishRun(gap)
  <2>1. /\ state = "RUNNING" /\ state' = "END_SYNC" /\ age' = 0
        /\ syncStep' = 1 /\ stepAge' = 0 /\ led' = EndPattern[1].on
    BY <1>7 DEF FinishRun
  <2> QED BY <1>1, <2>1, SyncsToBegin DEF ClockInv
<1>8. CASE EndSync(gap)
  <2>1. state = "END_SYNC" /\ state' = "END_SYNC" /\ PatternGoesOn(EndPattern, gap)
    BY <1>8 DEF EndSync
  <2> QED BY <1>1, <2>1, SyncAges DEF ClockInv
<1> QED BY <1>2, <1>3, <1>4, <1>5, <1>6, <1>7, <1>8 DEF Update

(* The parts of a run, and what is left of each. *)
LEMMA RunParts == ClockInv /\ [AttNext]_attVars => ClockInv' /\ PartMoves
<1> SUFFICES ASSUME ClockInv, [AttNext]_attVars
             PROVE  ClockInv' /\ PartMoves
  OBVIOUS
<1> USE DEF InPart
<1>1. CASE AttUpdates /\ Running
  <2>1. PICK gap \in Gaps, sample \in Samples : Update(gap, sample)
    BY <1>1 DEF AttUpdates, AttUpdate
  <2>2. ClockInv'
    BY <1>1, <2>1, UpdateAges
  <2>3. CASE state' = state /\ age \in Int /\ age' \in Int /\ age' > age
    <3>1. Duration \in Int
      BY ExperimentAssumption
    <3>2. TimeLeft' < TimeLeft /\ ~(TimeLeft' > TimeLeft)
      <4>1. age \in Int /\ age' \in Int /\ age' > age
        BY <2>3
      <4>2. \A d, a, b \in Int : b > a => d - b < d - a /\ ~(d - b > d - a)
        OBVIOUS
      <4>3. Duration - age' < Duration - age /\ ~(Duration - age' > Duration - age)
        BY <3>1, <4>1, <4>2
      <4> QED BY <4>3, Zenon DEF TimeLeft
    <3>3. attVars' # attVars
      BY <2>3 DEF attVars, vars
    <3> QED BY <2>2, <2>3, <3>2, <3>3 DEF PartMoves, Falls, Rises
  <2>4. CASE \/ state = "START_SYNC" /\ state' = "RUNNING"
             \/ state = "RUNNING" /\ state' = "END_SYNC"
             \/ ~Running'
    BY <2>2, <2>4 DEF PartMoves
  <2> QED BY <1>1, <2>1, <2>3, <2>4, UpdateAges
<1>2. CASE AttUpdates /\ ~Running
  <2>1. PICK gap \in Gaps, sample \in Samples : Update(gap, sample)
    BY <1>2 DEF AttUpdates, AttUpdate
  <2>2. state' \in {"STARTUP_GYRO_CALIB", "MADGWICK_SETTLING", "READY_TO_MEASURE", "FINISHED", "ESTOP"}
    BY <1>2, <2>1 DEF Update, Calibrate, Settle, Rest, StartSyncStops, StartSync, BeginMeasurement,
                      Measure, FinishRun, EndSync, Finish, Running
  <2> QED BY <1>2, <2>2 DEF ClockInv, PartMoves, Running
<1>3. CASE AttStop
  BY <1>3 DEF AttStop, RequestEmergencyStop, Estop, ClockInv, PartMoves, Running
<1>4. CASE AttClear
  BY <1>4 DEF AttClear, Clear, ClockInv, PartMoves, Running
<1>5. CASE AttStart
  <2>1. /\ state \notin {"START_SYNC", "RUNNING", "END_SYNC"}
        /\ state' = "START_SYNC" /\ age' = 0 /\ syncStep' = 1 /\ stepAge' = 0
        /\ led' = StartPattern[1].on
    BY <1>5 DEF AttStart, Start
  <2>2. IsPattern(StartPattern)
    BY ExperimentAssumption
  <2> QED BY <2>1, <2>2, SyncsToBegin DEF ClockInv, PartMoves
<1>6. CASE UNCHANGED attVars
  <2>1. UNCHANGED <<state, age, syncStep, stepAge, led>>
    BY <1>6 DEF attVars, vars, syncVars
  <2> QED BY <1>6, <2>1 DEF ClockInv, SyncsTo, PartMoves, Rises
<1> QED BY <1>1, <1>2, <1>3, <1>4, <1>5, <1>6 DEF AttNext

(* Every run ends, finished or stopped, however late the updates and whatever the
   samples, if an update is enabled as it is said to be and the time left of a part
   does not fall for ever: the steps of a sync and the measurement take the time of
   the updates from what is left. *)
THEOREM RunsEnd == AttSpec /\ []Enabling /\ Descent(TimeLeft) => RunEnds
<1> DEFINE Hypotheses == AttSpec /\ []Enabling /\ Descent(TimeLeft)
<1>1. AttSpec => []ClockInv
  <2>1. AttInit => ClockInv
    BY DEF AttInit, Init, ClockInv
  <2> QED BY <2>1, RunParts, PTL DEF AttSpec
<1>2. Running <=> InPart("START_SYNC") \/ InPart("RUNNING") \/ InPart("END_SYNC")
  BY DEF Running, InPart
<1>3. Running /\ Enabling => ENABLED <<AttUpdates>>_attVars
  BY DEF Enabling
<1>4. Hypotheses => (InPart("END_SYNC") ~> ~Running)
  BY <1>1, <1>2, <1>3, RunParts, PTL DEF AttSpec, AttFairness, Descent, PartMoves, Falls, Rises
<1>5. Hypotheses => (InPart("RUNNING") ~> ~Running)
  BY <1>1, <1>2, <1>3, <1>4, RunParts, PTL DEF AttSpec, AttFairness, Descent, PartMoves, Falls, Rises
<1>6. Hypotheses => (InPart("START_SYNC") ~> ~Running)
  BY <1>1, <1>2, <1>3, <1>5, RunParts, PTL DEF AttSpec, AttFairness, Descent, PartMoves, Falls, Rises
<1> QED BY <1>2, <1>4, <1>5, <1>6, PTL DEF RunEnds
=============================================================================
