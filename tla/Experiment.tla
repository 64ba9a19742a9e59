------------------------------ MODULE Experiment ------------------------------
(***************************************************************************)
(* The life of ExperimentRunner: gyro calibration and settling after boot,  *)
(* runs of start sync, measurement and end sync, emergency stop and clear,  *)
(* and the rows that tie a run's log to the LED its video shows.            *)
(*                                                                         *)
(* One action per state is one update(), after whatever delay the loop has  *)
(* (gap) and with whatever sample is new.  The current of a measurement is  *)
(* EnergyControl's; here it is on or off.                                   *)
(***************************************************************************)
EXTENDS Integers, Sequences, SequencesExt

CONSTANTS
  CalibTime,     \* STARTUP_GYRO_CALIB_MS
  SettleTime,    \* MADGWICK_SETTLING_MS
  StartPattern,  \* START_SYNC_PATTERN: a sequence of [on, duration]
  EndPattern,    \* END_SYNC_PATTERN
  ReinitTime,    \* MEKF_REINIT_AVERAGE_MS
  MinSamples,    \* MEKF_REINIT_MIN_SAMPLES
  Duration,      \* ENERGY_CONTROL_AUTONOMOUS_DURATION_MS
  MidFirst, MidInterval, MidOn, MidGap, MidTotal,  \* MID_SYNC_*
  LogPeriod,     \* LOG_PERIOD_MS
  MaxGap,        \* bound: time between two updates
  MaxRuns        \* bound: runs in a behaviour

IsPattern(p) == p \in Seq([on : BOOLEAN, duration : Nat \ {0}]) /\ Len(p) > 0

(* The time at which each step of a pattern is over. *)
Over(pattern) ==
  LET over[i \in 0 .. Len(pattern)] == IF i = 0 THEN 0 ELSE over[i - 1] + pattern[i].duration
  IN  over

PatternTime(pattern) == Over(pattern)[Len(pattern)]

ASSUME ExperimentAssumption ==
  /\ CalibTime \in Nat /\ SettleTime \in Nat
  /\ IsPattern(StartPattern) /\ IsPattern(EndPattern)
  /\ PatternTime(StartPattern) <= Duration /\ PatternTime(EndPattern) <= Duration
  /\ ReinitTime \in 1 .. StartPattern[1].duration
  /\ MinSamples \in Nat \ {0} /\ Duration \in Nat \ {0}
  /\ MidOn \in Nat /\ MidGap \in Nat
  /\ MidFirst \in Nat /\ MidTotal \in Nat /\ MidInterval \in Nat
  /\ MidOn + MidGap <= MidTotal /\ MidTotal < MidInterval
  /\ (Duration - MidFirst) % MidInterval \in MidTotal .. MidInterval - MaxGap
  /\ LogPeriod \in Nat \ {0} /\ MaxGap \in Nat \ {0} /\ MaxRuns \in Nat

VARIABLES
  state,      \* status_.state
  calibAge,   \* time since boot, up to CalibTime
  biasReady,  \* bias_ready_
  settleAge,  \* time since settling_start_ms_, up to SettleTime
  run,        \* status_.run_id
  age,        \* time since the present part of the run began, up to Duration;
              \* t_test in a measurement
  syncStep,   \* sync_step_, counted from 1
  stepAge,    \* time since sync_step_start_ms_
  led,        \* status_.led_state
  motor,      \* status_.pulse_active: the last Roller call asked for current
  reinit,     \* g_v46_mekf_run_reinit
  event,      \* status_.sync_event_id
  logAge,     \* time since last_log_us_, up to LogPeriod
  log,        \* the run's rows: the event and LED of the last, and the anchors so far
  upright     \* history: stable samples in a row before this run's re-initialisation

startupVars == <<calibAge, biasReady, settleAge>>
syncVars    == <<syncStep, stepAge>>
logVars     == <<event, logAge, log>>
vars == <<state, startupVars, run, age, syncVars, led, motor, reinit, logVars, upright>>

(* RUNNING is RUNNING_BATCH_SWEEP. *)
States  == {"STARTUP_GYRO_CALIB", "MADGWICK_SETTLING", "READY_TO_MEASURE", "START_SYNC",
            "RUNNING", "END_SYNC", "FINISHED", "ESTOP"}
Running == state \in {"START_SYNC", "RUNNING", "END_SYNC"}
Samples == {"stable", "unstable", "none"}
Gaps    == 1 .. MaxGap

Least(a, b) == IF a <= b THEN a ELSE b

NoRows == [event |-> 0, led |-> FALSE, anchors |-> <<>>]

Init ==
  /\ state = "STARTUP_GYRO_CALIB"
  /\ calibAge = 0 /\ biasReady = FALSE /\ settleAge = 0
  /\ run = 0 /\ age = 0 /\ syncStep = 1 /\ stepAge = 0
  /\ led = FALSE /\ motor = FALSE
  /\ reinit = [active |-> FALSE, done |-> FALSE, count |-> 0]
  /\ event = 0 /\ logAge = 0 /\ log = NoRows /\ upright = 0

-----------------------------------------------------------------------------
(* The log. *)

(* logSampleNow: the rows l and one more.  Rows in a row of one event are one
   anchor. *)
Row(l, e, on) ==
  [event |-> e, led |-> on,
   anchors |-> IF e \in {0, l.event} THEN l.anchors ELSE Append(l.anchors, e)]

(* Rows come more often in a pulse: how often does not matter here. *)
Due(gap) == logAge + gap >= LogPeriod \/ motor'

(* logSampleIfDue, with the event and LED of this update. *)
LogIfDue(gap) ==
  \/ Due(gap) /\ logAge' = 0 /\ log' = Row(log, event', led')
  \/ /\ logAge + gap < LogPeriod \/ ~Due(gap)
     /\ logAge' = Least(logAge + gap, LogPeriod) /\ UNCHANGED log

-----------------------------------------------------------------------------
(* After boot, and between runs. *)

IdleOutputs == led' = FALSE /\ motor' = FALSE

Age(gap) ==
  /\ calibAge' = Least(calibAge + gap, CalibTime)
  /\ settleAge' = IF biasReady THEN Least(settleAge + gap, SettleTime) ELSE 0

(* updateStartupCalibration, for a new sample: the window is that since boot,
   whatever happened in it.  settling_start_ms_ is read off the clock after the
   update took now_ms: where a millisecond begins between the two, the settling
   test of this update wraps and is met at once. *)
Calibrate(gap, sample) ==
  /\ state = "STARTUP_GYRO_CALIB"
  /\ IF sample # "none" /\ calibAge + gap >= CalibTime
       THEN biasReady' = TRUE /\ state' \in {"MADGWICK_SETTLING", "READY_TO_MEASURE"}
       ELSE UNCHANGED <<biasReady, state>>
  /\ IdleOutputs
  /\ UNCHANGED <<run, age, syncVars, reinit, logVars, upright>>

Settle(gap) ==
  /\ state = "MADGWICK_SETTLING"
  /\ state' = IF settleAge + gap >= SettleTime THEN "READY_TO_MEASURE" ELSE state
  /\ IdleOutputs
  /\ UNCHANGED <<biasReady, run, age, syncVars, reinit, logVars, upright>>

Rest(gap) ==
  /\ state \in {"READY_TO_MEASURE", "FINISHED", "ESTOP"}
  /\ IdleOutputs
  /\ UNCHANGED <<state, biasReady, run, age, syncVars, reinit, logVars, upright>>

(* Mutant: a stop leaves the motor to the next update. *)
StopKeepsMotor == state' = "ESTOP" /\ led' = FALSE /\ UNCHANGED motor

(* What requestEmergencyStop changes. *)
Estop == state' = "ESTOP" /\ led' = FALSE /\ motor' = FALSE

(* By the user at any time, or by the checks that guard a run. *)
RequestEmergencyStop ==
  /\ Estop
  /\ UNCHANGED <<startupVars, run, age, syncVars, reinit, logVars, upright>>

(* clearFinishedOrEstop, which settling does not hold back. *)
Clear ==
  /\ ~Running
  /\ state' = IF biasReady THEN "READY_TO_MEASURE" ELSE "STARTUP_GYRO_CALIB"
  /\ led' = FALSE /\ event' = 0
  /\ UNCHANGED <<startupVars, run, age, syncVars, motor, reinit, logAge, log, upright>>

(* startEnergyControlAutonomousCapture with an upright sample, and
   beginStartSync: the first row of the run is its first anchor. *)
Start ==
  /\ state \in {"READY_TO_MEASURE", "FINISHED"} /\ run < MaxRuns
  /\ run' = run + 1
  /\ reinit' = [active |-> TRUE, done |-> FALSE, count |-> 0] /\ upright' = 0
  /\ state' = "START_SYNC" /\ age' = 0
  /\ syncStep' = 1 /\ stepAge' = 0 /\ led' = StartPattern[1].on
  /\ motor' = FALSE
  /\ event' = 1 /\ logAge' = 0 /\ log' = Row(NoRows, 1, led')
  /\ UNCHANGED startupVars

-----------------------------------------------------------------------------
(* The sync patterns. *)

(* Mutant: a step begins when it is noticed. *)
AdvanceLate(pattern, step, since) ==
  IF since < pattern[step].duration THEN [step |-> step, since |-> since]
                                    ELSE [step |-> step + 1, since |-> 0]

(* updateSyncPattern's loop: the step reached, and how long ago it began.  A step
   begins where the last ended, not when it is noticed. *)
Advance(pattern, step, since) ==
  LET left[k \in step .. Len(pattern) + 1] ==
        IF k = step THEN since ELSE left[k - 1] - pattern[k - 1].duration
      Lasts(k) == k > Len(pattern) \/ left[k] < pattern[k].duration
      reached  == CHOOSE k \in step .. Len(pattern) + 1 :
                    Lasts(k) /\ \A j \in step .. k - 1 : ~Lasts(j)
  IN  [step |-> reached, since |-> left[reached]]

Reached(pattern, gap) == Advance(pattern, syncStep, stepAge + gap)

(* The step under way is over. *)
StepOver(pattern, gap) ==
  syncStep <= Len(pattern) => stepAge + gap >= pattern[syncStep].duration

PatternOver(pattern, gap) == StepOver(pattern, gap) /\ Reached(pattern, gap).step > Len(pattern)

(* Mutant: every update begins the step it reaches anew. *)
StepsRestart(pattern, gap) == syncStep' = Reached(pattern, gap).step /\ stepAge' = 0

Steps(pattern, gap) ==
  IF StepOver(pattern, gap)
    THEN syncStep' = Reached(pattern, gap).step /\ stepAge' = Reached(pattern, gap).since
    ELSE stepAge' = stepAge + gap /\ UNCHANGED syncStep

(* The pattern is not over: the LED is as the step reached says. *)
PatternGoesOn(pattern, gap) ==
  /\ ~PatternOver(pattern, gap)
  /\ Steps(pattern, gap)
  /\ led' = IF syncStep' = syncStep THEN led ELSE pattern[syncStep'].on
  /\ motor' = FALSE
  /\ age' = Least(age + gap, Duration)
  /\ UNCHANGED event
  /\ LogIfDue(gap)

-----------------------------------------------------------------------------
(* Start sync: in its first step the attitude is averaged and re-initialised. *)

(* Mutant: an unstable sample is merely not counted. *)
CountSkips(sample) ==
  IF sample = "stable" THEN Least(reinit.count + 1, MinSamples) ELSE reinit.count

(* The stable samples in a row, up to the number that is asked for. *)
Count(sample) ==
  CASE sample = "stable"   -> Least(reinit.count + 1, MinSamples)
    [] sample = "unstable" -> 0
    [] sample = "none"     -> reinit.count

Averaging == reinit.active /\ ~reinit.done /\ syncStep = 1

ReinitDue(gap) == Averaging /\ stepAge + gap >= ReinitTime

Watch(sample) ==
  upright' = CASE sample = "stable" /\ Averaging   -> Least(upright + 1, MinSamples)
               [] sample = "unstable" /\ Averaging -> 0
               [] OTHER                            -> upright

NotUpright(gap, sample) == ReinitDue(gap) /\ Count(sample) < MinSamples

(* The average goes on, or the attitude is re-initialised from it. *)
Reinit(gap, sample) ==
  /\ ~NotUpright(gap, sample)
  /\ Watch(sample)
  /\ reinit' = IF Averaging THEN [active |-> ~ReinitDue(gap), done |-> ReinitDue(gap), count |-> Count(sample)]
                            ELSE reinit

StartSyncStops(gap, sample) ==
  /\ state = "START_SYNC"
  /\ NotUpright(gap, sample)
  /\ Watch(sample)
  /\ reinit' = [active |-> FALSE, done |-> FALSE, count |-> Count(sample)]
  /\ Estop
  /\ UNCHANGED <<biasReady, run, age, syncVars, event>>
  /\ LogIfDue(gap)

StartSync(gap, sample) ==
  /\ state = "START_SYNC"
  /\ Reinit(gap, sample)
  /\ PatternGoesOn(StartPattern, gap)
  /\ UNCHANGED <<state, biasReady, run>>

(* beginMeasurementRun: the row of t_test 0, then the kick, granted or not. *)
BeginMeasurement(gap, sample) ==
  /\ state = "START_SYNC"
  /\ Reinit(gap, sample)
  /\ PatternOver(StartPattern, gap) /\ Steps(StartPattern, gap)
  /\ state' = "RUNNING" /\ age' = 0
  /\ motor' \in BOOLEAN /\ led' = FALSE
  /\ event' = 0 /\ logAge' = 0 /\ log' = Row(log, 2, FALSE)
  /\ UNCHANGED <<biasReady, run>>

-----------------------------------------------------------------------------
(* The measurement, the end sync. *)

MidPhase(t) == (t - MidFirst) % MidInterval

(* Mutant: the last part of the mark has no event. *)
MidEventShort(t) == IF t >= MidFirst /\ MidPhase(t) < MidOn THEN 5 ELSE 0

(* updateMidSyncLed. *)
Marked(t)   == t >= MidFirst /\ MidPhase(t) < MidTotal
MidEvent(t) == IF Marked(t) THEN 5 ELSE 0
MidLed(t)   == Marked(t) /\ ~(MidPhase(t) \in MidOn .. MidOn + MidGap - 1)

MeasurementOver(gap) == age + gap >= Duration

Measure(gap) ==
  /\ state = "RUNNING"
  /\ ~MeasurementOver(gap)
  /\ age' = Least(age + gap, Duration)
  /\ event' = MidEvent(age') /\ led' = MidLed(age')
  /\ motor' \in BOOLEAN
  /\ LogIfDue(gap)
  /\ UNCHANGED <<state, biasReady, run, syncVars, reinit, upright>>

(* Mutant: the row of the end of the measurement is left out. *)
EndRowsOne(l) == Row(l, 4, EndPattern[1].on)

(* The rows of finishRun and beginEndSync. *)
EndRows(l) == Row(Row(l, 3, FALSE), 4, EndPattern[1].on)

(* The last update of a measurement, which may log a row of its own, ends in
   finishRun and beginEndSync. *)
FinishRun(gap) ==
  /\ state = "RUNNING"
  /\ MeasurementOver(gap)
  /\ state' = "END_SYNC" /\ age' = 0
  /\ syncStep' = 1 /\ stepAge' = 0
  /\ motor' = FALSE /\ led' = EndPattern[1].on
  /\ event' = 4 /\ logAge' = 0
  /\ \/ logAge + gap < LogPeriod /\ log' = EndRows(log)
     \/ log' = EndRows(Row(log, MidEvent(age + gap), MidLed(age + gap)))
  /\ UNCHANGED <<biasReady, run, reinit, upright>>

EndSync(gap) ==
  /\ state = "END_SYNC"
  /\ PatternGoesOn(EndPattern, gap)
  /\ UNCHANGED <<state, biasReady, run, reinit, upright>>

Finish(gap) ==
  /\ state = "END_SYNC"
  /\ PatternOver(EndPattern, gap) /\ Steps(EndPattern, gap)
  /\ state' = "FINISHED"
  /\ motor' = FALSE /\ led' = FALSE /\ event' = 0
  /\ LogIfDue(gap)
  /\ UNCHANGED <<biasReady, run, age, reinit, upright>>

-----------------------------------------------------------------------------

Update(gap, sample) ==
  /\ Age(gap)
  /\ \/ Calibrate(gap, sample) \/ Settle(gap) \/ Rest(gap)
     \/ StartSyncStops(gap, sample) \/ StartSync(gap, sample) \/ BeginMeasurement(gap, sample)
     \/ Measure(gap) \/ FinishRun(gap)
     \/ EndSync(gap) \/ Finish(gap)

Updates == \E gap \in Gaps, sample \in Samples : Update(gap, sample)

Next == Updates \/ RequestEmergencyStop \/ Clear \/ Start

(* The worker and the idle loop go on calling update(). *)
Fairness == WF_vars(Updates)

Spec == Init /\ [][Next]_vars /\ Fairness

-----------------------------------------------------------------------------
(* Properties. *)

(* The motor is asked for current only in a measurement whose attitude was
   re-initialised from enough upright samples in a row, with the gyro bias known:
   updateStartSync, beginMeasurementRun and every path out of a measurement. *)
MotorOnlyWhenUpright ==
  motor => state = "RUNNING" /\ reinit.done /\ upright >= MinSamples /\ biasReady

(* During a sync the LED is what the pattern says at this time since the sync
   began, however late the updates were: updateSyncPattern. *)
OnSchedule(pattern) ==
  \E k \in DOMAIN pattern :
    /\ Over(pattern)[k - 1] <= age /\ age < Over(pattern)[k]
    /\ led = pattern[k].on

SyncOnSchedule ==
  /\ state = "START_SYNC" => OnSchedule(StartPattern)
  /\ state = "END_SYNC" => OnSchedule(EndPattern)

(* The anchors a complete run logs: start, t_test 0, the marks, end, end sync. *)
Marks   == (Duration - 1 - MidFirst) \div MidInterval + 1
Anchors == <<1, 2>> \o [i \in 1 .. Marks |-> 5] \o <<3, 4>>

(* The anchors of a run are logged in their order, and a run that finishes has
   logged each: beginStartSync, beginMeasurementRun, updateMidSyncLed, finishRun,
   beginEndSync. *)
AnchorsLogged ==
  /\ Running => IsPrefix(log.anchors, Anchors)
  /\ state = "FINISHED" => log.anchors = Anchors

(* A row comes in every mark, and in the time between two. *)
MarksLast ==
  /\ MidFirst <= Duration
  /\ LogPeriod + MaxGap <= MidTotal /\ LogPeriod + MaxGap <= MidInterval - MidTotal

(* A row comes in every phase of the LED. *)
PhasesLast ==
  /\ MarksLast /\ MidFirst > 0 /\ ~EndPattern[1].on
  /\ MidOn >= LogPeriod + MaxGap /\ MidGap >= LogPeriod + MaxGap
  /\ MidTotal - MidOn - MidGap >= LogPeriod + MaxGap
  /\ \A p \in {StartPattern, EndPattern} : \A k \in 1 .. Len(p) : p[k].duration >= LogPeriod + MaxGap

(* The rows of a run tell what a video of its LED shows. *)
SyncTiesVideo == SyncOnSchedule /\ AnchorsLogged

(* A run ends: finished, or stopped. *)
RunEnds == Running ~> ~Running

(* The wait for the estimators to settle is over when a run starts:
   FIRST_V46_DYNAMIC_VALIDATION.md.  Violated: updateStartupCalibration, where its
   update wraps, and clearFinishedOrEstop. *)
SettledBeforeRun == [][run' # run => settleAge >= SettleTime]_vars
=============================================================================
