------------------------------- MODULE Attitude -------------------------------
(***************************************************************************)
(* What the experiment does with each sample besides counting it: the        *)
(* attitude filter, made anew by the calibration and in every run; the zero  *)
(* its angle is counted from; the weight the filter kept for comparison      *)
(* gives the accelerometer; and the startup guide, which drives the same     *)
(* LED.                                                                      *)
(*                                                                         *)
(* An attitude is the run it was made in, 0 before the first: angles of two  *)
(* attitudes cannot be compared.  Weights are whole steps above the floor.   *)
(***************************************************************************)
EXTENDS Experiment

CONSTANTS
  GuideAfter,   \* GUIDE_LED_ON_AFTER_BOOT_MS
  UprightHold,  \* UPRIGHT_STABLE_HOLD_MS
  BetaHold,     \* BETA_HOLD_AFTER_INPUT_MS of the adopted filter
  SoftStart,    \* BETA_SOFT_START_MS
  BetaCeiling,  \* DYNAMIC_BETA_CEILINGS of the adopted filter
  IdleCeiling   \* MADGWICK_BETA_NORMAL; the time the ramp to it takes

ASSUME AttitudeAssumption ==
  /\ GuideAfter \in Nat /\ UprightHold \in Nat
  /\ BetaHold \in Nat /\ SoftStart \in Nat \ {0}
  /\ IdleCeiling \in Nat \ {0} /\ BetaCeiling \in 0 .. IdleCeiling

VARIABLES
  att,        \* mekf_: is it initialised, in which run, with the startup bias?
  zero,       \* the attitude mekf_measurement_zero_abs_deg was taken of, or None
  angle,      \* pitch_mekf_deg: of which attitude, from which zero
  beta,       \* beta_smooth_ of the adopted filter
  pulseEnd,   \* time since last_pulse_end_ms_, or None
  quiet,      \* history: time since the motor was on, up to BetaHold
  guideAge,   \* time since boot, up to GuideAfter
  held,       \* time since startup_upright_since_ms, up to UprightHold, or None
  confirmed,  \* startup_upright_confirmed
  pin         \* the level of SYNC_LED_PIN

attitudeVars == <<att, zero, angle>>
betaVars     == <<beta, pulseEnd, quiet>>
guideVars    == <<guideAge, held, confirmed, pin>>
attVars == <<vars, attitudeVars, betaVars, guideVars>>

None   == -1
RampEnd == BetaHold + SoftStart + IdleCeiling

NoAttitude == [init |-> FALSE, run |-> 0, bias |-> FALSE]

(* begin and beginFilters. *)
AttInit ==
  /\ Init
  /\ att = NoAttitude /\ zero = None /\ angle = [of |-> 0, from |-> None]
  /\ beta = IdleCeiling /\ pulseEnd = None /\ quiet = BetaHold
  /\ guideAge = 0 /\ held = None /\ confirmed = FALSE /\ pin = FALSE

Since(t, gap, limit) == IF t = None THEN None ELSE Least(t + gap, limit)

-----------------------------------------------------------------------------
(* The attitude. *)

(* initializeFromAccel, with the startup bias once it is known: a sample of
   free fall has no direction. *)
MadeIn(r, bias, falling) ==
  IF falling THEN NoAttitude ELSE [init |-> TRUE, run |-> r, bias |-> bias]

(* updateFilterSeries: a filter that is not initialised starts from this sample;
   any other goes on with it. *)
Filtered(sample, falling) ==
  IF sample = "none" \/ att.init THEN att ELSE MadeIn(att.run, biasReady, falling)

CalibrationEnds == biasReady' /\ ~biasReady

(* Then updateStartupCalibration anchors it anew with the bias. *)
Calibrated(sample, falling) ==
  IF CalibrationEnds THEN MadeIn(0, TRUE, falling) ELSE Filtered(sample, falling)

ReinitEnds == reinit'.done /\ ~reinit.done

(* Mutant: an attitude that is initialised is kept. *)
EstimateKeeps(sample, falling) == att' = Calibrated(sample, falling)

(* Then updateStartSync makes it anew of the mean of upright samples. *)
Estimate(sample, falling) ==
  att' = IF ReinitEnds THEN MadeIn(run, biasReady, FALSE) ELSE Calibrated(sample, falling)

MeasurementBegins == state = "START_SYNC" /\ state' = "RUNNING"

(* captureMekfComparisonZero at the start of a measurement. *)
TakeZero == zero' = IF MeasurementBegins THEN att'.run ELSE zero

(* updateDisplayedAngles: with every sample, and once the zero is taken.  The
   attitude is that before this update's re-initialisation. *)
ShowAngle(sample, falling) ==
  angle' = CASE MeasurementBegins -> [of |-> att'.run, from |-> zero']
             [] ~MeasurementBegins /\ sample # "none" -> [of |-> Filtered(sample, falling).run, from |-> zero]
             [] ~MeasurementBegins /\ sample = "none" -> angle

-----------------------------------------------------------------------------
(* The accelerometer's weight. *)

Protected(gap) == motor \/ (pulseEnd # None /\ pulseEnd + gap < BetaHold)

(* betaCeilingForStrategy: a measurement has a lower one. *)
Ceiling == IF state = "RUNNING" THEN BetaCeiling ELSE IdleCeiling

(* The ramp to the idle ceiling: quadratic to the end of the soft start, then
   linear.  That to a lower ceiling takes the same time. *)
Ramp(t) == IF t < SoftStart THEN (t * t) \div (2 * SoftStart) ELSE t - SoftStart \div 2

Recovering(gap) ==
  IF pulseEnd = None
    THEN Ceiling
    ELSE Least((Ramp(pulseEnd + gap - BetaHold) * Ceiling) \div IdleCeiling, Ceiling)

(* updateFilterSeries for a new sample. *)
Weight(gap, sample) ==
  CASE sample = "none" -> beta
    [] sample # "none" /\ Protected(gap) -> 0
    [] sample # "none" /\ ~Protected(gap) /\ beta < Ceiling -> Recovering(gap)
    [] sample # "none" /\ ~Protected(gap) /\ beta >= Ceiling -> Ceiling

(* beginMeasurementRun starts from the ceiling. *)
Weigh(gap, sample) == beta' = IF MeasurementBegins THEN BetaCeiling ELSE Weight(gap, sample)

PulseEnds == state = "RUNNING" /\ state' = "RUNNING" /\ motor /\ ~motor'

(* Mutant: the time of a pulse's end is that of the first. *)
NoteFirstEnd(gap) ==
  pulseEnd' = CASE MeasurementBegins -> None
                [] PulseEnds /\ pulseEnd = None -> 0
                [] OTHER -> Since(pulseEnd, gap, RampEnd)

(* stopActivePulse; a pulse that the run's end cuts has no end of its own. *)
NoteEnd(gap) ==
  pulseEnd' = CASE MeasurementBegins -> None
                [] PulseEnds -> 0
                [] OTHER -> Since(pulseEnd, gap, RampEnd)

Quiet(gap) == quiet' = IF motor THEN 0 ELSE Least(quiet + gap, BetaHold)

-----------------------------------------------------------------------------
(* The LED. *)

(* updateSyncPattern touches the LED as a step begins, every other path always. *)
PinUntouched ==
  /\ state \in {"START_SYNC", "END_SYNC"}
  /\ state' = state /\ syncStep' = syncStep

SetSyncLed == pin' = IF PinUntouched THEN pin ELSE led'

(* A reading is fresh for a while: without a new one it may still be stable. *)
Stable(sample) ==
  CASE sample = "stable" -> {TRUE} [] sample = "unstable" -> {FALSE} [] sample = "none" -> BOOLEAN

GuideAge(gap) == guideAge' = Least(guideAge + gap, GuideAfter)

(* Mutant: the guide goes on in a run. *)
GuideAlways == ~confirmed /\ guideAge' = GuideAfter

(* The guide works between runs, a while after boot, until it is confirmed. *)
Guiding == ~Running /\ ~confirmed /\ guideAge' = GuideAfter

(* updateStartupPoseGuide: the LED is on until the device was stable for a
   while.  A run in between does not begin the while anew. *)
Guide(gap, sample) ==
  \E stable \in Stable(sample) :
    LET since == IF ~stable THEN None ELSE IF held = None THEN 0 ELSE Least(held + gap, UprightHold)
    IN  /\ confirmed' = (since = UprightHold)
        /\ pin' = ~confirmed'
        /\ held' = since

Lights(gap, sample) ==
  /\ GuideAge(gap)
  /\ \/ Guiding /\ Guide(gap, sample)
     \/ ~Guiding /\ SetSyncLed /\ held' = Since(held, gap, UprightHold) /\ UNCHANGED confirmed

-----------------------------------------------------------------------------

(* update(), and the guide that follows it between runs. *)
AttUpdate(gap, sample, falling) ==
  /\ Update(gap, sample)
  /\ Estimate(sample, falling) /\ TakeZero /\ ShowAngle(sample, falling)
  /\ Weigh(gap, sample) /\ NoteEnd(gap) /\ Quiet(gap)
  /\ Lights(gap, sample)

(* A stable sample is none of free fall. *)
AttUpdates ==
  \E gap \in Gaps, sample \in Samples, falling \in BOOLEAN :
    (falling => sample = "unstable") /\ AttUpdate(gap, sample, falling)

AttStop ==
  /\ RequestEmergencyStop
  /\ pin' = FALSE
  /\ UNCHANGED <<attitudeVars, beta, pulseEnd, quiet, guideAge, held, confirmed>>

AttClear ==
  /\ Clear
  /\ pin' = FALSE
  /\ UNCHANGED <<attitudeVars, betaVars, guideAge, held, confirmed>>

(* beginStartSync: the measurement has no zero yet. *)
AttStart ==
  /\ Start
  /\ zero' = None /\ pulseEnd' = None /\ pin' = led'
  /\ UNCHANGED <<att, angle, beta, quiet, guideAge, held, confirmed>>

AttNext == AttUpdates \/ AttStop \/ AttClear \/ AttStart

AttFairness == WF_attVars(AttUpdates)

AttSpec == AttInit /\ [][AttNext]_attVars /\ AttFairness

-----------------------------------------------------------------------------
(* Properties. *)

(* The motor is asked for current only while the angle that decides it is that of
   an attitude made in this run, from enough upright samples in a row and with
   the startup bias, counted from a zero taken of that same attitude:
   updateStartSync, captureMekfComparisonZero, updateDisplayedAngles. *)
MotorOnThisAttitude ==
  motor => /\ MotorOnlyWhenUpright
           /\ att = [init |-> TRUE, run |-> run, bias |-> TRUE]
           /\ angle = [of |-> run, from |-> run]

(* In a measurement the accelerometer's weight does not rise while the motor is
   on, nor for the hold after it: updateFilterSeries and stopActivePulse. *)
BetaHeld ==
  [][state = "RUNNING" /\ state' = "RUNNING" /\ beta' > beta => ~motor /\ quiet' = BetaHold]_attVars

(* The LED does not change in a run before a row shows it as it is, so that every
   phase a video can show is in the log, whatever the startup guide did before:
   logSampleIfDue, updateStartupPoseGuide. *)
EveryPhaseLogged == [][Running /\ state' # "ESTOP" /\ pin' # pin => log.led = pin]_attVars
=============================================================================
