------------------------------ MODULE Prediction ------------------------------
(***************************************************************************)
(* What the solver predicts at a zero crossing: the peak the body reaches   *)
(* without a pulse, the charge of a pulse, the peak with that charge and    *)
(* the energy of a peak.                                                    *)
(*                                                                         *)
(* The floats are integers here: amplitudes in 1/100 deg, rates in dps,     *)
(* currents in mA, charges in 1/100 mA s, energies in 10 nm of height.      *)
(* A charge too small for these units adds nothing here, in the code a      *)
(* little: no property may rest on a pulse that adds nothing.               *)
(***************************************************************************)
EXTENDS Integers

CONSTANTS
  WidthMs,         \* milliseconds of a unit of width
  Rise,            \* tau (1 - exp(-width / tau)), in 1/10 ms
  Tau,             \* predictRiseTauS, in 1/10 ms
  Goal,            \* predictCurrentGoalMa, of the voltage in mV
  Remains,         \* exp(-gap / 70 ms), in per mille, of the gap in ms
  SideCorrection   \* SIDE_RESPONSE_CORRECTION_ENABLED

ASSUME PredictionAssumption ==
  /\ WidthMs \in Nat \ {0} /\ Tau \in Nat \ {0} /\ SideCorrection \in BOOLEAN
  /\ \A width \in DOMAIN Rise : width \in Nat /\ Rise[width] \in 0 .. Tau
  /\ \A mV \in DOMAIN Goal : mV \in Nat /\ Goal[mV] \in Nat
  /\ \A gap \in DOMAIN Remains : gap \in Nat /\ Remains[gap] \in 0 .. 1000

Sides == {-1, 1}

Magnitude(x)    == IF x < 0 THEN -x ELSE x
NotNegative(x)  == IF x < 0 THEN 0 ELSE x
Within(x, bound) == IF x > bound THEN bound ELSE IF x < -bound THEN -bound ELSE x

-----------------------------------------------------------------------------
(* Without a pulse. *)

(* rate_baseline::evaluate. *)
FreePeak(rate, side) ==
  NotNegative(IF side > 0 THEN 722 + (2868 * (rate - 65)) \div 100
                          ELSE 840 + (1308 * (rate - 65)) \div 100)

(* The previous peaks that the correction was fitted on. *)
Support(side) == IF side > 0 THEN 720 .. 934 ELSE 696 .. 875

PreviousPeakCorrection(previous, side) ==
  Within(IF side > 0 THEN 59 - (44 * (previous - 800)) \div 100
                     ELSE (59 * (previous - 800)) \div 100 - 16, 70)

(* previous_peak_control::evaluate: for the one supported target, ten seconds
   into the run. *)
CorrectedFreePeak(free, previous, side, wanted, late) ==
  IF late /\ wanted = 800 /\ previous \in Support(side)
    THEN NotNegative(free + PreviousPeakCorrection(previous, side))
    ELSE free

-----------------------------------------------------------------------------
(* With a pulse. *)

(* updatePulseModelPrediction: an absent measurement counts as the reference,
   and any other is brought into the range the model was fitted in. *)
ModelVoltage(mV) ==
  IF mV < 1000 THEN 7500 ELSE IF mV < 6180 THEN 6180 ELSE IF mV > 8020 THEN 8020 ELSE mV

(* predictedChargeMaS, whose size the solver takes: the charge of a pulse, on
   top of the current i0 that the last one left. *)
Charge(i0, direction, goal, width) ==
  Magnitude(direction * goal * width * WidthMs * 10
              + (i0 - direction * goal) * Rise[width]) \div 100

(* The current at the end of a pulse. *)
EndCurrent(i0, direction, goal, width) ==
  direction * goal + ((i0 - direction * goal) * (Tau - Rise[width])) \div Tau

Decayed(current, gap) == (current * Remains[gap]) \div 1000

(* energyControlAutonomousGainForSide, per mA s. *)
Gain(side) == IF side > 0 THEN 29 ELSE 25

(* energyControlAutonomousCorrectionParameters. *)
SideOffset(side)    == IF side > 0 THEN 25 ELSE -62
SideExtraGain(side) == IF side > 0 THEN 18 ELSE 20

(* energyControlAutonomousCorrectedPrediction. *)
Peak(free, side, charge) ==
  NotNegative(free + (Gain(side) * charge) \div 100
    + IF SideCorrection
        THEN Within(SideOffset(side) + (SideExtraGain(side) * charge) \div 100, 150)
        ELSE 0)

-----------------------------------------------------------------------------
(* energyControlPotentialJ: the body stands on its inner edges up to Inner, then
   rolls up to Outer.  Beyond, the potential is not a number. *)
Inner == 191
Outer == 1746

InDomain(amplitude) == amplitude <= Outer

Potential(amplitude) ==
  IF amplitude <= Inner THEN (87270 * amplitude - 183 * amplitude * amplitude) \div 1000
                        ELSE 8337 + (456 * amplitude * amplitude) \div 10000
=============================================================================
