--------------------------- MODULE SwingingControl ---------------------------
(***************************************************************************)
(* EnergyControl on a swinging body: the samples are those of an angle that *)
(* goes to and fro, a tick a unit, and may change its amplitude at each     *)
(* passage of the centre.  The rate is its direction; the detector angle is *)
(* the adopted angle Lead ticks ahead (TIMING_COMPENSATION_US).  The sample *)
(* of a turn or of a passage may fail to come.                              *)
(***************************************************************************)
EXTENDS EnergyControl

CONSTANTS
  Amplitudes,  \* of the swing
  Lead         \* ticks the detector angle is ahead

ASSUME SwingingControlAssumption ==
  /\ Amplitudes \subseteq Nat \ {0} /\ Lead \in Nat
  /\ \A a \in Amplitudes : (-a .. a) \subseteq Angles

VARIABLES
  angle,      \* the angle of the body
  direction,  \* where it is going
  amplitude   \* where it will turn

bodyVars == <<angle, direction, amplitude>>
swingVars == <<vars, bodyVars>>

(* The body starts from the centre, to the side the kick sends it. *)
SwingInit == Init /\ angle = 0 /\ direction = 1 /\ amplitude \in Amplitudes

Swing ==
  /\ angle' = angle + direction
  /\ direction' = IF Size(angle') = amplitude THEN -direction ELSE direction
  /\ IF angle' = 0 THEN amplitude' \in Amplitudes ELSE UNCHANGED amplitude

(* The reading of the angle the body is at. *)
Reading == [kind |-> "fresh", angle |-> angle', rate |-> direction,
            detector |-> IF Size(angle') = amplitude THEN Sign(angle')
                                                     ELSE Sign(angle' + Lead * direction)]

(* A sample may be missing where it matters most. *)
MayMiss == Size(angle') = amplitude \/ angle' = 0

Tick == /\ Swing
        /\ Sense(Reading, 1) \/ (MayMiss /\ Sense(NoSample, 1))

(* Every run starts from rest. *)
Begin == BeginMeasurement /\ angle' = 0 /\ direction' = 1 /\ amplitude' \in Amplitudes

SwingNext == \/ Begin
             \/ Tick
             \/ (EmergencyStop \/ React) /\ UNCHANGED bodyVars

SwingSpec == SwingInit /\ [][SwingNext]_swingVars

-----------------------------------------------------------------------------

LongestHalf == 2 * CHOOSE a \in Amplitudes : \A b \in Amplitudes : b <= a

(* While a run is controlled no extremum of the swing goes by without an
   accepted peak: the next one is never later than half a swing, and the samples
   that confirm it, after the last. *)
NoExtremumMissed ==
  Running /\ Controlling => now - lastPeak.ms <= LongestHalf + 2 * ConfirmSamples + 2

(* A peak is accepted for the amplitude of the swing it ends, but for the one
   sample that may be missing at the turn, and on the other side than the one
   before it. *)
PeakIsExtremum ==
  [][lastPeak'.valid /\ lastPeak' # lastPeak =>
       /\ lastPeak'.size \in amplitude - 1 .. amplitude
       /\ lastPeak'.side = Sign(angle)
       /\ lastPeak.valid => lastPeak'.side = -lastPeak.side]_swingVars

(* After a crossing no candidate peak is made on the side the body came from
   (docs/V46AF_PEAK_SIDE_FIX.md).  It is when the solver fails, which commands no
   side: the extremum ahead is then missed. *)
CandidateOnNextSide ==
  tracker.started /\ lastCross.valid => tracker.side = -lastPeak.side
=============================================================================
