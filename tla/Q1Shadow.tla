------------------------------- MODULE Q1Shadow -------------------------------
(***************************************************************************)
(* The shadow detector beside the half-cycle controller: it sees the same    *)
(* samples, finds zero crossings by rules of its own and records what the    *)
(* first model of the body, Q1, would have asked for.  It was fitted to a    *)
(* detector angle that runs against the rate; in this mode the angle of the  *)
(* controller, which runs with it, took its place.                           *)
(***************************************************************************)
EXTENDS SwingingControl

CONSTANTS
  Rearm,            \* Q1_SHADOW_ZERO_CROSS_REARM_ANGLE_DEG
  MinShadowInterval \* Q1_SHADOW_ZERO_CROSS_MIN_INTERVAL_MS

ASSUME Q1ShadowAssumption == Rearm \in Nat /\ MinShadowInterval \in Nat

VARIABLES
  shadow,     \* q1_shadow_has_previous_angle_, _zero_cross_armed_, _previous_*, _last_*
  recorded    \* whether the run's log holds a Q1ShadowEvent

shadowVars == <<shadow, recorded>>
shadowRunVars == <<swingVars, shadowVars>>

NothingSeen == [has |-> FALSE, armed |-> FALSE, angle |-> 0, last |-> 0]

(* status_.pitch_mekf_deg of the autonomous mode, from the zero of the start. *)
DetectorAngle == angle' + Lead * direction

(* A crossing's direction, 0 for none. *)
Crossed ==
  IF shadow.angle < 0 /\ DetectorAngle >= 0 THEN 1
  ELSE IF shadow.angle > 0 /\ DetectorAngle <= 0 THEN -1 ELSE 0

(* Mutant: the gate of the build before. *)
SignGateWith(crossed, rate) == crossed # 0 /\ rate = crossed

(* sign_gate_passed: the rate must run against the crossing. *)
SignGate(crossed, rate) == crossed # 0 /\ rate = -crossed

(* updateQ1ShadowAtZeroCross, on a fresh sample. *)
Watch ==
  LET armed   == shadow.armed \/ Size(DetectorAngle) >= Rearm
      spaced  == shadow.last = 0 \/ now' - shadow.last >= MinShadowInterval
      records == shadow.has /\ armed /\ spaced /\ SignGate(Crossed, direction)
  IN  /\ shadow' = [has   |-> TRUE,
                    armed |-> shadow.has /\ armed /\ ~records,
                    angle |-> DetectorAngle,
                    last  |-> IF records THEN now' ELSE shadow.last]
      /\ recorded' = (recorded \/ records)

ShadowInit == SwingInit /\ shadow = NothingSeen /\ recorded = FALSE

(* resetQ1ShadowZeroCrossTracker, and the run's empty log. *)
ShadowBegin == Begin /\ shadow' = NothingSeen /\ recorded' = FALSE

ShadowTick ==
  /\ Tick
  /\ IF sample'.kind = "fresh" THEN Watch ELSE UNCHANGED shadowVars

ShadowNext == \/ ShadowBegin
              \/ ShadowTick
              \/ (EmergencyStop \/ React) /\ UNCHANGED <<bodyVars, shadowVars>>

ShadowSpec == ShadowInit /\ [][ShadowNext]_shadowRunVars

-----------------------------------------------------------------------------

(* The shadow never records a crossing in this mode: where its angle crosses, the
   rate agrees with the crossing, and the gate wants it opposed. *)
ShadowSilent == ~recorded
=============================================================================
