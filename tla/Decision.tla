------------------------------- MODULE Decision -------------------------------
(***************************************************************************)
(* The decisions of a run, one per half cycle: an accepted peak moves the    *)
(* integral of its side, the crossing after it predicts the next peak, the   *)
(* search of PulseWidth chooses the width, and its pulse leaves a current    *)
(* behind that the next decision finds.                                      *)
(***************************************************************************)
EXTENDS PulseWidth, Prediction

CONSTANTS
  Wanted,      \* TARGET_CHOICES_DEG
  Rates,       \* the rates at a crossing
  Amplitudes,  \* the amplitudes of a peak
  Batteries,   \* the battery measurements
  Ki,          \* INTEGRAL_KI_MAS_PER_DEG, in tenths
  MaxError,    \* the most an amplitude and a target differ
  MaxLoose     \* bound: peaks of a run that no completed decision precedes

ASSUME DecisionAssumption ==
  /\ Wanted \subseteq Nat /\ Rates \subseteq Nat /\ Amplitudes \subseteq Nat
  /\ Batteries \subseteq Nat /\ Ki \in Nat
  /\ MaxError \in Nat /\ MaxLoose \in Nat
  /\ \A goal \in Wanted, size \in Amplitudes : Magnitude(goal - size) <= MaxError
  /\ Widths \subseteq DOMAIN Rise
  /\ {ModelVoltage(mV) : mV \in Batteries} \subseteq DOMAIN Goal

(* What a pulse may leave behind. *)
Currents == UNION {-Goal[mV] .. Goal[mV] : mV \in DOMAIN Goal}

(* Whatever is left of it at the next crossing, the longest pulse moves the most
   charge: q_available_mA_s is that of MAX_PULSE_MS. *)
ASSUME LongestMovesMost ==
  \A left \in Currents, gap \in DOMAIN Remains, mV \in DOMAIN Goal, side \in Sides, w \in Widths :
    Charge(Decayed(left, gap), side, Goal[mV], w)
      <= Charge(Decayed(left, gap), side, Goal[mV], MaxWidth)

VARIABLES
  turn,      \* what the half cycle waits for: a peak or a crossing
  wanted,    \* energy_control_autonomous_target_peak_deg_
  integral,  \* ..._integral_plus_mA_s_, ..._integral_minus_mA_s_
  pending,   \* ..._pending_peak_, _next_side_, _saturated_upper_, _saturated_lower_
  peak,      \* ..._last_peak_*
  crossing,  \* of the event: side, free peak, charge available, q_saturated_*
  current,   \* the current predicted, as of the last pulse's end or crossing
  voltage,   \* beta_model_vbat_mV
  late,      \* whether PREVIOUS_PEAK_ENABLE_AFTER_MS have passed
  most,      \* history: the most charge that was available at a crossing
  loose      \* history: peaks that no completed decision preceded

solverVars == vars
cycleVars  == <<turn, wanted, integral, pending, peak, crossing, current, voltage, late, most, loose>>
decisionVars == <<solverVars, cycleVars>>

NoCrossing == [side |-> 1, free |-> 0, available |-> 0, upper |-> FALSE, lower |-> FALSE]

(* The start kick has been given, to the minus side; no decision was made. *)
DecisionInit ==
  /\ energy = [w \in Widths |-> 0] /\ valid = {} /\ passive = 0 /\ target = 0
  /\ lo = 0 /\ hi = MaxWidth /\ next = 0 /\ best = NoWidth
  /\ stage = "failed" /\ width = 0
  /\ turn = "peak" /\ wanted \in Wanted
  /\ integral = [side \in Sides |-> 0]
  /\ pending = [on |-> FALSE, side |-> 1, upper |-> FALSE, lower |-> FALSE]
  /\ peak = [side |-> -1, size |-> 0]
  /\ crossing = NoCrossing
  /\ voltage \in {ModelVoltage(mV) : mV \in Batteries}
  /\ current = EndCurrent(0, -1, Goal[voltage], MaxWidth)
  /\ late = FALSE /\ most = 0 /\ loose = 0

-----------------------------------------------------------------------------
(* Mutant: the integral goes on while the command is at a limit. *)
HoldsNever(side, error) == FALSE

(* antiwindup_upper_hold, antiwindup_lower_hold. *)
Holds(side, error) ==
  /\ pending.on /\ pending.side = side
  /\ (pending.upper /\ error > 0) \/ (pending.lower /\ error < 0)

(* What a decision kept to itself is gone: the locals of the crossing's handler. *)
Forget ==
  /\ energy' = [w \in Widths |-> 0] /\ valid' = {} /\ passive' = 0 /\ target' = 0
  /\ lo' = 0 /\ hi' = MaxWidth /\ next' = 0 /\ best' = NoWidth
  /\ stage' = "failed" /\ width' = 0
  /\ crossing' = NoCrossing

(* recordEnergyControlAutonomousPeak. *)
AcceptPeak(side, size) ==
  /\ turn = "peak" /\ ~Searching
  /\ pending.on => side = pending.side
  /\ pending.on \/ loose < MaxLoose
  /\ LET error == wanted - size
     IN  integral' = IF Holds(side, error) THEN integral
                     ELSE [integral EXCEPT ![side] = @ + (Ki * error) \div 10]
  /\ pending' = [pending EXCEPT !.on = FALSE]
  /\ peak' = [side |-> side, size |-> size]
  /\ turn' = "crossing"
  /\ loose' = IF pending.on THEN loose ELSE loose + 1
  /\ Forget
  /\ UNCHANGED <<wanted, current, voltage, late, most>>

(* updateEnergyControlAutonomousAtZeroCross up to the searches.  The side is the
   sign of the crossing's rate: that it is not the other side of the last peak is
   only noted in the event. *)
Cross(side, rate, gap, nowLate) ==
  LET goal  == Goal[voltage]
      free  == CorrectedFreePeak(FreePeak(rate, side), peak.size, side, wanted, nowLate)
      i0    == Decayed(current, gap)
      At(w) == Peak(free, side, Charge(i0, side, goal, w))
  IN
  /\ turn = "crossing" /\ turn' = "peak"
  /\ late => nowLate
  /\ late' = nowLate
  /\ current' = i0
  /\ crossing' = [side |-> side, free |-> free, available |-> Charge(i0, side, goal, MaxWidth),
                  upper |-> FALSE, lower |-> FALSE]
  /\ most' = IF crossing'.available > most THEN crossing'.available ELSE most
  /\ valid' = {w \in Widths : InDomain(At(w))}
  /\ energy' = [w \in Widths |-> IF InDomain(At(w)) THEN Potential(At(w)) ELSE 0]
  /\ IF InDomain(free)
       THEN passive' = Potential(free) /\ stage' = "ff"
       ELSE passive' = 0 /\ stage' = "failed"
  /\ target' = Potential(wanted)
  /\ lo' = 0 /\ hi' = MaxWidth /\ next' = 0 /\ best' = NoWidth /\ width' = 0
  /\ UNCHANGED <<wanted, integral, pending, peak, voltage, loose>>

SearchStep == /\ Narrow \/ NarrowFails \/ Try \/ TryFails
              /\ UNCHANGED cycleVars

(* The charge of the width found for the target, and with the integral. *)
FoundCharge == Charge(current, crossing.side, Goal[voltage], best)

Unclamped == FoundCharge + integral[crossing.side]

WantedPeak ==
  Peak(crossing.free, crossing.side,
       NotNegative(IF Unclamped > crossing.available THEN crossing.available ELSE Unclamped))

(* Between the searches: a second target from the first width and the integral. *)
CorrectTarget ==
  /\ stage = "ff" /\ Found
  /\ crossing' = [crossing EXCEPT
       !.upper = Unclamped > crossing.available \/ (best = MaxWidth /\ energy[best] < target),
       !.lower = Unclamped < 0]
  /\ InDomain(WantedPeak)
  /\ target' = Potential(WantedPeak)
  /\ Correct
  /\ UNCHANGED <<turn, wanted, integral, pending, peak, current, voltage, late, most, loose>>

CorrectOutside ==
  /\ stage = "ff" /\ Found /\ ~InDomain(WantedPeak)
  /\ CorrectFails
  /\ UNCHANGED cycleVars

(* The width is chosen and its pulse begins, or the motor refuses it:
   beginEnergyControlAutonomousPulse predicts the current its end leaves with the
   voltage it was chosen with, and only then takes the battery's present one. *)
Command(mV, granted) ==
  /\ Select
  /\ pending' = [on    |-> TRUE, side |-> crossing.side,
                 upper |-> crossing.upper, lower |-> crossing.lower]
  /\ granted => width' > 0
  /\ current' = IF granted THEN EndCurrent(current, crossing.side, Goal[voltage], width')
                           ELSE current
  /\ voltage' = IF granted THEN ModelVoltage(mV) ELSE voltage
  /\ UNCHANGED <<turn, wanted, integral, peak, crossing, late, most, loose>>

DecisionNext ==
  \/ \E side \in Sides, size \in Amplitudes : AcceptPeak(side, size)
  \/ \E side \in Sides, rate \in Rates, gap \in DOMAIN Remains, nowLate \in BOOLEAN :
       Cross(side, rate, gap, nowLate)
  \/ SearchStep \/ CorrectTarget \/ CorrectOutside
  \/ \E mV \in Batteries, granted \in BOOLEAN : Command(mV, granted)

DecisionSpec == DecisionInit /\ [][DecisionNext]_decisionVars

-----------------------------------------------------------------------------
(* Properties. *)

(* The most a peak moves the integral of its side, a fraction counted in full. *)
Step == (Ki * MaxError + 9) \div 10

(* However long a target stays out of reach, the integral of a side stays
   within the most charge there was to correct, but for one step, and one for
   each peak that no completed decision preceded. *)
IntegralBounded ==
  \A side \in Sides : Magnitude(integral[side]) <= most + (loose + 1) * Step
=============================================================================
