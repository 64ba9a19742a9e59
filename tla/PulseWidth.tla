------------------------------ MODULE PulseWidth ------------------------------
(***************************************************************************)
(* The choice of a pulse's width at a zero crossing.  Each width predicts an *)
(* energy at the next peak; the width wanted is the one whose energy is      *)
(* nearest the target.  The firmware used to try every width; it now narrows *)
(* an interval by thirds and tries what is left.  It does so twice: for the  *)
(* target, then for the target corrected by the integral of past errors.     *)
(*                                                                         *)
(* Energies are integers here.  What is known of the curve is in Unimodal.   *)
(***************************************************************************)
EXTENDS Integers

CONSTANTS
  MaxWidth,  \* ENERGY_CONTROL_AUTONOMOUS_MAX_PULSE_MS
  Slack,     \* the length of interval that is no longer narrowed
  Curves,    \* the predicted energies of the widths
  Limits,    \* the last width whose prediction is finite
  Targets    \* the target energies, and the energy predicted without a pulse

Widths == 0 .. MaxWidth
NoWidth == -1

ASSUME PulseWidthAssumption ==
  /\ MaxWidth \in Nat /\ Slack \in Nat
  /\ Curves \subseteq [Widths -> Int] /\ Limits \subseteq Widths /\ Targets \subseteq Int

VARIABLES
  energy,   \* what evaluate_width predicts
  valid,    \* the widths whose prediction is finite
  passive,  \* event.passive_energy_j
  target,   \* target_energy_j of the present search
  lo, hi,   \* the interval
  next,     \* the next width to try, lo while the interval is narrowed
  best,     \* the best width tried
  stage,    \* the search in progress, or how it ended
  width     \* selected_width_ms

curveVars  == <<energy, valid, passive>>
searchVars == <<lo, hi, next, best>>
vars == <<curveVars, target, searchVars, stage, width>>

Searching == stage \in {"ff", "selected"}

TypeOK ==
  /\ energy \in [Widths -> Int] /\ valid \subseteq Widths
  /\ passive \in Int /\ target \in Int
  /\ lo \in Widths /\ hi \in Widths /\ next \in lo .. hi + 1
  /\ best \in Widths \cup {NoWidth} /\ (best = NoWidth => next = lo)
  /\ stage \in {"ff", "selected", "done", "failed"}
  /\ width \in Widths

Abs(x) == IF x < 0 THEN -x ELSE x

(* error_j of width w for target t. *)
Error(w, t) == Abs(t - energy[w])

Init ==
  /\ energy \in Curves
  /\ valid \in {0 .. limit : limit \in Limits}
  /\ passive \in Targets /\ target \in Targets
  /\ lo = 0 /\ hi = MaxWidth /\ next = 0 /\ best = NoWidth
  /\ stage = "ff" /\ width = 0

Third == (hi - lo) \div 3

Narrowing == hi - lo > Slack /\ Third # 0

Left  == lo + Third
Right == hi - Third

Fail == stage' = "failed" /\ UNCHANGED <<curveVars, target, searchVars, width>>

(* Mutant: the interval is cut at the better of the two. *)
NarrowTooFar ==
  /\ Searching /\ Narrowing
  /\ {Left, Right} \subseteq valid
  /\ IF Error(Left, target) <= Error(Right, target)
       THEN hi' = Left /\ UNCHANGED <<lo, next>>
       ELSE lo' = Right /\ next' = Right /\ UNCHANGED hi
  /\ UNCHANGED <<curveVars, target, best, stage, width>>

Narrow ==
  /\ Searching /\ Narrowing
  /\ {Left, Right} \subseteq valid
  /\ IF Error(Left, target) <= Error(Right, target)
       THEN hi' = Right /\ UNCHANGED <<lo, next>>
       ELSE lo' = Left /\ next' = Left /\ UNCHANGED hi
  /\ UNCHANGED <<curveVars, target, best, stage, width>>

NarrowFails == Searching /\ Narrowing /\ ~({Left, Right} \subseteq valid) /\ Fail

Trying == Searching /\ ~Narrowing /\ next <= hi

Try ==
  /\ Trying
  /\ next \in valid
  /\ best' = IF best = NoWidth \/ Error(next, target) < Error(best, target) THEN next ELSE best
  /\ next' = next + 1
  /\ UNCHANGED <<curveVars, target, lo, hi, stage, width>>

TryFails == Trying /\ next \notin valid /\ Fail

Found == Searching /\ ~Narrowing /\ next > hi

(* The energy of the charge found, corrected by the integral, is the next
   target: any energy, as the integral and the charge available may be any. *)
Correct ==
  /\ stage = "ff" /\ Found
  /\ stage' = "selected"
  /\ target' \in Targets
  /\ lo' = 0 /\ hi' = MaxWidth /\ next' = 0 /\ best' = NoWidth
  /\ UNCHANGED <<curveVars, width>>

(* That energy is outside the domain of the model. *)
CorrectFails == stage = "ff" /\ Found /\ Fail

(* No pulse, unless the one found is better. *)
Select ==
  /\ stage = "selected" /\ Found
  /\ stage' = "done"
  /\ width' = IF Error(best, target) < Abs(target - passive) THEN best ELSE 0
  /\ UNCHANGED <<curveVars, target, searchVars>>

Next ==
  \/ Narrow \/ NarrowFails \/ Try \/ TryFails
  \/ Correct \/ CorrectFails \/ Select

Spec == Init /\ [][Next]_vars

-----------------------------------------------------------------------------
(* Properties. *)

(* The first of the widths of least error: what trying every width found. *)
FirstBest(o, t) ==
  \A w \in Widths : IF w < o THEN Error(o, t) < Error(w, t) ELSE Error(o, t) <= Error(w, t)

(* The error falls to the best width and does not fall after it, but for the
   first widths, where the charge of a pulse still opposes the current that the
   last one left, so that its size falls before it grows. *)
Settled == (Slack + 1) \div 3

Unimodal(o, t) ==
  \A a, b \in Settled .. MaxWidth :
    a < b => /\ b <= o => Error(a, t) > Error(b, t)
             /\ a >= o => Error(a, t) <= Error(b, t)

(* The search selects what trying every width would: fast_pick_width and the
   comment on the exhaustive implementation.  The first widths may be irregular:
   narrowing never looks at them. *)
SelectsAsExhaustive ==
  stage = "done" =>
    \A o \in Widths :
      FirstBest(o, target) /\ Unimodal(o, target) =>
        width = IF Error(o, target) < Abs(target - passive) THEN o ELSE 0
=============================================================================
