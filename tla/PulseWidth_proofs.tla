--------------------------- MODULE PulseWidth_proofs ---------------------------
(***************************************************************************)
(* Proofs about PulseWidth: the narrowing search selects what trying every   *)
(* width would, for every range of widths and every curve, and in every      *)
(* decision of a run; and about Decision: the integral of a side stays       *)
(* within the charge there was to correct.                                   *)
(***************************************************************************)
EXTENDS Decision, TLAPS

(* The interval holds the width that is looked for. *)
Kept ==
  Searching =>
    \A o \in Widths : FirstBest(o, target) /\ Unimodal(o, target) => o \in lo .. hi

(* best is the first best of the widths tried. *)
BestSoFar ==
  best # NoWidth =>
    /\ best \in lo .. next - 1
    /\ \A w \in lo .. next - 1 :
         IF w < best THEN Error(best, target) < Error(w, target)
                     ELSE Error(best, target) <= Error(w, target)

(* Widths are tried only when the interval is not narrowed any more. *)
TriedLast == /\ Searching /\ Narrowing => next = lo /\ best = NoWidth
             /\ Searching /\ best = NoWidth => next = lo /\ lo <= hi

Typed == TypeOK /\ TriedLast
IInv  == Typed /\ Kept /\ BestSoFar /\ SelectsAsExhaustive

-----------------------------------------------------------------------------

(* An error is an integer. *)
LEMMA ErrorInt ==
  ASSUME energy \in [Widths -> Int], NEW w \in Widths, NEW t \in Int
  PROVE  Error(w, t) \in Int
BY PulseWidthAssumption DEF Error, Abs

(* The widths a narrowing step evaluates: inside the interval, and past the
   widths that may be irregular. *)
LEMMA Thirds ==
  ASSUME TypeOK, Narrowing
  PROVE  /\ Left \in Widths /\ Right \in Widths
         /\ lo < Left /\ Left < Right /\ Right < hi
         /\ Settled <= Left
         /\ Settled \in Nat
<1>1. lo \in Nat /\ hi \in Nat /\ hi - lo > Slack /\ Slack \in Nat /\ hi <= MaxWidth
  BY PulseWidthAssumption DEF TypeOK, Widths, Narrowing
<1>2. /\ Third \in Nat /\ Third >= 1 /\ 3 * Third <= hi - lo /\ Settled <= Third /\ Settled \in Nat
  BY <1>1 DEF Third, Settled, Narrowing
<1> QED BY <1>1, <1>2, PulseWidthAssumption DEF Left, Right, Widths

(* The first search starts typed, and every step keeps it so. *)
LEMMA InitTyped == Init => Typed
BY PulseWidthAssumption DEF Init, Typed, TypeOK, TriedLast, Widths, NoWidth

LEMMA NextTyped == Typed /\ [Next]_vars => Typed'
<1> SUFFICES ASSUME Typed, [Next]_vars PROVE Typed'
  OBVIOUS
<1> USE PulseWidthAssumption DEF Typed
<1>1. CASE Narrow
  <2>1. Left \in Widths /\ Right \in Widths /\ lo < Left /\ Left < Right /\ Right < hi
    BY <1>1, Thirds DEF Narrow
  <2>2. next = lo /\ best = NoWidth
    BY <1>1 DEF Narrow, TriedLast
  <2> QED BY <1>1, <2>1, <2>2, SMTT(30)
      DEF Narrow, TypeOK, TriedLast, curveVars, Widths, NoWidth, Searching
<1>2. CASE NarrowFails
  BY <1>2 DEF NarrowFails, Fail, TypeOK, TriedLast, curveVars, searchVars, Searching
<1>3. CASE Try
  BY <1>3 DEF Try, Trying, TypeOK, TriedLast, curveVars, Widths, NoWidth, Searching, Narrowing, Third
<1>4. CASE TryFails
  BY <1>4 DEF TryFails, Fail, TypeOK, TriedLast, curveVars, searchVars, Searching
<1>5. CASE Correct
  BY <1>5 DEF Correct, TypeOK, TriedLast, curveVars, Widths, NoWidth, Searching
<1>6. CASE CorrectFails
  BY <1>6 DEF CorrectFails, Fail, TypeOK, TriedLast, curveVars, searchVars, Searching
<1>7. CASE Select
  <2>1. best \in Widths
    BY <1>7 DEF Select, Found, TypeOK, TriedLast, Searching, Widths
  <2> QED BY <1>7, <2>1 DEF Select, TypeOK, TriedLast, curveVars, searchVars, Searching, Widths
<1>8. CASE UNCHANGED vars
  BY <1>8 DEF vars, TypeOK, TriedLast, curveVars, searchVars, Searching, Narrowing, Third
<1> QED BY <1>1, <1>2, <1>3, <1>4, <1>5, <1>6, <1>7, <1>8 DEF Next

(* Every reachable state is well typed: the interval stays within the widths, and
   the widths tried within the interval.  fast_pick_width. *)
THEOREM TypeCorrect == Spec => []TypeOK
<1> QED BY InitTyped, NextTyped, PTL DEF Spec, Typed

-----------------------------------------------------------------------------

(* A step that narrows the interval keeps every width that may be wanted. *)
LEMMA NarrowKeeps ==
  ASSUME Typed, Kept, Narrow
  PROVE  Kept'
<1> SUFFICES ASSUME NEW o \in Widths, FirstBest(o, target), Unimodal(o, target)
             PROVE  o \in lo' .. hi'
  BY DEF Kept, Narrow, curveVars, FirstBest, Unimodal, Error, Searching
<1>1. o \in lo .. hi
  BY DEF Kept, Narrow
<1>2. /\ Left \in Settled .. MaxWidth /\ Right \in Settled .. MaxWidth /\ Left < Right
      /\ Left \in Widths /\ Right \in Widths
  BY Thirds, PulseWidthAssumption DEF Narrow, Typed, Widths
<1>3. Error(Left, target) \in Int /\ Error(Right, target) \in Int
  BY <1>2, ErrorInt DEF Typed, TypeOK
<1>4. CASE Error(Left, target) <= Error(Right, target)
  <2>1. ~(Right <= o)
    BY <1>2, <1>3, <1>4 DEF Unimodal
  <2>2. hi' = Right /\ lo' = lo
    BY <1>4 DEF Narrow
  <2> QED BY <1>1, <1>2, <2>1, <2>2, PulseWidthAssumption DEF Typed, TypeOK, Widths
<1>5. CASE ~(Error(Left, target) <= Error(Right, target))
  <2>1. ~(Left >= o)
    BY <1>2, <1>3, <1>5 DEF Unimodal
  <2>2. hi' = hi /\ lo' = Left
    BY <1>5 DEF Narrow
  <2> QED BY <1>1, <1>2, <2>1, <2>2, PulseWidthAssumption DEF Typed, TypeOK, Widths
<1> QED BY <1>4, <1>5

(* Trying one more width keeps the first best of those tried. *)
LEMMA TryKeepsBest ==
  ASSUME Typed, BestSoFar, Try
  PROVE  BestSoFar'
<1> USE PulseWidthAssumption DEF Typed, TypeOK
<1>1. /\ next \in Widths /\ next' = next + 1 /\ lo' = lo
      /\ \A w \in Widths : Error(w, target)' = Error(w, target)
  BY DEF Try, Trying, curveVars, Error, Widths
<1>2. \A w \in Widths : Error(w, target) \in Int
  BY ErrorInt
<1>3. CASE best = NoWidth
  BY <1>1, <1>2, <1>3 DEF Try, BestSoFar, Widths, NoWidth
<1>4. CASE best # NoWidth
  <2>1. best \in lo .. next - 1 /\ best \in Widths
    BY <1>4 DEF BestSoFar
  <2>2. \A w \in lo .. next - 1 : w \in Widths
    BY <1>1 DEF Widths
  <2>3. CASE Error(next, target) < Error(best, target)
    <3>1. best' = next
      BY <2>3 DEF Try
    <3>2. \A w \in lo .. next - 1 : Error(next, target) < Error(w, target)
      BY <1>1, <1>2, <1>4, <2>1, <2>2, <2>3 DEF BestSoFar
    <3> QED BY <1>1, <1>2, <2>2, <3>1, <3>2 DEF BestSoFar, Widths
  <2>4. CASE ~(Error(next, target) < Error(best, target))
    <3>1. best' = best
      BY <1>4, <2>4 DEF Try
    <3>2. Error(best, target) <= Error(next, target)
      BY <1>1, <1>2, <2>1, <2>4
    <3>3. ASSUME NEW w \in lo .. next
          PROVE  IF w < best THEN Error(best, target) < Error(w, target)
                             ELSE Error(best, target) <= Error(w, target)
      <4>1. CASE w = next
        BY <1>1, <2>1, <3>2, <4>1 DEF Widths
      <4>2. CASE w \in lo .. next - 1
        BY <1>4, <4>2 DEF BestSoFar
      <4> QED BY <1>1, <3>3, <4>1, <4>2 DEF Widths
    <3>4. \A w \in lo' .. next' - 1 : w \in Widths /\ w \in lo .. next
      BY <1>1, <2>2 DEF Widths
    <3> QED BY <1>1, <2>1, <3>1, <3>3, <3>4 DEF BestSoFar, Widths
  <2> QED BY <2>3, <2>4
<1> QED BY <1>3, <1>4

(* What is found when the whole interval was tried is the first best there is. *)
LEMMA FoundFirstBest ==
  ASSUME Typed, Kept, BestSoFar, Found,
         NEW o \in Widths, FirstBest(o, target), Unimodal(o, target)
  PROVE  best = o
<1> USE PulseWidthAssumption DEF Typed, TypeOK
<1>1. best # NoWidth /\ next = hi + 1
  BY DEF Found, TriedLast, Widths
<1>2. o \in lo .. next - 1 /\ best \in lo .. next - 1 /\ best \in Widths
  BY <1>1 DEF Kept, Found, BestSoFar, Widths
<1>3. Error(best, target) \in Int /\ Error(o, target) \in Int
  BY <1>2, ErrorInt
<1>4. IF o < best THEN Error(best, target) < Error(o, target)
                  ELSE Error(best, target) <= Error(o, target)
  BY <1>1, <1>2 DEF BestSoFar
<1>5. IF best < o THEN Error(o, target) < Error(best, target)
                  ELSE Error(o, target) <= Error(best, target)
  BY <1>2 DEF FirstBest
<1> QED BY <1>2, <1>3, <1>4, <1>5 DEF Widths

LEMMA NextIInv == IInv /\ [Next]_vars => IInv'
<1> SUFFICES ASSUME IInv, [Next]_vars PROVE IInv'
  OBVIOUS
<1>1. Typed'
  BY NextTyped DEF IInv
<1> USE PulseWidthAssumption DEF IInv
<1>2. CASE Narrow
  <2>1. Kept'
    BY <1>2, NarrowKeeps
  <2>2. best' = NoWidth /\ stage' # "done"
    BY <1>2 DEF Narrow, Typed, TriedLast, Searching
  <2> QED BY <1>1, <2>1, <2>2 DEF BestSoFar, SelectsAsExhaustive
<1>3. CASE NarrowFails \/ TryFails \/ CorrectFails
  BY <1>1, <1>3 DEF NarrowFails, TryFails, CorrectFails, Fail, Kept, BestSoFar,
                   SelectsAsExhaustive, Searching, curveVars, searchVars, Error
<1>4. CASE Try
  <2>1. BestSoFar'
    BY <1>4, TryKeepsBest
  <2>2. Kept'
    BY <1>4 DEF Try, Kept, curveVars, Searching, FirstBest, Unimodal, Error
  <2>3. stage' # "done"
    BY <1>4 DEF Try, Trying, Searching
  <2> QED BY <1>1, <2>1, <2>2, <2>3 DEF SelectsAsExhaustive
<1>5. CASE Correct
  BY <1>1, <1>5 DEF Correct, Kept, BestSoFar, SelectsAsExhaustive, Widths
<1>6. CASE Select
  <2>1. \A o \in Widths : FirstBest(o, target) /\ Unimodal(o, target) => best = o
    BY <1>6, FoundFirstBest DEF Select
  <2>2. /\ \A w \in Widths : Error(w, target)' = Error(w, target)
        /\ passive' = passive /\ target' = target /\ energy' = energy
    BY <1>6 DEF Select, curveVars, Error
  <2>3. SelectsAsExhaustive'
    <3> SUFFICES ASSUME NEW o \in Widths, FirstBest(o, target)', Unimodal(o, target)'
                 PROVE  width' = IF Error(o, target) < Abs(target - passive) THEN o ELSE 0
      BY <2>2 DEF SelectsAsExhaustive
    <3>1. FirstBest(o, target) /\ Unimodal(o, target)
      BY <2>2 DEF FirstBest, Unimodal, Error
    <3> QED BY <1>6, <2>1, <3>1 DEF Select
  <2>4. Kept' /\ BestSoFar'
    BY <1>6, <2>2 DEF Select, Kept, BestSoFar, Searching, searchVars, Error
  <2> QED BY <1>1, <2>3, <2>4
<1>7. CASE UNCHANGED vars
  BY <1>1, <1>7 DEF vars, curveVars, searchVars, Kept, BestSoFar, SelectsAsExhaustive,
                    Searching, FirstBest, Unimodal, Error
<1> QED BY <1>2, <1>3, <1>4, <1>5, <1>6, <1>7 DEF Next

(* The search selects what trying every width would, wherever the curve is
   unimodal past its first widths: fast_pick_width and the choice that follows. *)
THEOREM SearchIsExhaustive == Spec => []SelectsAsExhaustive
<1>1. Init => IInv
  BY InitTyped, PulseWidthAssumption DEF Init, IInv, Kept, BestSoFar, SelectsAsExhaustive, Widths
<1> QED BY <1>1, NextIInv, PTL DEF Spec, IInv
-----------------------------------------------------------------------------
(* The decisions of a run: what the arithmetic of a prediction returns. *)

(* A share of a number lies between it and zero. *)
LEMMA Share ==
  ASSUME NEW x \in Int, NEW k \in Nat, NEW t \in Nat \ {0}, k <= t
  PROVE  /\ (x * k) \div t \in Int
         /\ x >= 0 => (x * k) \div t \in 0 .. x
         /\ x <= 0 => (x * k) \div t \in x .. 0
<1> DEFINE q == (x * k) \div t
           r == (x * k) % t
<1>1. x * k \in Int
  OBVIOUS
<1>2. q \in Int /\ r \in 0 .. t - 1 /\ x * k = q * t + r
  <2> DEFINE y == x * k
  <2>1. y \in Int
    OBVIOUS
  <2> HIDE DEF y
  <2> QED BY <2>1 DEF y
<1> HIDE DEF q, r
<1>3. ASSUME x >= 0 PROVE q \in 0 .. x
  <2>1. 0 <= x * k /\ x * k <= x * t
    BY <1>3
  <2>2. q >= 0
    <3> SUFFICES ASSUME q <= -1 PROVE FALSE
      BY <1>2
    <3>1. q * t <= -t
      BY <1>2
    <3> QED BY <1>2, <2>1, <3>1
  <2>3. q <= x
    <3> SUFFICES ASSUME q >= x + 1 PROVE FALSE
      BY <1>2
    <3>1. q * t >= (x + 1) * t
      BY <1>2
    <3>2. (x + 1) * t = x * t + t
      OBVIOUS
    <3> QED BY <1>2, <2>1, <3>1, <3>2
  <2> QED BY <1>2, <2>2, <2>3
<1>4. ASSUME x <= 0 PROVE q \in x .. 0
  <2>1. x * t <= x * k /\ x * k <= 0
    BY <1>4
  <2>2. q <= 0
    <3> SUFFICES ASSUME q >= 1 PROVE FALSE
      BY <1>2
    <3>1. q * t >= t
      BY <1>2
    <3> QED BY <1>2, <2>1, <3>1
  <2>3. q >= x
    <3> SUFFICES ASSUME q <= x - 1 PROVE FALSE
      BY <1>2
    <3>1. q * t <= (x - 1) * t
      BY <1>2
    <3>2. (x - 1) * t = x * t - t
      OBVIOUS
    <3> QED BY <1>2, <2>1, <3>1, <3>2
  <2> QED BY <1>2, <2>2, <2>3
<1> QED BY <1>2, <1>3, <1>4 DEF q

(* Every current is one of a voltage: it lies within what that voltage drives. *)
LEMMA CurrentOf ==
  ASSUME NEW i \in Currents
  PROVE  i \in Int /\ \E mV \in DOMAIN Goal : i \in -Goal[mV] .. Goal[mV] /\ Goal[mV] \in Nat
<1>1. PICK mV \in DOMAIN Goal : i \in -Goal[mV] .. Goal[mV]
  BY DEF Currents
<1>2. Goal[mV] \in Nat
  BY PredictionAssumption
<1> QED BY <1>1, <1>2

(* What is left of a current, and what a pulse makes of it, are currents again. *)
LEMMA CurrentsClosed ==
  ASSUME NEW i \in Currents
  PROVE  /\ \A gap \in DOMAIN Remains : Decayed(i, gap) \in Currents
         /\ \A side \in Sides, mV \in DOMAIN Goal, w \in Widths :
              EndCurrent(i, side, Goal[mV], w) \in Currents
<1>1. PICK mine \in DOMAIN Goal : i \in -Goal[mine] .. Goal[mine] /\ Goal[mine] \in Nat
  BY CurrentOf
<1>2. ASSUME NEW gap \in DOMAIN Remains PROVE Decayed(i, gap) \in Currents
  <2>1. Remains[gap] \in Nat /\ Remains[gap] <= 1000
    BY PredictionAssumption
  <2>2. /\ Decayed(i, gap) \in Int
        /\ i >= 0 => Decayed(i, gap) \in 0 .. i
        /\ i <= 0 => Decayed(i, gap) \in i .. 0
    BY <1>1, <2>1, Share DEF Decayed
  <2>3. Decayed(i, gap) \in -Goal[mine] .. Goal[mine]
    BY <1>1, <2>2
  <2> QED BY <2>3 DEF Currents
<1>3. ASSUME NEW side \in Sides, NEW mV \in DOMAIN Goal, NEW w \in Widths
      PROVE  EndCurrent(i, side, Goal[mV], w) \in Currents
  <2> DEFINE goal == side * Goal[mV]
             rest == (i - goal) * (Tau - Rise[w])
  <2>1. /\ Tau \in Nat \ {0} /\ Rise[w] \in 0 .. Tau
        /\ Goal[mV] \in Nat
    BY PredictionAssumption, DecisionAssumption
  <2>2. goal \in -Goal[mV] .. Goal[mV] /\ goal \in Int /\ Tau - Rise[w] \in Nat
        /\ Tau - Rise[w] <= Tau
    BY <2>1 DEF Sides
  <2>3. EndCurrent(i, side, Goal[mV], w) = goal + rest \div Tau
    BY DEF EndCurrent
  <2> HIDE DEF goal
  <2>4. /\ rest \div Tau \in Int
        /\ i - goal >= 0 => rest \div Tau \in 0 .. i - goal
        /\ i - goal <= 0 => rest \div Tau \in i - goal .. 0
    <3>1. i - goal \in Int
      BY <1>1, <2>2
    <3>2. /\ ((i - goal) * (Tau - Rise[w])) \div Tau \in Int
          /\ i - goal >= 0 => ((i - goal) * (Tau - Rise[w])) \div Tau \in 0 .. i - goal
          /\ i - goal <= 0 => ((i - goal) * (Tau - Rise[w])) \div Tau \in i - goal .. 0
      <4> HIDE DEF rest
      <4> QED BY <2>1, <2>2, <3>1, Share
    <3> QED BY <3>2
  <2> HIDE DEF rest
  <2>5. CASE Goal[mV] >= Goal[mine]
    <3>1. EndCurrent(i, side, Goal[mV], w) \in -Goal[mV] .. Goal[mV]
      BY <1>1, <2>1, <2>2, <2>3, <2>4, <2>5
    <3> QED BY <3>1 DEF Currents
  <2>6. CASE Goal[mV] < Goal[mine]
    <3>1. EndCurrent(i, side, Goal[mV], w) \in -Goal[mine] .. Goal[mine]
      BY <1>1, <2>1, <2>2, <2>3, <2>4, <2>6
    <3> QED BY <3>1 DEF Currents
  <2> QED BY <1>1, <2>1, <2>5, <2>6
<1> QED BY <1>2, <1>3

(* A charge and a peak have a size, an energy is a number. *)
LEMMA PredictionTypes ==
  /\ \A i \in Int, side \in Sides, mV \in DOMAIN Goal, w \in Widths :
       Charge(i, side, Goal[mV], w) \in Nat
  /\ \A rate \in Int, side \in Sides : FreePeak(rate, side) \in Nat
  /\ \A free \in Nat, size \in Int, side \in Sides, goal \in Int, isLate \in BOOLEAN :
       CorrectedFreePeak(free, size, side, goal, isLate) \in Nat
  /\ \A free \in Nat, side \in Sides, charge \in Int : Peak(free, side, charge) \in Nat
  /\ \A size \in Int : Potential(size) \in Int
<1>1. ASSUME NEW i \in Int, NEW side \in Sides, NEW mV \in DOMAIN Goal, NEW w \in Widths
      PROVE  Charge(i, side, Goal[mV], w) \in Nat
  <2>1. Goal[mV] \in Nat /\ Rise[w] \in Nat /\ WidthMs \in Nat /\ w \in Nat /\ side \in Int
    BY PredictionAssumption, DecisionAssumption, PulseWidthAssumption DEF Widths, Sides
  <2> DEFINE a == side * Goal[mV] * w * WidthMs * 10
             b == (i - side * Goal[mV]) * Rise[w]
  <2>2. a \in Int /\ b \in Int
    <3>1. side * Goal[mV] \in Int
      BY <2>1
    <3>2. side * Goal[mV] * w \in Int
      BY <2>1, <3>1
    <3>3. side * Goal[mV] * w * WidthMs \in Int
      BY <2>1, <3>2
    <3>4. a \in Int
      BY <3>3
    <3>5. b \in Int
      BY <2>1, <3>1
    <3> QED BY <3>4, <3>5
  <2>3. Charge(i, side, Goal[mV], w) = Magnitude(a + b) \div 100
    BY DEF Charge
  <2> HIDE DEF a, b
  <2> QED BY <2>2, <2>3 DEF Magnitude
<1>2. ASSUME NEW rate \in Int, NEW side \in Sides PROVE FreePeak(rate, side) \in Nat
  BY DEF FreePeak, NotNegative, Sides
<1>3. ASSUME NEW free \in Nat, NEW size \in Int, NEW side \in Sides, NEW goal \in Int,
             NEW isLate \in BOOLEAN
      PROVE  CorrectedFreePeak(free, size, side, goal, isLate) \in Nat
  <2>1. PreviousPeakCorrection(size, side) \in Int
    BY DEF PreviousPeakCorrection, Within, Sides
  <2> QED BY <2>1 DEF CorrectedFreePeak, NotNegative
<1>4. ASSUME NEW free \in Nat, NEW side \in Sides, NEW charge \in Int
      PROVE  Peak(free, side, charge) \in Nat
  BY DEF Peak, NotNegative, Within, Gain, SideOffset, SideExtraGain, Sides
<1>5. ASSUME NEW size \in Int PROVE Potential(size) \in Int
  <2>1. size * size \in Int /\ 183 * size * size \in Int /\ 456 * size * size \in Int
    OBVIOUS
  <2> DEFINE a == 87270 * size - 183 * size * size
             b == 456 * size * size
  <2>2. a \in Int /\ b \in Int
    BY <2>1
  <2>3. Potential(size) = IF size <= Inner THEN a \div 1000 ELSE 8337 + b \div 10000
    BY DEF Potential
  <2> HIDE DEF a, b
  <2> QED BY <2>2, <2>3
<1> QED BY <1>1, <1>2, <1>3, <1>4, <1>5

-----------------------------------------------------------------------------
(* What a decision and its run keep. *)
CycleTypes ==
  /\ wanted \in Wanted /\ integral \in [Sides -> Int]
  /\ pending \in [on : BOOLEAN, side : Sides, upper : BOOLEAN, lower : BOOLEAN]
  /\ peak \in [side : Sides, size : Nat]
  /\ crossing \in [side : Sides, free : Nat, available : Nat, upper : BOOLEAN, lower : BOOLEAN]
  /\ current \in Currents /\ voltage \in DOMAIN Goal
  /\ most \in Nat /\ loose \in Nat

DecisionTyped == IInv /\ CycleTypes

LEMMA DecisionInitTyped == DecisionInit => DecisionTyped
<1> SUFFICES ASSUME DecisionInit PROVE DecisionTyped
  OBVIOUS
<1>1. Typed
  BY PulseWidthAssumption DEF DecisionInit, Typed, TypeOK, TriedLast, Widths, NoWidth, Searching
<1>2. IInv
  BY <1>1 DEF DecisionInit, IInv, Kept, BestSoFar, SelectsAsExhaustive, Searching
<1>3. voltage \in DOMAIN Goal
  BY DecisionAssumption DEF DecisionInit
<1>4. 0 \in Currents
  <2>1. 0 \in -Goal[voltage] .. Goal[voltage]
    BY <1>3, PredictionAssumption
  <2> QED BY <1>3, <2>1 DEF Currents
<1>5. current \in Currents
  <2>1. -1 \in Sides /\ MaxWidth \in Widths
    BY PulseWidthAssumption DEF Sides, Widths
  <2> QED BY <1>3, <1>4, <2>1, CurrentsClosed DEF DecisionInit
<1>6. integral \in [Sides -> Int] /\ wanted \in Wanted /\ most \in Nat /\ loose \in Nat
  BY DEF DecisionInit
<1>7. /\ pending \in [on : BOOLEAN, side : Sides, upper : BOOLEAN, lower : BOOLEAN]
      /\ peak \in [side : Sides, size : Nat]
  BY DEF DecisionInit, Sides
<1>8. crossing \in [side : Sides, free : Nat, available : Nat, upper : BOOLEAN, lower : BOOLEAN]
  BY DEF DecisionInit, NoCrossing, Sides
<1> QED BY <1>2, <1>3, <1>5, <1>6, <1>7, <1>8 DEF DecisionTyped, CycleTypes

(* Where nothing is searched for and nothing decided, the search promises nothing. *)
LEMMA ForgetIInv == Forget => IInv'
<1> SUFFICES ASSUME Forget PROVE IInv'
  OBVIOUS
<1>1. Typed'
  BY PulseWidthAssumption DEF Forget, Typed, TypeOK, TriedLast, Widths, NoWidth, Searching
<1> QED BY <1>1 DEF Forget, IInv, Kept, BestSoFar, SelectsAsExhaustive, Searching

(* What a crossing predicts is well typed, and the first search starts anew. *)
LEMMA CrossTyped ==
  ASSUME DecisionTyped, NEW side \in Sides, NEW rate \in Rates, NEW gap \in DOMAIN Remains,
         NEW nowLate \in BOOLEAN, Cross(side, rate, gap, nowLate)
  PROVE  DecisionTyped'
<1> DEFINE goal == Goal[voltage]
           free == CorrectedFreePeak(FreePeak(rate, side), peak.size, side, wanted, nowLate)
           i0   == Decayed(current, gap)
           At(w) == Peak(free, side, Charge(i0, side, goal, w))
<1>t. CycleTypes
  BY DEF DecisionTyped
<1>1. side \in Sides
  OBVIOUS
<1>2. free \in Nat
  <2>1. rate \in Int /\ wanted \in Int /\ peak.size \in Int
    BY <1>t, DecisionAssumption DEF CycleTypes
  <2>2. FreePeak(rate, side) \in Nat
    BY <1>1, <2>1, PredictionTypes
  <2> QED BY <1>1, <2>1, <2>2, PredictionTypes
<1>3. i0 \in Currents /\ i0 \in Int
  BY <1>t, CurrentsClosed, CurrentOf DEF CycleTypes
<1>4. \A w \in Widths : Charge(i0, side, goal, w) \in Nat
  BY <1>t, <1>1, <1>3, PredictionTypes DEF CycleTypes
<1>5. \A w \in Widths : At(w) \in Nat /\ Potential(At(w)) \in Int
  BY <1>1, <1>2, <1>4, PredictionTypes
<1>6. MaxWidth \in Widths
  BY PulseWidthAssumption DEF Widths
<1>c. /\ current' = i0
      /\ crossing' = [side |-> side, free |-> free,
                      available |-> Charge(i0, side, goal, MaxWidth),
                      upper |-> FALSE, lower |-> FALSE]
      /\ most' = IF crossing'.available > most THEN crossing'.available ELSE most
      /\ UNCHANGED <<wanted, integral, pending, peak, voltage, loose>>
  BY DEF Cross
<1>s. /\ valid' = {w \in Widths : InDomain(At(w))}
      /\ energy' = [w \in Widths |-> IF InDomain(At(w)) THEN Potential(At(w)) ELSE 0]
      /\ (passive' = Potential(free) /\ stage' = "ff") \/ (passive' = 0 /\ stage' = "failed")
      /\ target' = Potential(wanted)
      /\ lo' = 0 /\ hi' = MaxWidth /\ next' = 0 /\ best' = NoWidth /\ width' = 0
  <2>1. /\ valid' = {w \in Widths : InDomain(At(w))}
        /\ energy' = [w \in Widths |-> IF InDomain(At(w)) THEN Potential(At(w)) ELSE 0]
    BY DEF Cross
  <2>2. /\ (passive' = Potential(free) /\ stage' = "ff") \/ (passive' = 0 /\ stage' = "failed")
        /\ target' = Potential(wanted)
        /\ lo' = 0 /\ hi' = MaxWidth /\ next' = 0 /\ best' = NoWidth /\ width' = 0
    BY Zenon DEF Cross
  <2> QED BY <2>1, <2>2
<1>7. passive' \in Int /\ target' \in Int
  <2>1. wanted \in Int /\ free \in Int
    BY <1>t, <1>2, DecisionAssumption DEF CycleTypes
  <2>2. Potential(wanted) \in Int /\ Potential(free) \in Int
    BY <2>1, PredictionTypes
  <2> HIDE DEF free
  <2> QED BY <1>s, <2>2
<1>8. energy' \in [Widths -> Int] /\ valid' \subseteq Widths
  <2> HIDE DEF At
  <2> QED BY <1>5, <1>s
<1>9. crossing' \in [side : Sides, free : Nat, available : Nat, upper : BOOLEAN, lower : BOOLEAN]
  <2>1. Charge(i0, side, goal, MaxWidth) \in Nat
    BY <1>4, <1>6
  <2> HIDE DEF free, i0, goal
  <2> QED BY <1>1, <1>2, <1>c, <2>1
<1>10. most' \in Nat
  BY <1>t, <1>9, <1>c DEF CycleTypes
<1> HIDE DEF free, i0, goal, At
<1>11. CycleTypes'
  BY <1>t, <1>3, <1>9, <1>10, <1>c DEF CycleTypes
<1>12. stage' \in {"ff", "failed"}
  BY <1>s
<1>13. TypeOK'
  BY <1>7, <1>8, <1>12, <1>s, PulseWidthAssumption DEF TypeOK, Widths, NoWidth
<1>14. TriedLast' /\ Kept' /\ BestSoFar' /\ SelectsAsExhaustive'
  BY <1>12, <1>s, PulseWidthAssumption
     DEF TriedLast, Kept, BestSoFar, SelectsAsExhaustive, NoWidth, Widths
<1> QED BY <1>11, <1>13, <1>14 DEF DecisionTyped, IInv, Typed

(* The steps of a decision after its crossing are steps of PulseWidth. *)
LEMMA DecisionSearches ==
  /\ SearchStep => Next
  /\ CorrectTarget => Next
  /\ CorrectOutside => Next
  /\ \A mV \in Batteries, granted \in BOOLEAN : Command(mV, granted) => Next
BY DEF SearchStep, CorrectTarget, CorrectOutside, Command, Next

LEMMA DecisionNextTyped == DecisionTyped /\ [DecisionNext]_decisionVars => DecisionTyped'
<1> SUFFICES ASSUME DecisionTyped, [DecisionNext]_decisionVars PROVE DecisionTyped'
  OBVIOUS
<1>t. IInv /\ CycleTypes
  BY DEF DecisionTyped
<1>1. ASSUME NEW side \in Sides, NEW size \in Amplitudes, AcceptPeak(side, size)
      PROVE  DecisionTyped'
  <2>1. IInv'
    BY <1>1, ForgetIInv DEF AcceptPeak
  <2>2. integral' \in [Sides -> Int]
    <3>1. /\ wanted \in Nat /\ size \in Nat /\ Ki \in Nat
          /\ integral \in [Sides -> Int]
      BY <1>t, DecisionAssumption DEF CycleTypes
    <3>2. Ki * (wanted - size) \in Int
      BY <3>1
    <3> DEFINE p == Ki * (wanted - size)
    <3>3. integral' = integral \/ integral' = [integral EXCEPT ![side] = @ + p \div 10]
      BY <1>1 DEF AcceptPeak
    <3>4. p \in Int
      BY <3>2
    <3> HIDE DEF p
    <3> QED BY <3>1, <3>3, <3>4
  <2>3. pending' \in [on : BOOLEAN, side : Sides, upper : BOOLEAN, lower : BOOLEAN]
    BY <1>1, <1>t DEF AcceptPeak, CycleTypes
  <2>4. peak' \in [side : Sides, size : Nat]
    BY <1>1, DecisionAssumption DEF AcceptPeak
  <2>5. crossing' \in [side : Sides, free : Nat, available : Nat, upper : BOOLEAN, lower : BOOLEAN]
    BY <1>1 DEF AcceptPeak, Forget, NoCrossing, Sides
  <2>6. loose' \in Nat
    BY <1>1, <1>t DEF AcceptPeak, CycleTypes
  <2>7. UNCHANGED <<wanted, current, voltage, most>>
    BY <1>1 DEF AcceptPeak
  <2> QED BY <1>t, <2>1, <2>2, <2>3, <2>4, <2>5, <2>6, <2>7 DEF DecisionTyped, CycleTypes
<1>2. CASE \E side \in Sides, rate \in Rates, gap \in DOMAIN Remains, nowLate \in BOOLEAN :
             Cross(side, rate, gap, nowLate)
  BY <1>2, CrossTyped
<1>3. CASE SearchStep
  <2>1. IInv'
    BY <1>3, <1>t, DecisionSearches, NextIInv
  <2> QED BY <1>3, <1>t, <2>1 DEF SearchStep, cycleVars, DecisionTyped, CycleTypes
<1>4. CASE CorrectTarget
  <2>1. IInv'
    BY <1>4, <1>t, DecisionSearches, NextIInv
  <2>2. crossing' \in [side : Sides, free : Nat, available : Nat, upper : BOOLEAN, lower : BOOLEAN]
    <3> DEFINE u == Unclamped > crossing.available \/ (best = MaxWidth /\ energy[best] < target)
               l == Unclamped < 0
    <3>1. u \in BOOLEAN /\ l \in BOOLEAN
      OBVIOUS
    <3>2. crossing' = [crossing EXCEPT !.upper = u, !.lower = l]
      BY <1>4 DEF CorrectTarget
    <3> HIDE DEF u, l
    <3> QED BY <1>t, <3>1, <3>2 DEF CycleTypes
  <2>3. UNCHANGED <<wanted, integral, pending, peak, current, voltage, most, loose>>
    BY <1>4 DEF CorrectTarget
  <2> QED BY <1>t, <2>1, <2>2, <2>3 DEF DecisionTyped, CycleTypes
<1>5. CASE CorrectOutside
  <2>1. IInv'
    BY <1>5, <1>t, DecisionSearches, NextIInv
  <2> QED BY <1>5, <1>t, <2>1 DEF CorrectOutside, cycleVars, DecisionTyped, CycleTypes
<1>6. ASSUME NEW mV \in Batteries, NEW granted \in BOOLEAN, Command(mV, granted)
      PROVE  DecisionTyped'
  <2>1. IInv'
    BY <1>6, <1>t, DecisionSearches, NextIInv
  <2>2. pending' \in [on : BOOLEAN, side : Sides, upper : BOOLEAN, lower : BOOLEAN]
    BY <1>6, <1>t DEF Command, CycleTypes
  <2>3. current' \in Currents
    <3>1. crossing.side \in Sides /\ current \in Currents /\ voltage \in DOMAIN Goal
      BY <1>t DEF CycleTypes
    <3>2. width' \in Widths
      BY <2>1 DEF IInv, Typed, TypeOK
    <3>3. PICK w \in Widths : width' = w
      BY <3>2
    <3>4. EndCurrent(current, crossing.side, Goal[voltage], w) \in Currents
      BY <3>1, CurrentsClosed
    <3>5. current' = current \/ current' = EndCurrent(current, crossing.side, Goal[voltage], w)
      BY <1>6, <3>3 DEF Command
    <3> QED BY <3>1, <3>4, <3>5
  <2>4. voltage' \in DOMAIN Goal
    BY <1>6, <1>t, DecisionAssumption DEF Command, CycleTypes
  <2>5. UNCHANGED <<wanted, integral, peak, crossing, most, loose>>
    BY <1>6 DEF Command
  <2> QED BY <1>t, <2>1, <2>2, <2>3, <2>4, <2>5 DEF DecisionTyped, CycleTypes
<1>7. CASE UNCHANGED decisionVars
  <2>1. IInv'
    BY <1>7, <1>t, NextIInv DEF decisionVars, solverVars
  <2> QED BY <1>7, <1>t, <2>1 DEF decisionVars, cycleVars, DecisionTyped, CycleTypes
<1> QED BY <1>1, <1>2, <1>3, <1>4, <1>5, <1>6, <1>7 DEF DecisionNext

LEMMA DecisionTypes == DecisionSpec => []DecisionTyped
BY DecisionInitTyped, DecisionNextTyped, PTL DEF DecisionSpec

(* Every decision of a run, and both of its searches, select what trying every
   width would: updateEnergyControlAutonomousAtZeroCross with fast_pick_width. *)
THEOREM DecisionIsExhaustive == DecisionSpec => []SelectsAsExhaustive
<1>1. DecisionTyped => SelectsAsExhaustive
  BY DEF DecisionTyped, IInv
<1> QED BY <1>1, DecisionTypes, PTL

-----------------------------------------------------------------------------
(* The integral: while a command is at no limit, the charge it corrects is one
   the longest pulse could have moved, and so the integral is no larger. *)

(* The integral of a side is within the most charge, on the sides not limited. *)
WithinMost(side, upper, lower) ==
  /\ ~upper => integral[side] <= most
  /\ ~lower => -most <= integral[side]

LimitInv ==
  /\ crossing.available <= most
  /\ Searching =>
       \A w \in Widths : Charge(current, crossing.side, Goal[voltage], w) <= crossing.available
  /\ stage = "selected" => WithinMost(crossing.side, crossing.upper, crossing.lower)
  /\ pending.on => WithinMost(pending.side, pending.upper, pending.lower)

(* What an error moves the integral by is no more than Step. *)
LEMMA StepBounds ==
  ASSUME NEW error \in Int, Magnitude(error) <= MaxError
  PROVE  /\ Step \in Nat
         /\ (Ki * error) \div 10 \in -Step .. Step
         /\ error >= 0 => (Ki * error) \div 10 >= 0
         /\ error <= 0 => (Ki * error) \div 10 <= 0
<1> DEFINE p == Ki * error
           m == Ki * MaxError
<1>1. Ki \in Nat /\ MaxError \in Nat
  BY DecisionAssumption
<1>2. error \in -MaxError .. MaxError
  BY <1>1 DEF Magnitude
<1>3. p \in Int /\ m \in Nat
  BY <1>1
<1>4. p <= m
  BY <1>1, <1>2
<1>5. -m <= p
  <2>1. Ki * (-MaxError) <= p
    BY <1>1, <1>2
  <2>2. Ki * (-MaxError) = -m
    BY <1>1
  <2> HIDE DEF p, m
  <2> QED BY <1>3, <2>1, <2>2
<1>6. (error >= 0 => p >= 0) /\ (error <= 0 => p <= 0)
  BY <1>1
<1>7. Step = (m + 9) \div 10
  BY DEF Step
<1> HIDE DEF p, m
<1>8. /\ Step \in Nat /\ p \div 10 \in -Step .. Step
      /\ p >= 0 => p \div 10 >= 0
      /\ p <= 0 => p \div 10 <= 0
  BY <1>3, <1>4, <1>5, <1>7
<1> QED BY <1>6, <1>8 DEF p

(* The same of the whole bound. *)
LEMMA BoundGrows ==
  ASSUME NEW a \in Nat, NEW b \in Nat, NEW step \in Nat, a <= b
  PROVE  /\ (a + 1) * step \in Nat
         /\ (a + 1) * step <= (b + 1) * step
         /\ step <= (a + 1) * step
         /\ (a + 2) * step = (a + 1) * step + step
OBVIOUS

(* An accepted peak moves the integral by one step at most, outward only where
   the last command was at no limit. *)
LEMMA AcceptBounded ==
  ASSUME DecisionTyped, LimitInv, IntegralBounded,
         NEW side \in Sides, NEW size \in Amplitudes, AcceptPeak(side, size)
  PROVE  IntegralBounded'
<1> DEFINE error == wanted - size
           moved == (Ki * error) \div 10
           bound == most + (loose + 1) * Step
<1>t. /\ wanted \in Wanted /\ wanted \in Nat /\ integral \in [Sides -> Int]
      /\ most \in Nat /\ loose \in Nat /\ size \in Nat
      /\ error \in Int /\ Magnitude(error) <= MaxError
  BY DecisionAssumption DEF DecisionTyped, CycleTypes
<1>1. /\ Step \in Nat /\ moved \in -Step .. Step
      /\ error >= 0 => moved >= 0
      /\ error <= 0 => moved <= 0
  BY <1>t, StepBounds
<1>2. /\ bound \in Nat /\ most + Step <= bound
      /\ (loose + 2) * Step = (loose + 1) * Step + Step
  BY <1>t, <1>1, BoundGrows
<1>3. /\ integral' = IF Holds(side, error) THEN integral
                     ELSE [integral EXCEPT ![side] = @ + moved]
      /\ most' = most
      /\ loose' = IF pending.on THEN loose ELSE loose + 1
      /\ pending.on => side = pending.side
  BY DEF AcceptPeak
<1>4. \A s \in Sides : integral[s] \in -bound .. bound
  BY <1>t, <1>2 DEF IntegralBounded, Magnitude
<1>5. loose' = loose => IntegralBounded' = (\A s \in Sides : Magnitude(integral'[s]) <= bound)
  BY <1>3 DEF IntegralBounded
<1>6. loose' = loose + 1 =>
        IntegralBounded' = (\A s \in Sides : Magnitude(integral'[s]) <= bound + Step)
  <2> SUFFICES ASSUME loose' = loose + 1
               PROVE  IntegralBounded' = (\A s \in Sides : Magnitude(integral'[s]) <= bound + Step)
    OBVIOUS
  <2>1. loose' + 1 = loose + 2
    BY <1>t
  <2>2. most' + (loose' + 1) * Step = bound + Step
    BY <1>t, <1>1, <1>2, <1>3, <2>1
  <2> QED BY <2>2 DEF IntegralBounded
<1> HIDE DEF error, moved, bound
<1>7. CASE pending.on
  <2>1. loose' = loose
    BY <1>3, <1>7
  <2>2. WithinMost(side, pending.upper, pending.lower)
    BY <1>3, <1>7 DEF LimitInv
  <2>3. ASSUME NEW s \in Sides PROVE integral'[s] \in -bound .. bound
    <3>1. CASE Holds(side, error) \/ s # side
      BY <1>t, <1>3, <1>4, <3>1
    <3>2. CASE ~Holds(side, error) /\ s = side
      <4>1. integral'[s] = integral[s] + moved
        BY <1>t, <1>3, <3>2
      <4>2. /\ error > 0 => integral[s] <= most
            /\ error < 0 => -most <= integral[s]
        BY <1>3, <1>7, <2>2, <3>2 DEF Holds, WithinMost
      <4> QED BY <1>t, <1>1, <1>2, <1>4, <4>1, <4>2
    <3> QED BY <3>1, <3>2
  <2> QED BY <1>2, <1>5, <2>1, <2>3 DEF Magnitude
<1>8. CASE ~pending.on
  <2>1. loose' = loose + 1
    BY <1>3, <1>8
  <2>2. ASSUME NEW s \in Sides PROVE integral'[s] \in -(bound + Step) .. bound + Step
    BY <1>t, <1>1, <1>2, <1>3, <1>4
  <2> QED BY <1>1, <1>2, <1>6, <2>1, <2>2 DEF Magnitude
<1> QED BY <1>7, <1>8

(* The target is corrected: where the sum of charge and integral is no larger than
   the charge available, the integral is not either. *)
LEMMA CorrectLimits ==
  ASSUME DecisionTyped, LimitInv, CorrectTarget
  PROVE  LimitInv'
<1> DEFINE available == crossing.available
           side == crossing.side
<1>t. /\ CycleTypes /\ integral \in [Sides -> Int] /\ most \in Nat
      /\ available \in Nat /\ side \in Sides /\ voltage \in DOMAIN Goal
      /\ current \in Int
  BY CurrentOf DEF DecisionTyped, CycleTypes
<1>b. best \in Widths
  BY PulseWidthAssumption
     DEF CorrectTarget, Found, DecisionTyped, IInv, Typed, TypeOK, TriedLast, Widths, NoWidth
<1>c. /\ Searching /\ stage' = "selected"
      /\ UNCHANGED <<integral, pending, current, voltage, most>>
  BY DEF CorrectTarget, Correct, Searching
<1>d. /\ crossing'.side = side /\ crossing'.available = available
      /\ ~crossing'.upper => ~(Unclamped > available)
      /\ ~crossing'.lower => ~(Unclamped < 0)
  <2> DEFINE u == Unclamped > crossing.available \/ (best = MaxWidth /\ energy[best] < target)
             l == Unclamped < 0
  <2>1. crossing' = [crossing EXCEPT !.upper = u, !.lower = l]
    BY DEF CorrectTarget
  <2>2. crossing \in [side : Sides, free : Nat, available : Nat, upper : BOOLEAN, lower : BOOLEAN]
    BY <1>t DEF CycleTypes
  <2> HIDE DEF u, l
  <2>3. /\ crossing'.side = side /\ crossing'.available = available
        /\ crossing'.upper = u /\ crossing'.lower = l
    BY <2>1, <2>2
  <2> QED BY <2>3 DEF u, l
<1>1. FoundCharge \in Nat /\ FoundCharge <= available /\ available <= most
  BY <1>t, <1>b, <1>c, PredictionTypes DEF LimitInv, FoundCharge
<1>2. Unclamped = FoundCharge + integral[side] /\ integral[side] \in Int
  BY <1>t DEF Unclamped
<1>3. /\ ~crossing'.upper => integral[side] <= most
      /\ ~crossing'.lower => -most <= integral[side]
  BY <1>1, <1>2, <1>d, <1>t
<1>4. WithinMost(crossing.side, crossing.upper, crossing.lower)'
  BY <1>3, <1>c, <1>d DEF WithinMost
<1>5. (pending.on => WithinMost(pending.side, pending.upper, pending.lower))'
  BY <1>c DEF LimitInv, WithinMost
<1>6. \A w \in Widths : Charge(current', crossing'.side, Goal[voltage'], w) <= crossing'.available
  BY <1>c, <1>d DEF LimitInv
<1> QED BY <1>1, <1>4, <1>5, <1>6, <1>c, <1>d DEF LimitInv

LEMMA NextLimits ==
  DecisionTyped /\ LimitInv /\ IntegralBounded /\ [DecisionNext]_decisionVars
    => LimitInv' /\ IntegralBounded'
<1> SUFFICES ASSUME DecisionTyped, LimitInv, IntegralBounded, [DecisionNext]_decisionVars
             PROVE  LimitInv' /\ IntegralBounded'
  OBVIOUS
<1>t. CycleTypes /\ most \in Nat /\ loose \in Nat /\ integral \in [Sides -> Int]
  BY DEF DecisionTyped, CycleTypes
<1>n. Step \in Nat
  BY DecisionAssumption, StepBounds DEF Step
<1>1. ASSUME NEW side \in Sides, NEW size \in Amplitudes, AcceptPeak(side, size)
      PROVE  LimitInv' /\ IntegralBounded'
  <2>1. /\ stage' = "failed" /\ crossing' = NoCrossing /\ most' = most
        /\ pending' = [pending EXCEPT !.on = FALSE]
    BY <1>1 DEF AcceptPeak, Forget
  <2>2. ~pending'.on
    BY <1>t, <2>1 DEF CycleTypes
  <2>3. LimitInv'
    BY <1>t, <2>1, <2>2 DEF LimitInv, NoCrossing, Searching
  <2> QED BY <1>1, <2>3, AcceptBounded
<1>2. ASSUME NEW side \in Sides, NEW rate \in Rates, NEW gap \in DOMAIN Remains,
             NEW nowLate \in BOOLEAN, Cross(side, rate, gap, nowLate)
      PROVE  LimitInv' /\ IntegralBounded'
  <2> DEFINE i0 == Decayed(current, gap)
  <2>1. /\ current' = i0 /\ crossing'.side = side
        /\ crossing'.available = Charge(i0, side, Goal[voltage], MaxWidth)
        /\ most' = IF crossing'.available > most THEN crossing'.available ELSE most
        /\ UNCHANGED <<integral, pending, voltage, loose>>
    BY <1>2 DEF Cross
  <2>2. stage' # "selected"
    BY <1>2 DEF Cross
  <2>3. side \in Sides /\ current \in Currents /\ voltage \in DOMAIN Goal
    BY <1>t DEF CycleTypes
  <2>4. \A w \in Widths : Charge(i0, side, Goal[voltage], w)
                            <= Charge(i0, side, Goal[voltage], MaxWidth)
    BY <2>3, LongestMovesMost
  <2>5. crossing'.available \in Nat
    <3>1. CycleTypes'
      BY <1>2, CrossTyped DEF DecisionTyped
    <3> QED BY <3>1 DEF CycleTypes
  <2>6. most' \in Nat /\ crossing'.available <= most' /\ most <= most'
    BY <1>t, <2>1, <2>5
  <2>7. (pending.on => WithinMost(pending.side, pending.upper, pending.lower))'
    <3> SUFFICES ASSUME pending.on
                 PROVE  WithinMost(pending.side, pending.upper, pending.lower)'
      BY <2>1
    <3>1. WithinMost(pending.side, pending.upper, pending.lower)
      BY DEF LimitInv
    <3>2. pending.side \in Sides /\ integral[pending.side] \in Int
      BY <1>t DEF CycleTypes
    <3> QED BY <1>t, <2>1, <2>6, <3>1, <3>2 DEF WithinMost
  <2>8. LimitInv'
    BY <2>1, <2>2, <2>4, <2>6, <2>7 DEF LimitInv
  <2>9. IntegralBounded'
    <3> DEFINE slack == (loose + 1) * Step
    <3>1. slack \in Nat
      BY <1>t, <1>n, BoundGrows
    <3>2. most' + (loose' + 1) * Step = most' + slack
      BY <2>1
    <3>3. \A s \in Sides : Magnitude(integral[s]) <= most + slack /\ Magnitude(integral[s]) \in Nat
      BY <1>t DEF IntegralBounded, Magnitude
    <3> HIDE DEF slack
    <3> QED BY <1>t, <2>1, <2>6, <3>1, <3>2, <3>3 DEF IntegralBounded
  <2> QED BY <2>8, <2>9
<1>3. CASE SearchStep
  <2>1. UNCHANGED cycleVars
    BY <1>3 DEF SearchStep
  <2>2. /\ Searching' => Searching
        /\ stage' = "selected" => stage = "selected"
    BY <1>3 DEF SearchStep, Narrow, NarrowFails, Try, TryFails, Fail, Searching
  <2> QED BY <2>1, <2>2 DEF cycleVars, LimitInv, WithinMost, IntegralBounded
<1>4. CASE CorrectTarget
  <2>1. IntegralBounded'
    BY <1>4 DEF CorrectTarget, IntegralBounded
  <2> QED BY <1>4, <2>1, CorrectLimits
<1>5. CASE CorrectOutside
  BY <1>5 DEF CorrectOutside, CorrectFails, Fail, cycleVars, LimitInv, WithinMost,
              IntegralBounded, Searching
<1>6. ASSUME NEW mV \in Batteries, NEW granted \in BOOLEAN, Command(mV, granted)
      PROVE  LimitInv' /\ IntegralBounded'
  <2>1. /\ stage = "selected" /\ stage' = "done"
        /\ pending' = [on    |-> TRUE, side |-> crossing.side,
                       upper |-> crossing.upper, lower |-> crossing.lower]
        /\ UNCHANGED <<integral, crossing, most, loose>>
    BY <1>6 DEF Command, Select
  <2>2. WithinMost(pending'.side, pending'.upper, pending'.lower)
    BY <2>1 DEF LimitInv
  <2>3. LimitInv'
    BY <2>1, <2>2 DEF LimitInv, WithinMost, Searching
  <2> QED BY <2>1, <2>3 DEF IntegralBounded
<1>7. CASE UNCHANGED decisionVars
  BY <1>7 DEF decisionVars, solverVars, vars, cycleVars, LimitInv, WithinMost,
              IntegralBounded, Searching
<1> QED BY <1>1, <1>2, <1>3, <1>4, <1>5, <1>6, <1>7 DEF DecisionNext

(* However long a target stays out of reach, the integral of a side stays within
   the most charge there was to correct, but for one step and one for each peak
   that no completed decision preceded: the hold of recordEnergyControlAutonomousPeak,
   with the limits of the decision before. *)
THEOREM AntiWindup == DecisionSpec => []IntegralBounded
<1>1. DecisionInit => LimitInv /\ IntegralBounded
  <2> SUFFICES ASSUME DecisionInit PROVE LimitInv /\ IntegralBounded
    OBVIOUS
  <2>1. Step \in Nat
    BY DecisionAssumption, StepBounds DEF Step
  <2>2. most = 0 /\ loose = 0 /\ \A side \in Sides : integral[side] = 0
    BY DEF DecisionInit
  <2> QED BY <2>1, <2>2 DEF DecisionInit, LimitInv, IntegralBounded, NoCrossing, Searching, Magnitude
<1> QED BY <1>1, NextLimits, DecisionTypes, PTL DEF DecisionSpec
=============================================================================
