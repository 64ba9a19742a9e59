--------------------------- MODULE ImuStartup_proofs ---------------------------
(***************************************************************************)
(* Proofs about the IMU from its startup on: acquisition is never half up    *)
(* and no run begins on a stream that was never seen valid, for every number *)
(* of attempts and length of the stream; ImuAcquisition is well typed under  *)
(* all of it; the samples of a run are kept and delivered without a gap, and  *)
(* the audit of a measurement balances, for every length of the queue and    *)
(* modulus of the sequence numbers; and, from what is said of the steps that *)
(* are enabled, a fault or a silent sensor ends the run.                     *)
(***************************************************************************)
EXTENDS ImuStartup, FiniteSetTheorems, TLAPS

(* What exists at each stage of begin(), which leaves to setup() all or a queue. *)
Built ==
  /\ stage \in Stages
  /\ stage \in {"sensor", "warm", "queue"} => parts = {}
  /\ stage = "timer" => parts = {"queue"}
  /\ stage = "task" => parts = {"queue", "timer"}
  /\ stage = "arm" => parts = {"queue", "timer", "task"}
  /\ stage \in {"note", "up"} => parts = Parts
  /\ stage = "down" => parts \subseteq {"queue"}

(* A stream that was seen valid comes before the first part of the acquisition. *)
Streamed ==
  stage \in {"queue", "timer", "task", "arm", "note", "up"} =>
    warm.accel >= WarmAccel /\ warm.gyro >= WarmGyro

StartedLast == (started => stage = "up") /\ (running => started)

StartInv == Built /\ Streamed /\ StartedLast

-----------------------------------------------------------------------------

LEMMA InitStart == StartupInit => StartInv
BY DEF StartupInit, Init, StartInv, Built, Stages, Streamed, StartedLast

(* Nothing that happens to the sensor, the reader or the owner starts a run unless
   acquisition was started. *)
LEMMA RunNeedsStart ==
  ASSUME StartedLast, Poll \/ Silent \/ Owner
  PROVE  started' = started /\ (running' => started)
<1>1. CASE SensorSample \/ PollStatus \/ PollFails \/ PollAccel
  BY <1>1 DEF SensorSample, PollStatus, PollFails, PollAccel, ReaderIdle, vars, consumerVars,
              StartedLast
<1>2. CASE PollNonfinite \/ PollGyro \/ Silent
  BY <1>2 DEF PollNonfinite, PollGyro, Silent, CaptureNonfinite, Capture, Silence, consumerVars,
              StartedLast
<1>3. CASE Owner
  <2>1. started' = started
    BY <1>3 DEF Owner
  <2>2. CASE ContextAudit
    BY <2>1, <2>2 DEF ContextAudit, Context, StartedLast
  <2>3. CASE UpdateQuiet \/ DeliverAudit
    BY <2>1, <2>3 DEF UpdateQuiet, DeliverAudit, UpdateBegin, UpdateTimeout, UpdateReceive, UpdateDiscard,
                UpdateDrain, UpdateLate, UpdateDeliver, StartedLast
  <2>4. CASE RunnerPhase
    <3>1. CASE CheckHealth
      <4>1. running' = (running /\ started /\ ~fault /\ ~silent)
        BY <3>1 DEF CheckHealth
      <4> QED BY <2>1, <4>1, Zenon DEF StartedLast
    <3>2. CASE Runner
      <4>1. running' => running \/ started
        BY <3>2, Zenon DEF Runner
      <4> QED BY <2>1, <4>1, Zenon DEF StartedLast
    <3> QED BY <2>4, <3>1, <3>2 DEF RunnerPhase
  <2> QED BY <1>3, <2>1, <2>2, <2>3, <2>4 DEF Owner
<1> QED BY <1>1, <1>2, <1>3 DEF Poll

LEMMA NextStart == StartInv /\ [StartupNext]_allVars => StartInv'
<1> SUFFICES ASSUME StartInv, [StartupNext]_allVars PROVE StartInv'
  OBVIOUS
<1> USE DEF StartInv
<1>1. ASSUME OnlyStartup, stage # "up"
      PROVE  StartedLast'
  BY <1>1 DEF OnlyStartup, readerAllVars, vars, consumerVars, StartedLast
<1>2. CASE SensorFails \/ SensorAnswers \/ WarmTimeout
  <2>1. /\ OnlyStartup /\ parts' = parts /\ stage \in {"sensor", "warm"}
        /\ stage' \in {"sensor", "warm", "down"}
    BY <1>2 DEF SensorFails, SensorAnswers, WarmTimeout, Stage, NextAttempt
  <2> QED BY <1>1, <2>1 DEF Built, Stages, Streamed
<1>3. CASE WarmUp
  <2>1. /\ stage = "warm" /\ stage' \in {"warm", "queue"} /\ UNCHANGED <<started, running, parts>>
        /\ stage' = "queue" => warm'.accel = WarmAccel /\ warm'.gyro >= WarmGyro
    BY <1>3 DEF WarmUp
  <2> QED BY <2>1, StartupAssumption DEF Built, Stages, Streamed, StartedLast
<1>4. CASE MakeQueue \/ MakeTimer \/ MakeTask \/ StartTimer
  <2>1. OnlyStartup /\ stage # "up" /\ warm' = warm
    BY <1>4 DEF MakeQueue, MakeTimer, MakeTask, StartTimer, Stage
  <2>2. Built'
    BY <1>4 DEF MakeQueue, MakeTimer, MakeTask, StartTimer, Stage, Built, Stages, Parts
  <2>3. Streamed'
    BY <1>4, <2>1 DEF MakeQueue, MakeTimer, MakeTask, StartTimer, Stage, Streamed
  <2> QED BY <1>1, <2>1, <2>2, <2>3
<1>5. CASE NoteStart
  BY <1>5 DEF NoteStart, Stage, consumerVars, Built, Stages, Streamed, StartedLast
<1>6. ASSUME Poll \/ Silent \/ Owner, UNCHANGED startupVars
      PROVE  StartInv'
  BY <1>6, RunNeedsStart DEF startupVars, Built, Streamed, StartedLast
<1>7. CASE UNCHANGED allVars
  BY <1>7 DEF allVars, startupVars, readerAllVars, vars, consumerVars, Built, Streamed, StartedLast
<1> QED BY <1>2, <1>3, <1>4, <1>5, <1>6, <1>7 DEF StartupNext, Begin, Loop

(* The timer never wakes a task that is not there or has no queue, a failure leaves
   nothing but the queue, and a run needs all of it and a valid stream: begin,
   initializeSensorAttempt, startAcquisition. *)
THEOREM StartsWhole == StartupSpec => []NoHalfStart
<1>1. StartInv => NoHalfStart
  BY DEF StartInv, Built, Stages, Streamed, StartedLast, Parts, NoHalfStart
<1> QED BY <1>1, InitStart, NextStart, PTL DEF StartupSpec

-----------------------------------------------------------------------------
(* Types. *)

(* update() holds samples only between its first receive and its end. *)
TypedAcquisition ==
  /\ TypeOK
  /\ pc \notin {"discard", "drain", "deliver"} => taken = 0

TInv == TypedAcquisition /\ warm.gyro \in 0 .. WarmGyro

LEMMA IncIsNumber == ASSUME NEW n \in SeqNums PROVE Inc(n) \in SeqNums
BY ImuAssumption DEF SeqNums, Inc

LEMMA TakeKeeps ==
  ASSUME TypeOK, Take, queue # <<>>, taken < QueueLen
  PROVE  /\ next' \in SeqNums /\ taken' \in 0 .. QueueLen
         /\ queue' \in Seq(SeqNums) /\ Len(queue') <= QueueLen
BY ImuAssumption DEF TypeOK, Take

LEMMA CaptureTyped ==
  ASSUME TypedAcquisition, Capture, UNCHANGED started
  PROVE  TypedAcquisition'
<1> DEFINE new == Inc(latest)
<1>1. new \in SeqNums
  BY IncIsNumber DEF TypedAcquisition, TypeOK
<1>2. queue' \in Seq(SeqNums) /\ Len(queue') <= QueueLen
  <2> HIDE DEF new
  <2> USE ImuAssumption DEF TypedAcquisition, TypeOK
  <2>1. CASE Overflows
    BY <2>1 DEF Capture, Publish
  <2>2. CASE ~Overflows /\ Full
    <3>1. queue' = Append(Tail(queue), new)
      BY <2>2 DEF Capture, Publish, new
    <3>2. Tail(queue) \in Seq(SeqNums) /\ Len(Tail(queue)) = QueueLen - 1
      BY <2>2 DEF Full
    <3> QED BY <1>1, <3>1, <3>2
  <2>3. CASE ~Overflows /\ ~Full
    <3>1. queue' = Append(queue, new)
      BY <2>3 DEF Capture, Publish, new
    <3> QED BY <1>1, <2>3, <3>1 DEF Full
  <2> QED BY <2>1, <2>2, <2>3
<1>3. fault' \in BOOLEAN
  BY DEF Capture, Publish, TypedAcquisition, TypeOK, Overflows
<1>4. latest' \in SeqNums
  BY <1>1 DEF Capture
<1> QED BY <1>2, <1>3, <1>4 DEF Capture, TypedAcquisition, TypeOK, contextVars, consumerVars, historyVars

LEMMA ConsumerTyped ==
  ASSUME TypedAcquisition, UNCHANGED started,
         Context \/ Update \/ CheckHealth \/ Runner
  PROVE  TypedAcquisition'
<1> USE ImuAssumption
    DEF TypedAcquisition, TypeOK, Pcs, At, GoTo, Done, readerVars, contextVars, historyVars
<1>0. 0 \in SeqNums
  BY DEF SeqNums
<1>1. CASE Context
  BY <1>1 DEF Context
<1>2. CASE UpdateBegin
  <2>1. CASE Done
    BY <1>0, <1>2, <2>1 DEF UpdateBegin
  <2>2. CASE UNCHANGED <<next, taken, imuOk, swept>>
    BY <1>2, <2>2 DEF UpdateBegin
  <2> QED BY <1>2, <2>1, <2>2 DEF UpdateBegin
<1>6. CASE UpdateTimeout
  <2>1. UNCHANGED <<imuOk, running, lastLive, latest, queue, fault, silent, sequential, cutoff>> /\ Done
    BY <1>6 DEF UpdateTimeout
  <2> QED BY <1>0, <2>1
<1>7. CASE UpdateLate
  <2>1. fault' \in BOOLEAN /\ imuOk' \in BOOLEAN
    BY <1>7 DEF UpdateLate
  <2>2. UNCHANGED <<running, lastLive, latest, queue, silent, sequential, cutoff>> /\ Done
    BY <1>7 DEF UpdateLate
  <2> QED BY <1>0, <2>1, <2>2
<1>8. CASE UpdateDeliver
  <2>1. lastLive' \in SeqNums
    BY <1>8 DEF UpdateDeliver
  <2> QED BY <1>0, <1>8, <2>1 DEF UpdateDeliver
<1>3. CASE UpdateReceive \/ UpdateDiscard \/ UpdateDrain
  <2>1. /\ next' \in SeqNums /\ taken' \in 0 .. QueueLen
        /\ queue' \in Seq(SeqNums) /\ Len(queue') <= QueueLen
    <3>1. CASE Take /\ queue # <<>> /\ taken < QueueLen
      BY <3>1, TakeKeeps
    <3>2. CASE queue' = queue
      BY <1>0, <1>3, <3>2 DEF UpdateReceive, UpdateDiscard, UpdateDrain, Take
    <3> QED BY <1>3, <3>1, <3>2 DEF UpdateReceive, UpdateDiscard, UpdateDrain
  <2>2. pc' \in Pcs /\ (pc' \notin {"discard", "drain", "deliver"} => taken' = 0)
    BY <1>3 DEF UpdateReceive, UpdateDiscard, UpdateDrain
  <2>3. swept' \in BOOLEAN /\ UNCHANGED <<latest, fault, silent, contextVars, imuOk, running, lastLive>>
    BY <1>3 DEF UpdateReceive, UpdateDiscard, UpdateDrain
  <2> QED BY <2>1, <2>2, <2>3
<1>4. CASE CheckHealth
  BY <1>4 DEF CheckHealth
<1>5. CASE Runner
  BY <1>5 DEF Runner
<1> QED BY <1>1, <1>2, <1>3, <1>4, <1>5, <1>6, <1>7, <1>8 DEF Update

LEMMA PollTyped ==
  ASSUME TypedAcquisition, Poll \/ Silent
  PROVE  TypedAcquisition'
<1>1. CASE UNCHANGED vars
  BY <1>1 DEF vars, readerVars, contextVars, consumerVars, historyVars, TypedAcquisition, TypeOK, Pcs
<1>2. CASE PollNonfinite \/ Silent
  BY <1>2 DEF PollNonfinite, Silent, CaptureNonfinite, Silence, contextVars, consumerVars, historyVars,
              TypedAcquisition, TypeOK
<1>3. CASE PollGyro
  BY <1>3, CaptureTyped DEF PollGyro
<1>4. CASE SensorSample \/ PollStatus \/ PollFails \/ PollAccel
  BY <1>1, <1>4 DEF SensorSample, PollStatus, PollFails, PollAccel, ReaderIdle
<1> QED BY <1>2, <1>3, <1>4 DEF Poll

LEMMA NextTyped == TInv /\ [StartupNext]_allVars => TInv'
<1> SUFFICES ASSUME TInv, [StartupNext]_allVars PROVE TInv'
  OBVIOUS
<1> USE DEF TInv
<1>1. ASSUME UNCHANGED vars
      PROVE  TypedAcquisition'
  BY <1>1 DEF vars, readerVars, contextVars, consumerVars, historyVars, TypedAcquisition, TypeOK
<1>2. ASSUME OnlyStartup, UNCHANGED warm \/ warm' = Cold
      PROVE  TInv'
  <2>1. TypedAcquisition'
    BY <1>1, <1>2 DEF OnlyStartup, readerAllVars
  <2> QED BY <1>2, <2>1, StartupAssumption DEF Cold
<1>3. CASE WarmUp
  <2>1. PICK new \in (SUBSET Data) \ {{}} :
          /\ WarmFits(new)
          /\ warm' = [accel |-> IF "accel" \in new THEN Least(WarmAccel, warm.accel + 1) ELSE warm.accel,
                      gyro  |-> IF "gyro" \in new THEN warm.gyro + 1 ELSE warm.gyro]
          /\ latest' = IF "gyro" \in new THEN warm'.gyro ELSE latest
    BY <1>3 DEF WarmUp
  <2>2. warm'.gyro \in 0 .. WarmGyro
    BY <2>1, StartupAssumption DEF WarmFits
  <2>3. latest' \in SeqNums
    BY <2>1, <2>2, StartupAssumption, ImuAssumption DEF TypedAcquisition, TypeOK, SeqNums
  <2>4. imuOk' \in BOOLEAN
    BY <1>3 DEF WarmUp
  <2> QED BY <1>3, <2>2, <2>3, <2>4 DEF WarmUp, contextVars, historyVars, TypedAcquisition, TypeOK
<1>4. CASE NoteStart
  BY <1>4 DEF NoteStart, readerVars, contextVars, consumerVars, historyVars, TypedAcquisition, TypeOK
<1>5. CASE (Poll \/ Silent) /\ UNCHANGED startupVars
  BY <1>5, PollTyped DEF startupVars
<1>6. CASE Loop
  <2>1. /\ Context \/ Update \/ CheckHealth \/ Runner
        /\ UNCHANGED <<started, warm>>
    BY <1>6 DEF Loop, Owner, ContextAudit, UpdateQuiet, DeliverAudit, RunnerPhase, Update, startupVars
  <2> QED BY <2>1, ConsumerTyped
<1>7. CASE UNCHANGED allVars
  BY <1>1, <1>7 DEF allVars, readerAllVars, startupVars
<1> QED
  BY <1>2, <1>3, <1>4, <1>5, <1>6, <1>7
  DEF StartupNext, Begin, SensorFails, SensorAnswers, WarmTimeout, MakeQueue, MakeTimer, MakeTask, StartTimer

LEMMA InitTyped == StartupInit => TInv
<1> SUFFICES ASSUME StartupInit PROVE TInv
  OBVIOUS
<1>1. queue \in Seq(SeqNums) /\ Len(queue) <= QueueLen
  BY ImuAssumption DEF StartupInit, Init
<1>2. /\ latest \in SeqNums /\ cutoff \in SeqNums /\ next \in SeqNums /\ lastLive \in SeqNums
      /\ taken \in 0 .. QueueLen /\ taken = 0
  BY ImuAssumption DEF StartupInit, Init, SeqNums
<1>3. warm.gyro \in 0 .. WarmGyro
  BY StartupAssumption DEF StartupInit, Cold
<1> QED BY <1>1, <1>2, <1>3 DEF StartupInit, Init, TInv, TypedAcquisition, TypeOK, Pcs

(* Sequence numbers stay numbers across their wrap and the queue within its length,
   from begin() on. *)
THEOREM TypeCorrect == StartupSpec => []TypeOK
<1>1. TInv => TypeOK
  BY DEF TInv, TypedAcquisition
<1> QED BY <1>1, InitTyped, NextTyped, PTL DEF StartupSpec

-----------------------------------------------------------------------------
(* A gyro sample leaves the sensor for the queue, or for the fault it latches: a poll
   reads no more registers than those whose flag it saw (readRaw). *)
THEOREM ReadsAreKept == StartupSpec => NothingReadAway
<1>1. ASSUME [StartupNext]_allVars
      PROVE  [started /\ "gyro" \in unread /\ "gyro" \notin unread'
                => latest' = Inc(latest) \/ fault']_readerAllVars
  <2> SUFFICES ASSUME started, "gyro" \in unread, "gyro" \notin unread'
               PROVE  latest' = Inc(latest) \/ fault'
    OBVIOUS
  <2>1. CASE UNCHANGED unread
    BY <2>1
  <2>2. CASE PollGyro
    BY <2>2 DEF PollGyro, Capture
  <2>3. CASE PollNonfinite
    BY <2>3 DEF PollNonfinite, CaptureNonfinite
  <2>4. ASSUME Registers = ready, PollAccel \/ SensorSample
        PROVE  FALSE
    BY <2>4 DEF PollAccel, PollReads, SensorSample
  <2>5. CASE Begin
    <3>1. UNCHANGED unread
      BY <2>5 DEF Begin, SensorFails, SensorAnswers, WarmUp, WarmTimeout, MakeQueue, MakeTimer, MakeTask,
                  StartTimer, NoteStart, OnlyStartup, readerAllVars, sensorVars
    <3> QED BY <2>1, <3>1
  <2>6. CASE Loop
    <3>1. UNCHANGED unread
      BY <2>6 DEF Loop, Owner, ContextAudit, UpdateQuiet, DeliverAudit, RunnerPhase, sensorVars
    <3> QED BY <2>1, <3>1
  <2>7. CASE PollStatus \/ PollFails \/ Silent \/ UNCHANGED allVars
    <3>1. UNCHANGED unread
      BY <2>7 DEF PollStatus, PollFails, Silent, allVars, readerAllVars, sensorVars
    <3> QED BY <2>1, <3>1
  <2> QED BY <1>1, <2>2, <2>3, <2>4, <2>5, <2>6, <2>7 DEF StartupNext, Poll, Registers
<1> QED BY <1>1, PTL DEF StartupSpec, NothingReadAway

-----------------------------------------------------------------------------
(* Sequence numbers. *)

(* How far the comparison of sequence numbers reaches. *)
H == SeqMod \div 2

LEMMA Reach == H \in Nat /\ SeqMod = 2 * H /\ H > 2 * QueueLen /\ QueueLen \in Nat \ {0} /\ SeqMod \in Nat
BY ImuAssumption DEF H

LEMMA Modulo ==
  ASSUME NEW n \in Nat \ {0}, NEW k \in -n .. 2 * n - 1
  PROVE  k % n = IF k < 0 THEN k + n ELSE IF k < n THEN k ELSE k - n
OBVIOUS

LEMMA AheadIs ==
  ASSUME NEW s \in SeqNums, NEW t \in SeqNums
  PROVE  /\ Ahead(s, t) = IF t <= s THEN s - t ELSE s - t + SeqMod
         /\ Ahead(s, t) \in SeqNums
<1>1. SeqMod \in Nat \ {0} /\ s - t \in -SeqMod .. 2 * SeqMod - 1
  BY Reach DEF SeqNums
<1>2. (s - t) % SeqMod = IF s - t < 0 THEN s - t + SeqMod ELSE IF s - t < SeqMod THEN s - t ELSE s - t - SeqMod
  BY <1>1, Modulo
<1> QED BY <1>1, <1>2 DEF Ahead, SeqNums

LEMMA IncIs ==
  ASSUME NEW s \in SeqNums
  PROVE  /\ Inc(s) = IF s + 1 = SeqMod THEN 0 ELSE s + 1
         /\ Inc(s) \in SeqNums
<1> DEFINE k == s + 1
<1>1. SeqMod \in Nat \ {0} /\ k \in -SeqMod .. 2 * SeqMod - 1 /\ k > 0 /\ k <= SeqMod
  BY Reach DEF SeqNums
<1>2. k % SeqMod = IF k < SeqMod THEN k ELSE k - SeqMod
  <2>1. k % SeqMod = IF k < 0 THEN k + SeqMod ELSE IF k < SeqMod THEN k ELSE k - SeqMod
    <3> HIDE DEF k
    <3> QED BY <1>1, Modulo
  <2> HIDE DEF k
  <2> QED BY <1>1, <2>1
<1>3. Inc(s) = IF k = SeqMod THEN 0 ELSE k
  BY <1>1, <1>2 DEF Inc
<1> QED BY <1>1, <1>3 DEF SeqNums

(* The next number is one further ahead, but for a number that is all the way ahead. *)
LEMMA AheadOfInc ==
  ASSUME NEW s \in SeqNums, NEW t \in SeqNums, Ahead(s, t) # SeqMod - 1
  PROVE  Ahead(Inc(s), t) = Ahead(s, t) + 1
<1>1. Inc(s) \in SeqNums /\ Inc(s) = IF s + 1 = SeqMod THEN 0 ELSE s + 1
  BY IncIs
<1>2. Ahead(Inc(s), t) = IF t <= Inc(s) THEN Inc(s) - t ELSE Inc(s) - t + SeqMod
  BY <1>1, AheadIs
<1>3. Ahead(s, t) = IF t <= s THEN s - t ELSE s - t + SeqMod
  BY AheadIs
<1> QED BY <1>1, <1>2, <1>3, Reach DEF SeqNums

LEMMA AheadOfSelf ==
  ASSUME NEW s \in SeqNums, NEW t \in SeqNums
  PROVE  (Ahead(s, t) = 0) <=> (s = t)
<1>1. Ahead(s, t) = IF t <= s THEN s - t ELSE s - t + SeqMod
  BY AheadIs
<1> QED BY <1>1, Reach DEF SeqNums

(* Three numbers in a row. *)
LEMMA InARow ==
  ASSUME NEW a \in SeqNums, NEW s \in SeqNums, NEW t \in SeqNums
  PROVE  /\ (Ahead(s, t) <= Ahead(a, t)) <=> (Ahead(a, s) <= Ahead(a, t))
         /\ Ahead(a, s) <= Ahead(a, t) => Ahead(a, s) + Ahead(s, t) = Ahead(a, t)
<1>1. Ahead(s, t) = IF t <= s THEN s - t ELSE s - t + SeqMod
  BY AheadIs
<1>2. Ahead(a, t) = IF t <= a THEN a - t ELSE a - t + SeqMod
  BY AheadIs
<1>3. Ahead(a, s) = IF s <= a THEN a - s ELSE a - s + SeqMod
  BY AheadIs
<1> QED BY <1>1, <1>2, <1>3, Reach DEF SeqNums

LEMMA IsDue ==
  ASSUME NEW a \in SeqNums, NEW s \in SeqNums, NEW t \in SeqNums, Ahead(a, s) + 1 = Ahead(a, t)
  PROVE  s = Inc(t) /\ a # t
<1>1. Inc(t) = IF t + 1 = SeqMod THEN 0 ELSE t + 1
  BY IncIs
<1>2. Ahead(a, t) = IF t <= a THEN a - t ELSE a - t + SeqMod
  BY AheadIs
<1>3. Ahead(a, s) = IF s <= a THEN a - s ELSE a - s + SeqMod
  BY AheadIs
<1> QED BY <1>1, <1>2, <1>3, Reach DEF SeqNums

(* Of the samples up to the latest, those of the run are the last ones. *)
LEMMA AcceptsLast ==
  ASSUME TypeOK, NEW s \in SeqNums, Ahead(latest, s) <= QueueLen, Ahead(latest, cutoff) < H
  PROVE  Accepts(s) <=> Ahead(latest, s) < Ahead(latest, cutoff)
<1>0. latest \in SeqNums /\ cutoff \in SeqNums
  BY DEF TypeOK
<1>1. Ahead(s, cutoff) = IF cutoff <= s THEN s - cutoff ELSE s - cutoff + SeqMod
  BY <1>0, AheadIs
<1>2. Ahead(latest, cutoff) = IF cutoff <= latest THEN latest - cutoff ELSE latest - cutoff + SeqMod
  BY <1>0, AheadIs
<1>3. Ahead(latest, s) = IF s <= latest THEN latest - s ELSE latest - s + SeqMod
  BY <1>0, AheadIs
<1>4. Accepts(s) <=> 0 < Ahead(s, cutoff) /\ Ahead(s, cutoff) < H
  BY DEF Accepts, After, H
<1> QED BY <1>0, <1>1, <1>2, <1>3, <1>4, Reach DEF SeqNums

-----------------------------------------------------------------------------
(* The samples of a run. *)

(* Before the timer ticks nothing is queued and no run is on. *)
Unused == "ticking" \notin parts => queue = <<>> /\ ~sequential

(* The samples in the queue are the latest, in their order. *)
Consecutive ==
  ~fault \/ (running /\ ~sequential) =>
    \A i \in 1 .. Len(queue) : Ahead(latest, queue[i]) = Len(queue) - i

(* The samples of a run lie within the reach of the comparison. *)
InReach ==
  sequential =>
    /\ started
    /\ Ahead(lastLive, cutoff) <= Ahead(latest, cutoff)
    /\ Ahead(latest, cutoff) < H

(* update() holds a sample of the run. *)
Live == pc \in {"discard", "deliver"} /\ Accepts(next)

(* The idle samples that are left in the queue. *)
History == Len(queue) + (IF Live THEN 1 ELSE 0) - Ahead(latest, lastLive)

KeptInv ==
  sequential /\ ~fault =>
    /\ History >= 0
    /\ Live \/ swept \/ lastLive # cutoff => History = 0
    /\ History <= QueueLen - taken

(* What the update() under way will deliver, whatever fault is latched meanwhile. *)
NextIsDue(s) == s = Inc(lastLive) /\ latest # lastLive

FirstIsDue ==
  \E h \in 0 .. Len(queue) :
    /\ \A i \in 1 .. h : ~Accepts(queue[i])
    /\ IF h < Len(queue) THEN NextIsDue(queue[h + 1]) ELSE latest = lastLive

HeldInv ==
  /\ pc = "drain" => ~sequential
  /\ sequential /\ pc \in {"receive", "discard", "deliver"} =>
       IF Live THEN NextIsDue(next) ELSE pc # "deliver" /\ FirstIsDue

SamplesInv == Consecutive /\ InReach /\ KeptInv /\ HeldInv

(* The sample that is due is one of the run. *)
LEMMA DueAccepted ==
  ASSUME TypeOK, InReach, sequential, latest # lastLive
  PROVE  /\ Accepts(Inc(lastLive))
         /\ Ahead(Inc(lastLive), cutoff) = Ahead(lastLive, cutoff) + 1
         /\ Ahead(lastLive, cutoff) < Ahead(latest, cutoff)
<1> DEFINE D == Ahead(lastLive, cutoff)
           L == Ahead(latest, cutoff)
<1>1. latest \in SeqNums /\ cutoff \in SeqNums /\ lastLive \in SeqNums
  BY DEF TypeOK
<1>2. D \in SeqNums /\ L \in SeqNums /\ D <= L /\ L < H
  BY <1>1, AheadIs DEF InReach
<1>3. D # L
  <2>1. Ahead(latest, lastLive) # 0
    BY <1>1, AheadOfSelf
  <2>2. Ahead(latest, lastLive) <= L /\ Ahead(latest, lastLive) + D = L
    BY <1>1, <1>2, InARow
  <2>3. Ahead(latest, lastLive) \in SeqNums
    BY <1>1, AheadIs
  <2> HIDE DEF D, L
  <2> QED BY <1>2, <2>1, <2>2, <2>3 DEF SeqNums
<1>4. Ahead(Inc(lastLive), cutoff) = D + 1
  <2>1. D # SeqMod - 1
    <3> HIDE DEF D, L
    <3> QED BY <1>2, Reach DEF SeqNums
  <2> QED BY <1>1, <2>1, AheadOfInc
<1>5. 0 < D + 1 /\ D + 1 < H /\ D < L
  <2> HIDE DEF D, L
  <2> QED BY <1>2, <1>3, Reach DEF SeqNums
<1> QED BY <1>4, <1>5 DEF Accepts, After, H

(* How far the latest sample is ahead of the last delivered. *)
LEMMA DueIs ==
  ASSUME TypeOK, InReach, sequential
  PROVE  /\ Ahead(latest, lastLive) = Ahead(latest, cutoff) - Ahead(lastLive, cutoff)
         /\ Ahead(latest, lastLive) \in Nat /\ Ahead(latest, lastLive) < H
         /\ Ahead(latest, cutoff) \in Nat /\ Ahead(lastLive, cutoff) \in Nat
         /\ lastLive = cutoff <=> Ahead(lastLive, cutoff) = 0
         /\ latest = lastLive <=> Ahead(latest, lastLive) = 0
<1>1. latest \in SeqNums /\ cutoff \in SeqNums /\ lastLive \in SeqNums
  BY DEF TypeOK
<1>2. /\ Ahead(latest, lastLive) \in SeqNums /\ Ahead(latest, cutoff) \in SeqNums
      /\ Ahead(lastLive, cutoff) \in SeqNums
  BY <1>1, AheadIs
<1>3. Ahead(latest, lastLive) + Ahead(lastLive, cutoff) = Ahead(latest, cutoff)
  BY <1>1, InARow DEF InReach
<1>4. lastLive = cutoff <=> Ahead(lastLive, cutoff) = 0
  BY <1>1, AheadOfSelf
<1>5. latest = lastLive <=> Ahead(latest, lastLive) = 0
  BY <1>1, AheadOfSelf
<1> DEFINE due == Ahead(latest, lastLive)
           L == Ahead(latest, cutoff)
           D == Ahead(lastLive, cutoff)
<1>6. L < H
  BY DEF InReach
<1>7. due = L - D /\ due \in Nat /\ due < H /\ L \in Nat /\ D \in Nat
  <2> HIDE DEF due, L, D
  <2> QED BY <1>2, <1>3, <1>6, Reach DEF SeqNums, due, L, D
<1> QED BY <1>4, <1>5, <1>7

(* The queue without a fault: its last samples are those that are due. *)
LEMMA QueueSplits ==
  ASSUME TypedAcquisition, InReach, KeptInv, Consecutive, sequential, ~fault
  PROVE  /\ History \in 0 .. Len(queue)
         /\ \A i \in 1 .. Len(queue) :
              /\ Accepts(queue[i]) <=> i > History
              /\ i > History =>
                   Ahead(queue[i], lastLive) = i - History + (IF Live THEN 1 ELSE 0)
<1> DEFINE n == Len(queue)
           L == Ahead(latest, cutoff)
           D == Ahead(lastLive, cutoff)
           due == Ahead(latest, lastLive)
           e == IF Live THEN 1 ELSE 0
<1>1. TypeOK /\ n \in 0 .. QueueLen /\ queue \in Seq(SeqNums)
  BY DEF TypedAcquisition, TypeOK
<1>2. /\ due = L - D /\ due \in Nat /\ due < H /\ L \in Nat /\ D \in Nat /\ L < H
      /\ lastLive = cutoff <=> D = 0
      /\ latest = lastLive <=> due = 0
  BY <1>1, DueIs DEF InReach
<1>3. /\ History = n + e - due /\ History >= 0 /\ e \in {0, 1}
      /\ e = 1 \/ D # 0 => History = 0
  BY <1>2 DEF History, KeptInv
<1>4. e = 1 => due > 0
  <2> SUFFICES ASSUME e = 1 PROVE due > 0
    OBVIOUS
  <2>1. History = 0 /\ n + 1 - due = 0
    BY <1>3
  <2> HIDE DEF n, e, due
  <2> QED BY <1>1, <1>2, <2>1
<1>5. History \in 0 .. n
  <2>1. CASE e = 1
    <3> HIDE DEF n, e, due, L, D
    <3> QED BY <1>1, <1>3, <2>1
  <2>2. CASE e = 0
    <3> HIDE DEF n, e, due, L, D
    <3> QED BY <1>1, <1>2, <1>3, <2>2
  <2> QED BY <1>3, <2>1, <2>2
<1>6. ASSUME NEW i \in 1 .. n
      PROVE  /\ Accepts(queue[i]) <=> i > History
             /\ i > History => Ahead(queue[i], lastLive) = i - History + e
  <2>1. queue[i] \in SeqNums /\ Ahead(latest, queue[i]) = n - i
    BY <1>1 DEF Consecutive
  <2>2. n - i <= QueueLen /\ n - i \in Nat
    <3> HIDE DEF n
    <3> QED BY <1>1, Reach
  <2>3. Accepts(queue[i]) <=> n - i < L
    BY <1>1, <1>2, <2>1, <2>2, AcceptsLast
  <2>4. n - i < L <=> i > History
    <3> HIDE DEF n, e, due, L, D
    <3> QED BY <1>1, <1>2, <1>3, <1>4
  <2>5. ASSUME i > History
        PROVE  Ahead(queue[i], lastLive) = i - History + e
    <3>1. n - i <= due
      <4> HIDE DEF n, e, due, L, D
      <4> QED BY <1>1, <1>2, <1>3, <2>5
    <3>2. Ahead(latest, queue[i]) + Ahead(queue[i], lastLive) = due
      BY <1>1, <2>1, <3>1, InARow DEF TypeOK
    <3>3. Ahead(queue[i], lastLive) \in Int
      <4>1. lastLive \in SeqNums
        BY <1>1 DEF TypeOK
      <4>2. Ahead(queue[i], lastLive) \in SeqNums
        BY <2>1, <4>1, AheadIs
      <4> QED BY <4>2, Reach DEF SeqNums
    <3> HIDE DEF n, e, due, L, D
    <3> QED BY <1>1, <1>2, <1>3, <2>1, <3>2, <3>3
  <2> QED BY <2>3, <2>4, <2>5
<1> QED BY <1>5, <1>6

(* What a capture changes. *)
LEMMA Captured ==
  ASSUME TypedAcquisition, Capture
  PROVE  /\ Inc(latest) \in SeqNums /\ latest' = Inc(latest)
         /\ UNCHANGED <<sequential, cutoff, pc, next, taken, running, lastLive, swept>>
         /\ Live' = Live
         /\ Overflows => queue' = queue /\ fault' = TRUE
         /\ ~Overflows /\ ~Full => /\ fault' = fault /\ Len(queue') = Len(queue) + 1
                                   /\ queue'[Len(queue) + 1] = Inc(latest)
                                   /\ \A i \in 1 .. Len(queue) : queue'[i] = queue[i]
         /\ ~Overflows /\ Full => /\ fault' = fault /\ Len(queue') = Len(queue)
                                  /\ queue'[Len(queue)] = Inc(latest)
                                  /\ \A i \in 1 .. Len(queue) - 1 : queue'[i] = queue[i + 1]
<1> DEFINE new == Inc(latest)
<1>1. new \in SeqNums /\ queue \in Seq(SeqNums) /\ fault \in BOOLEAN
  BY IncIs DEF TypedAcquisition, TypeOK
<1>2. /\ latest' = new
      /\ queue' = IF Overflows THEN queue ELSE Append(IF Full THEN Tail(queue) ELSE queue, new)
      /\ fault' = (fault \/ Overflows)
      /\ UNCHANGED <<sequential, cutoff, pc, next, taken, running, lastLive, swept>>
  BY DEF Capture, Publish, contextVars, consumerVars, historyVars
<1>3. Live' = Live
  BY <1>2 DEF Live, Accepts
<1> HIDE DEF new
<1>4. CASE Overflows
  BY <1>1, <1>2, <1>3, <1>4 DEF new
<1>5. CASE ~Overflows /\ ~Full
  <2>1. queue' = Append(queue, new) /\ fault' = fault
    BY <1>1, <1>2, <1>5
  <2>2. /\ Len(queue') = Len(queue) + 1 /\ queue'[Len(queue) + 1] = new
        /\ \A i \in 1 .. Len(queue) : queue'[i] = queue[i]
    BY <1>1, <2>1
  <2> QED BY <1>1, <1>2, <1>3, <1>5, <2>1, <2>2 DEF new
<1>6. CASE ~Overflows /\ Full
  <2>1. queue' = Append(Tail(queue), new) /\ fault' = fault
    BY <1>1, <1>2, <1>6
  <2>2. Len(queue) \in Nat \ {0}
    BY <1>1, <1>6, Reach DEF Full
  <2>3. /\ Tail(queue) \in Seq(SeqNums) /\ Len(Tail(queue)) = Len(queue) - 1
        /\ \A i \in 1 .. Len(queue) - 1 : Tail(queue)[i] = queue[i + 1]
    BY <1>1, <2>2
  <2>4. /\ Len(queue') = Len(queue) /\ queue'[Len(queue)] = new
        /\ \A i \in 1 .. Len(queue) - 1 : queue'[i] = queue[i + 1]
    BY <1>1, <2>1, <2>2, <2>3
  <2> QED BY <1>1, <1>2, <1>3, <1>6, <2>1, <2>4 DEF new
<1> QED BY <1>4, <1>5, <1>6

LEMMA CaptureConsecutive ==
  ASSUME TypedAcquisition, Consecutive, Capture
  PROVE  Consecutive'
<1> DEFINE n == Len(queue)
           new == Inc(latest)
<1>1. /\ queue \in Seq(SeqNums) /\ n \in 0 .. QueueLen /\ latest \in SeqNums /\ new \in SeqNums
  BY IncIs DEF TypedAcquisition, TypeOK
<1>2. SUFFICES ASSUME ~fault' \/ (running' /\ ~sequential'), NEW i \in 1 .. Len(queue')
               PROVE  Ahead(latest', queue'[i]) = Len(queue') - i
  BY DEF Consecutive
<1>3. ~Overflows
  BY <1>2, Captured DEF Overflows
<1>4. \A j \in 1 .. n : Ahead(latest, queue[j]) = n - j
  BY <1>2, <1>3, Captured DEF Consecutive, Overflows, TypedAcquisition, TypeOK
<1>5. ASSUME NEW j \in 1 .. n
      PROVE  Ahead(new, queue[j]) = n - j + 1
  <2>1. queue[j] \in SeqNums /\ Ahead(latest, queue[j]) = n - j
    BY <1>1, <1>4
  <2>2. n - j # SeqMod - 1
    <3> HIDE DEF n
    <3> QED BY <1>1, Reach
  <2> QED BY <1>1, <2>1, <2>2, AheadOfInc
<1>6. Ahead(new, new) = 0 /\ latest' = new
  BY <1>1, AheadOfSelf, Captured
<1>7. CASE ~Full
  <2>1. /\ Len(queue') = n + 1 /\ queue'[n + 1] = new
        /\ \A j \in 1 .. n : queue'[j] = queue[j]
    BY <1>3, <1>7, Captured
  <2> HIDE DEF n, new
  <2> QED BY <1>1, <1>2, <1>5, <1>6, <2>1
<1>8. CASE Full
  <2>1. /\ Len(queue') = n /\ queue'[n] = new
        /\ \A j \in 1 .. n - 1 : queue'[j] = queue[j + 1]
    BY <1>3, <1>8, Captured
  <2>2. ASSUME i # n
        PROVE  i + 1 \in 1 .. n /\ queue'[i] = queue[i + 1] /\ n - (i + 1) + 1 = n - i
    <3> HIDE DEF n
    <3> QED BY <1>1, <1>2, <2>1, <2>2
  <2> HIDE DEF n, new
  <2> QED BY <1>1, <1>2, <1>5, <1>6, <2>1, <2>2
<1> QED BY <1>7, <1>8

(* In a run a capture is one sample more that is due. *)
LEMMA CaptureDue ==
  ASSUME TypedAcquisition, InReach, Capture, UNCHANGED started, sequential
  PROVE  /\ Ahead(latest', cutoff) = Ahead(latest, cutoff) + 1
         /\ Ahead(latest', lastLive) = Ahead(latest, lastLive) + 1
         /\ latest' # lastLive
         /\ InReach'
<1> DEFINE L == Ahead(latest, cutoff)
           due == Ahead(latest, lastLive)
<1>1. /\ latest \in SeqNums /\ cutoff \in SeqNums /\ lastLive \in SeqNums /\ TypeOK
      /\ latest' = Inc(latest) /\ Inc(latest) \in SeqNums
  BY Captured DEF TypedAcquisition, TypeOK
<1>2. L \in Nat /\ due \in Nat /\ L + 1 < H /\ due < H
  <2>1. L \in Nat /\ due \in Nat /\ due < H
    BY <1>1, DueIs
  <2>2. L < H - 1
    BY DEF Capture, RunFits, H
  <2> HIDE DEF L, due
  <2> QED BY <2>1, <2>2, Reach
<1>3. L # SeqMod - 1 /\ due # SeqMod - 1
  <2> HIDE DEF L, due
  <2> QED BY <1>2, Reach
<1>4. Ahead(latest', cutoff) = L + 1 /\ Ahead(latest', lastLive) = due + 1
  BY <1>1, <1>3, AheadOfInc
<1>5. latest' # lastLive
  <2>1. due + 1 # 0
    BY <1>2
  <2> QED BY <1>1, <1>4, <2>1, AheadOfSelf
<1>6. InReach'
  <2>1. /\ started' = started /\ sequential' = sequential /\ cutoff' = cutoff /\ lastLive' = lastLive
    BY Captured
  <2>2. Ahead(lastLive, cutoff) <= L + 1 /\ L + 1 < H
    <3>1. Ahead(lastLive, cutoff) <= L /\ Ahead(lastLive, cutoff) \in Nat
      BY <1>1, DueIs DEF InReach
    <3> HIDE DEF L
    <3> QED BY <1>2, <3>1
  <2> QED BY <1>4, <2>1, <2>2 DEF InReach
<1> QED BY <1>4, <1>5, <1>6

LEMMA CaptureKept ==
  ASSUME TypedAcquisition, SamplesInv, Capture, UNCHANGED started
  PROVE  KeptInv'
<1>1. SUFFICES ASSUME sequential', ~fault' PROVE KeptInv'
  BY DEF KeptInv
<1>2. sequential /\ ~fault /\ ~Overflows
  BY <1>1, Captured DEF TypedAcquisition, TypeOK
<1> DEFINE n == Len(queue)
           due == Ahead(latest, lastLive)
           e == IF Live THEN 1 ELSE 0
<1>3. /\ n \in Nat /\ due \in Nat /\ e \in {0, 1} /\ taken \in Nat
      /\ History = n + e - due /\ History >= 0 /\ History <= QueueLen - taken
      /\ Live \/ swept \/ lastLive # cutoff => History = 0
  BY <1>2, DueIs DEF SamplesInv, KeptInv, History, TypedAcquisition, TypeOK
<1>4. /\ UNCHANGED <<sequential, cutoff, taken, lastLive, swept>> /\ Live' = Live
      /\ History' = Len(queue') + e - (due + 1)
  BY <1>2, Captured, CaptureDue DEF History, SamplesInv
<1>5. CASE ~Full
  <2>1. Len(queue') = n + 1
    BY <1>2, <1>5, Captured
  <2>2. History' = History
    <3> HIDE DEF n, e, due
    <3> QED BY <1>3, <1>4, <2>1
  <2> QED BY <1>3, <1>4, <2>2 DEF KeptInv
<1>6. CASE Full
  <2>1. Len(queue') = n /\ n >= 1 /\ ~Accepts(queue[1])
    BY <1>2, <1>6, Captured, Reach DEF Full, Overflows
  <2>2. History >= 1
    <3>1. (Accepts(queue[1]) <=> 1 > History) /\ History \in Int
      BY <1>2, <1>3, <2>1, QueueSplits DEF SamplesInv
    <3> QED BY <2>1, <3>1
  <2>3. History' = History - 1 /\ History' \in Nat
    <3>1. History \in Int
      <4> HIDE DEF n, e, due
      <4> QED BY <1>3
    <3> HIDE DEF n, e, due
    <3> QED BY <1>3, <1>4, <2>1, <2>2, <3>1
  <2>4. ~(Live \/ swept \/ lastLive # cutoff)
    BY <1>3, <2>2
  <2>5. History' <= QueueLen - taken
    BY <1>3, <2>3, Reach
  <2> QED BY <1>4, <2>3, <2>4, <2>5 DEF KeptInv
<1> QED BY <1>5, <1>6

LEMMA CaptureHeld ==
  ASSUME TypedAcquisition, SamplesInv, Capture, UNCHANGED started
  PROVE  HeldInv'
<1>1. UNCHANGED <<pc, sequential, cutoff, next, lastLive>> /\ Live' = Live /\ latest' = Inc(latest)
  BY Captured
<1>2. SUFFICES ASSUME sequential, pc \in {"receive", "discard", "deliver"}
               PROVE  (IF Live THEN NextIsDue(next) ELSE pc # "deliver" /\ FirstIsDue)'
  BY <1>1 DEF SamplesInv, HeldInv
<1>3. latest' # lastLive
  BY <1>2, CaptureDue DEF SamplesInv
<1>4. CASE Live
  BY <1>1, <1>2, <1>3, <1>4 DEF SamplesInv, HeldInv, NextIsDue, Inc
<1>5. CASE ~Live
  <2> DEFINE n == Len(queue)
             Is(q, l, h) == /\ \A i \in 1 .. h : ~Accepts(q[i])
                            /\ IF h < Len(q) THEN q[h + 1] = Inc(lastLive) /\ l # lastLive ELSE l = lastLive
  <2>1. PICK h \in 0 .. n : Is(queue, latest, h)
    BY <1>2, <1>5 DEF SamplesInv, HeldInv, FirstIsDue, NextIsDue
  <2>2. queue \in Seq(SeqNums) /\ n \in Nat
    BY DEF TypedAcquisition, TypeOK
  <2>3. \E m \in 0 .. Len(queue') : Is(queue', latest', m)
    <3>1. CASE Overflows
      <4>1. queue' = queue /\ n \in Nat \ {0} /\ Accepts(queue[1])
        BY <3>1, <2>2, Captured, Reach DEF Overflows, Full
      <4>2. h < n
        BY <2>1, <4>1
      <4> QED BY <1>3, <2>1, <4>1, <4>2
    <3>2. CASE ~Overflows /\ ~Full
      <4>1. /\ Len(queue') = n + 1 /\ queue'[n + 1] = Inc(latest)
            /\ \A i \in 1 .. n : queue'[i] = queue[i]
        BY <3>2, Captured
      <4>2. Is(queue', latest', h)
        <5>1. \A i \in 1 .. h : ~Accepts(queue'[i])
          BY <2>1, <2>2, <4>1
        <5>2. h < Len(queue') /\ queue'[h + 1] = Inc(lastLive)
          <6>1. CASE h < n
            BY <2>1, <2>2, <4>1, <6>1
          <6>2. CASE h = n
            BY <2>1, <2>2, <4>1, <6>2
          <6> QED BY <2>1, <2>2, <6>1, <6>2
        <5> QED BY <1>3, <5>1, <5>2
      <4> QED BY <2>1, <2>2, <4>1, <4>2
    <3>3. CASE ~Overflows /\ Full
      <4>1. /\ Len(queue') = n /\ queue'[n] = Inc(latest) /\ n \in Nat \ {0} /\ ~Accepts(queue[1])
            /\ \A i \in 1 .. n - 1 : queue'[i] = queue[i + 1]
        BY <1>2, <2>2, <3>3, Captured, Reach DEF Overflows, Full
      <4>2. h # 0
        BY <1>2, <2>1, <2>2, <4>1, DueAccepted DEF SamplesInv, TypedAcquisition
      <4>3. h - 1 \in 0 .. n /\ h - 1 < n /\ (h - 1) + 1 = h
        BY <2>1, <2>2, <4>2
      <4>4. \A i \in 1 .. h - 1 : ~Accepts(queue'[i])
        BY <2>1, <2>2, <4>1
      <4>5. queue'[h] = Inc(lastLive)
        <5>1. CASE h < n
          BY <2>1, <2>2, <4>1, <4>2, <5>1
        <5>2. CASE h = n
          BY <2>1, <4>1, <5>2
        <5> QED BY <2>1, <2>2, <5>1, <5>2
      <4>6. Is(queue', latest', h - 1)
        BY <1>3, <4>1, <4>3, <4>4, <4>5
      <4> QED BY <4>1, <4>3, <4>6
    <3> QED BY <3>1, <3>2, <3>3
  <2> QED BY <1>1, <1>2, <1>5, <2>3 DEF FirstIsDue, NextIsDue, HeldInv, SamplesInv, Accepts, Live, Inc
<1> QED BY <1>4, <1>5

LEMMA CaptureSamples ==
  ASSUME TypedAcquisition, SamplesInv, Capture, UNCHANGED started
  PROVE  SamplesInv'
<1>1. InReach'
  <2>1. CASE sequential
    BY <2>1, CaptureDue DEF SamplesInv
  <2>2. CASE ~sequential
    BY <2>2, Captured DEF InReach
  <2> QED BY <2>1, <2>2
<1> QED BY <1>1, CaptureConsecutive, CaptureKept, CaptureHeld DEF SamplesInv

(* What the invariant is about stays as it is, or the fault is latched. *)
LEMMA SameSamples ==
  ASSUME SamplesInv, fault' \in {fault, TRUE}, started => started', running' => running,
         UNCHANGED <<latest, queue, sequential, cutoff, pc, next, taken, lastLive, swept>>
  PROVE  SamplesInv'
<1>1. Live' = Live /\ History' = History
  BY DEF Live, History, Accepts
<1>2. InReach' /\ HeldInv'
  BY <1>1 DEF SamplesInv, InReach, HeldInv, FirstIsDue, NextIsDue, Accepts
<1>3. Consecutive' /\ KeptInv'
  BY <1>1 DEF SamplesInv, Consecutive, KeptInv
<1> QED BY <1>2, <1>3 DEF SamplesInv

(* A run begins or goes on with an update() that has taken nothing. *)
LEMMA ContextSamples ==
  ASSUME TypedAcquisition, SamplesInv, running => started, Context, UNCHANGED started
  PROVE  SamplesInv'
<1>1. /\ UNCHANGED <<latest, queue, fault, next, taken, running>> /\ pc = "context" /\ pc' = "begin"
      /\ sequential' = running /\ taken = 0 /\ ~Live /\ ~Live'
  BY DEF Context, At, GoTo, readerVars, TypedAcquisition, Live
<1>2. HeldInv'
  BY <1>1 DEF HeldInv
<1>3. Consecutive'
  BY <1>1 DEF SamplesInv, Consecutive
<1>4. CASE running /\ ~sequential
  <2>1. cutoff' = latest /\ lastLive' = latest /\ swept' = FALSE
    BY <1>4 DEF Context
  <2>2. Ahead(latest', cutoff') = 0 /\ Ahead(latest', lastLive') = 0 /\ Ahead(lastLive', cutoff') = 0
    BY <1>1, <2>1, AheadOfSelf DEF TypedAcquisition, TypeOK
  <2>3. InReach'
    BY <1>1, <1>4, <2>2, Reach DEF InReach
  <2>4. History' = Len(queue) /\ Len(queue) \in 0 .. QueueLen
    BY <1>1, <2>2 DEF History, TypedAcquisition, TypeOK
  <2>5. KeptInv'
    BY <1>1, <2>1, <2>4, Reach DEF KeptInv
  <2> QED BY <1>2, <1>3, <2>3, <2>5 DEF SamplesInv
<1>5. CASE running /\ sequential
  <2>1. UNCHANGED <<cutoff, lastLive, swept, sequential>>
    BY <1>1, <1>5 DEF Context, TypedAcquisition, TypeOK
  <2>2. History' = History
    BY <1>1, <2>1 DEF History
  <2> QED BY <1>1, <1>2, <1>3, <2>1, <2>2 DEF SamplesInv, InReach, KeptInv
<1>6. CASE ~running
  BY <1>1, <1>2, <1>3, <1>6 DEF SamplesInv, InReach, KeptInv
<1> QED BY <1>4, <1>5, <1>6

(* The first sample that update() will find is the one that is due. *)
LEMMA BeginHeld ==
  ASSUME TypedAcquisition, SamplesInv, sequential, ~fault, pc = "begin"
  PROVE  FirstIsDue
<1> DEFINE n == Len(queue)
<1>1. /\ ~Live /\ TypeOK /\ queue \in Seq(SeqNums) /\ n \in Nat
      /\ latest \in SeqNums /\ lastLive \in SeqNums
  BY DEF Live, TypedAcquisition, TypeOK
<1>2. /\ History \in 0 .. n
      /\ \A i \in 1 .. n : Accepts(queue[i]) <=> i > History
  BY QueueSplits DEF SamplesInv
<1>3. /\ Ahead(latest, lastLive) = n - History
      /\ latest = lastLive <=> n = History
  <2>1. History = n - Ahead(latest, lastLive) /\ Ahead(latest, lastLive) \in Nat
        /\ (latest = lastLive <=> Ahead(latest, lastLive) = 0)
    BY <1>1, DueIs DEF History, SamplesInv
  <2> HIDE DEF n
  <2> QED BY <1>1, <2>1
<1>4. \A i \in 1 .. History : ~Accepts(queue[i])
  BY <1>1, <1>2
<1>5. ASSUME History < n
      PROVE  NextIsDue(queue[History + 1])
  <2> DEFINE i == History + 1
  <2>1. i \in 1 .. n /\ i > History /\ n - i + 1 = n - History
    BY <1>1, <1>2, <1>5
  <2>2. queue[i] \in SeqNums /\ Ahead(latest, queue[i]) = n - i
    BY <1>1, <2>1 DEF SamplesInv, Consecutive
  <2>3. Ahead(latest, queue[i]) + 1 = Ahead(latest, lastLive)
    BY <1>3, <2>1, <2>2
  <2>4. queue[i] = Inc(lastLive) /\ latest # lastLive
    BY <1>1, <2>2, <2>3, IsDue
  <2> QED BY <2>4 DEF NextIsDue
<1> QED BY <1>2, <1>3, <1>4, <1>5 DEF FirstIsDue

(* update() returns with the queue as it found it, or a fault. *)
LEMMA DoneSamples ==
  ASSUME SamplesInv, Done, ~Live, sequential /\ ~fault' => History = 0,
         fault' \in {fault, TRUE}, UNCHANGED <<latest, queue, started, running, sequential, cutoff, lastLive>>
  PROVE  SamplesInv'
<1>1. pc' = "health" /\ swept' = TRUE /\ taken' = 0 /\ ~Live'
  BY DEF Done, GoTo, Live
<1>2. Consecutive' /\ InReach' /\ HeldInv'
  BY <1>1 DEF SamplesInv, Consecutive, InReach, HeldInv
<1>3. History' = History
  BY <1>1 DEF History
<1>4. KeptInv'
  BY <1>1, <1>3, Reach DEF SamplesInv, KeptInv
<1> QED BY <1>2, <1>4 DEF SamplesInv

LEMMA BeginSamples ==
  ASSUME TypedAcquisition, SamplesInv, UpdateBegin, UNCHANGED started
  PROVE  SamplesInv'
<1>1. /\ pc = "begin" /\ ~Live /\ taken = 0
      /\ UNCHANGED <<latest, queue, fault, running, sequential, cutoff, lastLive>>
  BY DEF UpdateBegin, At, Live, readerVars, contextVars, TypedAcquisition
<1>2. CASE fault \/ ~started
  <2>1. Done /\ (sequential => fault')
    BY <1>1, <1>2 DEF UpdateBegin, SamplesInv, InReach
  <2> QED BY <1>1, <2>1, DoneSamples
<1>3. CASE ~fault /\ started
  <2>1. pc' = "receive" /\ UNCHANGED <<next, taken, swept>> /\ ~Live'
    BY <1>1, <1>3 DEF UpdateBegin, GoTo, Live
  <2>2. History' = History
    BY <1>1, <2>1 DEF History
  <2>3. sequential => FirstIsDue
    BY <1>1, <1>3, BeginHeld
  <2>4. FirstIsDue' = FirstIsDue
    BY <1>1, <2>1 DEF FirstIsDue, NextIsDue, Accepts, Inc
  <2>5. Consecutive' /\ InReach'
    BY <1>1 DEF SamplesInv, Consecutive, InReach
  <2>6. KeptInv'
    BY <1>1, <2>1, <2>2 DEF SamplesInv, KeptInv
  <2>7. HeldInv'
    BY <1>1, <2>1, <2>3, <2>4 DEF HeldInv
  <2> QED BY <2>5, <2>6, <2>7 DEF SamplesInv
<1> QED BY <1>2, <1>3

(* update() takes the oldest sample of the queue. *)
LEMMA Taken ==
  ASSUME TypedAcquisition, Take, queue # <<>>
  PROVE  /\ next' = queue[1] /\ next' \in SeqNums /\ taken' = taken + 1
         /\ Len(queue) \in Nat \ {0} /\ Len(queue') = Len(queue) - 1
         /\ \A i \in 1 .. Len(queue) - 1 : queue'[i] = queue[i + 1]
<1>1. queue \in Seq(SeqNums) /\ Len(queue) \in Nat \ {0}
  BY DEF TypedAcquisition, TypeOK
<1> QED BY <1>1 DEF Take

LEMMA TakeSamples ==
  ASSUME TypedAcquisition, SamplesInv, Take, queue # <<>>, taken < QueueLen,
         pc \in {"receive", "discard"}, pc' = "discard", sequential, ~Live,
         UNCHANGED <<latest, fault, started, running, sequential, cutoff, lastLive, swept>>
  PROVE  SamplesInv'
<1> DEFINE n == Len(queue)
           due == Ahead(latest, lastLive)
<1>1. /\ next' = queue[1] /\ next' \in SeqNums /\ taken' = taken + 1 /\ taken \in Nat
      /\ n \in Nat \ {0} /\ Len(queue') = n - 1
      /\ \A i \in 1 .. n - 1 : queue'[i] = queue[i + 1]
  BY Taken DEF TypedAcquisition, TypeOK
<1>2. Live' <=> Accepts(queue[1])
  BY <1>1 DEF Live, Accepts
<1>3. Consecutive'
  <2> SUFFICES ASSUME ~fault, NEW i \in 1 .. n - 1 PROVE Ahead(latest, queue'[i]) = n - 1 - i
    BY <1>1 DEF Consecutive
  <2>1. i + 1 \in 1 .. n /\ n - (i + 1) = n - 1 - i
    BY <1>1
  <2> QED BY <1>1, <2>1 DEF SamplesInv, Consecutive
<1>4. InReach'
  BY DEF SamplesInv, InReach
<1>5. KeptInv'
  <2> SUFFICES ASSUME ~fault PROVE KeptInv'
    BY DEF KeptInv
  <2>1. /\ History \in 0 .. n
        /\ Accepts(queue[1]) <=> 1 > History
    BY <1>1, QueueSplits DEF SamplesInv
  <2>2. /\ History = n - due /\ due \in Nat
        /\ swept \/ lastLive # cutoff => History = 0
        /\ History <= QueueLen - taken
    BY <1>1, DueIs DEF SamplesInv, KeptInv, History, TypedAcquisition
  <2>3. History' = n - 1 + (IF Accepts(queue[1]) THEN 1 ELSE 0) - due
    BY <1>1, <1>2 DEF History
  <2>4. CASE Accepts(queue[1])
    <3>1. History = 0 /\ History' = 0
      <4> HIDE DEF n, due
      <4> QED BY <1>1, <2>1, <2>2, <2>3, <2>4
    <3>2. 0 <= QueueLen - (taken + 1)
      BY <1>1, Reach
    <3> QED BY <1>1, <3>1, <3>2 DEF KeptInv
  <2>5. CASE ~Accepts(queue[1])
    <3>1. History' = History - 1 /\ History' \in Nat /\ ~swept /\ lastLive = cutoff
      <4> HIDE DEF n, due
      <4> QED BY <1>1, <2>1, <2>2, <2>3, <2>5
    <3>2. History' <= QueueLen - (taken + 1)
      BY <1>1, <2>2, <3>1, Reach
    <3> QED BY <1>1, <1>2, <2>5, <3>1, <3>2 DEF KeptInv
  <2> QED BY <2>4, <2>5
<1>6. HeldInv'
  <2> DEFINE Is(q, h) == /\ \A i \in 1 .. h : ~Accepts(q[i])
                         /\ IF h < Len(q) THEN NextIsDue(q[h + 1]) ELSE latest = lastLive
  <2>1. PICK h \in 0 .. n : Is(queue, h)
    BY DEF SamplesInv, HeldInv, FirstIsDue
  <2>2. CASE Accepts(queue[1])
    <3>1. h = 0 /\ h < n
      BY <1>1, <2>1, <2>2
    <3>2. NextIsDue(queue[1])
      BY <2>1, <3>1
    <3>3. NextIsDue(next)'
      BY <1>1, <3>2 DEF NextIsDue, Inc
    <3> QED BY <1>2, <2>2, <3>3 DEF HeldInv
  <2>3. CASE ~Accepts(queue[1])
    <3>1. h # 0
      <4>1. ASSUME h = 0 PROVE FALSE
        <5>1. NextIsDue(queue[1])
          BY <1>1, <2>1, <4>1
        <5> QED BY <2>3, <5>1, DueAccepted DEF NextIsDue, SamplesInv, TypedAcquisition
      <4> QED BY <4>1
    <3>2. h - 1 \in 0 .. n - 1 /\ (h - 1) + 1 = h /\ (h - 1 < n - 1 <=> h < n)
      BY <1>1, <2>1, <3>1
    <3>3. \A i \in 1 .. h - 1 : ~Accepts(queue'[i])
      BY <1>1, <2>1, <3>2
    <3>4. h < n => queue'[h] = queue[h + 1]
      BY <1>1, <2>1, <3>2
    <3>5. Is(queue', h - 1)
      BY <1>1, <2>1, <3>2, <3>3, <3>4
    <3>6. FirstIsDue'
      BY <1>1, <3>2, <3>5 DEF FirstIsDue, NextIsDue, Accepts, Inc
    <3> QED BY <1>2, <2>3, <3>6 DEF HeldInv
  <2> QED BY <2>2, <2>3
<1> QED BY <1>3, <1>4, <1>5, <1>6 DEF SamplesInv

LEMMA ReceiveSamples ==
  ASSUME TypedAcquisition, SamplesInv, UpdateReceive \/ UpdateDiscard, sequential, UNCHANGED started
  PROVE  SamplesInv'
<1> DEFINE Same == UNCHANGED <<latest, fault, started, running, sequential, cutoff, lastLive>>
<1>1. Same
  BY DEF UpdateReceive, UpdateDiscard, contextVars, historyVars
<1>2. CASE UpdateReceive
  BY <1>1, <1>2, TakeSamples, Reach DEF UpdateReceive, At, GoTo, historyVars, Live, TypedAcquisition
<1>3. CASE UpdateDiscard /\ Accepts(next)
  <2>1. /\ pc = "discard" /\ pc' = "deliver" /\ UNCHANGED <<queue, next, taken, swept>>
    BY <1>3 DEF UpdateDiscard, At, GoTo
  <2>2. Live /\ Live'
    BY <1>1, <1>3, <2>1 DEF Live, Accepts
  <2>3. History' = History
    BY <1>1, <2>1, <2>2 DEF History
  <2>4. Consecutive' /\ InReach' /\ KeptInv'
    BY <1>1, <2>1, <2>2, <2>3 DEF SamplesInv, Consecutive, InReach, KeptInv
  <2>5. NextIsDue(next)' /\ sequential
    BY <1>1, <2>1, <2>2 DEF SamplesInv, HeldInv, NextIsDue, Inc
  <2>6. HeldInv'
    BY <1>1, <2>1, <2>2, <2>5 DEF HeldInv
  <2> QED BY <2>4, <2>6 DEF SamplesInv
<1>4. CASE UpdateDiscard /\ ~Accepts(next) /\ (taken >= QueueLen \/ queue = <<>>)
  <2>1. Done /\ queue' = queue /\ ~Live
    BY <1>4 DEF UpdateDiscard, Live
  <2>2. sequential /\ ~fault => History = 0
    <3> SUFFICES ASSUME ~fault PROVE History = 0
      OBVIOUS
    <3>1. History \in 0 .. Len(queue) /\ History <= QueueLen - taken
      BY QueueSplits DEF SamplesInv, KeptInv
    <3>2. queue = <<>> => Len(queue) = 0
      OBVIOUS
    <3> QED BY <1>4, <3>1, <3>2, Reach DEF TypedAcquisition, TypeOK
  <2> QED BY <1>1, <2>1, <2>2, DoneSamples
<1>5. CASE UpdateDiscard /\ ~Accepts(next) /\ taken < QueueLen /\ queue # <<>>
  <2>1. Take /\ UNCHANGED <<pc, swept>> /\ pc = "discard" /\ ~Live
    BY <1>5, Reach DEF UpdateDiscard, At, Live, TypedAcquisition, TypeOK
  <2> QED BY <1>1, <1>5, <2>1, TakeSamples
<1>6. taken >= QueueLen \/ taken < QueueLen
  BY Reach DEF TypedAcquisition, TypeOK
<1> QED BY <1>2, <1>3, <1>4, <1>5, <1>6

(* What update() does while idle keeps the queue in order. *)
LEMMA IdleSamples ==
  ASSUME TypedAcquisition, SamplesInv, UpdateReceive \/ UpdateDiscard \/ UpdateDrain, ~sequential
  PROVE  SamplesInv'
<1>1. UNCHANGED <<latest, fault, running, sequential, cutoff, lastLive>>
  BY DEF UpdateReceive, UpdateDiscard, UpdateDrain, contextVars, historyVars
<1>2. Consecutive'
  <2>1. CASE queue' = queue
    BY <1>1, <2>1 DEF SamplesInv, Consecutive
  <2>2. CASE Take /\ queue # <<>>
    <3> SUFFICES ASSUME ~fault \/ running, NEW i \in 1 .. Len(queue')
                 PROVE  Ahead(latest, queue'[i]) = Len(queue') - i
      BY <1>1 DEF Consecutive
    <3>1. i + 1 \in 1 .. Len(queue) /\ queue'[i] = queue[i + 1] /\ Len(queue) - (i + 1) = Len(queue') - i
      BY <2>2, Taken
    <3> QED BY <3>1 DEF SamplesInv, Consecutive
  <2> QED BY <2>1, <2>2 DEF UpdateReceive, UpdateDiscard, UpdateDrain
<1> QED BY <1>1, <1>2 DEF SamplesInv, InReach, KeptInv, HeldInv

LEMMA DeliverSamples ==
  ASSUME TypedAcquisition, SamplesInv, UpdateDeliver, UNCHANGED started
  PROVE  SamplesInv'
<1>1. /\ pc = "deliver" /\ Done /\ lastLive' = (IF sequential THEN next ELSE lastLive)
      /\ pc' = "health" /\ taken' = 0 /\ ~Live'
      /\ UNCHANGED <<latest, queue, fault, running, sequential, cutoff>>
  BY DEF UpdateDeliver, At, Done, GoTo, readerVars, contextVars, Live
<1>2. Consecutive' /\ HeldInv'
  BY <1>1 DEF SamplesInv, Consecutive, HeldInv
<1>3. CASE ~sequential
  BY <1>1, <1>2, <1>3 DEF SamplesInv, InReach, KeptInv
<1>4. CASE sequential
  <2>1. Live /\ lastLive' = Inc(lastLive) /\ latest # lastLive
    BY <1>1, <1>4 DEF SamplesInv, HeldInv, NextIsDue
  <2>2. /\ Ahead(lastLive', cutoff) = Ahead(lastLive, cutoff) + 1
        /\ Ahead(lastLive, cutoff) < Ahead(latest, cutoff)
        /\ Ahead(lastLive, cutoff) \in Nat /\ Ahead(latest, cutoff) \in Nat
    BY <1>4, <2>1, DueAccepted, DueIs DEF SamplesInv, TypedAcquisition
  <2>3. InReach'
    BY <1>1, <1>4, <2>2 DEF SamplesInv, InReach
  <2>4. TypeOK'
    <3>1. next \in SeqNums
      BY DEF TypedAcquisition, TypeOK
    <3> QED BY <1>1, <3>1, ConsumerTyped DEF Update, TypedAcquisition
  <2>5. Ahead(latest, lastLive') = Ahead(latest, lastLive) - 1 /\ Ahead(latest, lastLive) \in Nat
    <3>1. Ahead(latest, lastLive) = Ahead(latest, cutoff) - Ahead(lastLive, cutoff)
          /\ Ahead(latest, lastLive) \in Nat
      BY <1>4, DueIs DEF SamplesInv, TypedAcquisition
    <3>2. Ahead(lastLive', cutoff) <= Ahead(latest, cutoff)
      BY <2>2
    <3>3. latest \in SeqNums /\ cutoff \in SeqNums /\ lastLive' \in SeqNums
      BY <1>1, <2>4 DEF TypeOK
    <3>4. Ahead(latest, lastLive') + Ahead(lastLive', cutoff) = Ahead(latest, cutoff)
      BY <3>2, <3>3, InARow
    <3>5. Ahead(latest, lastLive') \in SeqNums
      BY <3>3, AheadIs
    <3> DEFINE a == Ahead(latest, lastLive')
               b == Ahead(lastLive', cutoff)
    <3>6. a \in Int
      BY <3>5, Reach DEF SeqNums
    <3> HIDE DEF a, b
    <3> QED BY <2>2, <3>1, <3>4, <3>6 DEF a, b
  <2>6. ASSUME ~fault
        PROVE  History' = 0
    <3>1. History = Len(queue) + 1 - Ahead(latest, lastLive) /\ History = 0
      BY <1>4, <2>1, <2>6 DEF SamplesInv, KeptInv, History
    <3>2. History' = Len(queue) + 0 - (Ahead(latest, lastLive) - 1)
      BY <1>1, <2>5 DEF History
    <3>3. Len(queue) \in Nat
      BY DEF TypedAcquisition, TypeOK
    <3> QED BY <2>5, <3>1, <3>2, <3>3
  <2>7. KeptInv'
    BY <1>1, <2>6, Reach DEF KeptInv
  <2> QED BY <1>2, <2>3, <2>7 DEF SamplesInv
<1> QED BY <1>3, <1>4

LEMMA ConsumerSamples ==
  ASSUME TypedAcquisition, SamplesInv, running => started, UNCHANGED started,
         Context \/ Update \/ CheckHealth \/ Runner
  PROVE  SamplesInv'
<1>1. CASE UpdateTimeout
  <2>1. /\ Done /\ ~Live
        /\ UNCHANGED <<latest, queue, fault, running, sequential, cutoff, lastLive>>
    BY <1>1 DEF UpdateTimeout, At, Live, readerVars, contextVars
  <2>2. sequential /\ ~fault => History = 0
    <3> SUFFICES ASSUME sequential, ~fault PROVE History = 0
      OBVIOUS
    <3>1. History \in 0 .. Len(queue) /\ Len(queue) = 0
      BY <1>1, QueueSplits DEF SamplesInv, UpdateTimeout
    <3> QED BY <3>1
  <2> QED BY <2>1, <2>2, DoneSamples
<1>2. CASE UpdateLate
  <2>1. /\ pc' = "health" /\ fault' = TRUE /\ sequential'
        /\ UNCHANGED <<latest, running, sequential, cutoff, lastLive>>
    BY <1>2 DEF UpdateLate, At, Done, GoTo, contextVars
  <2> QED BY <2>1 DEF SamplesInv, Consecutive, InReach, KeptInv, HeldInv
<1>3. CASE UpdateDrain
  <2>1. ~sequential
    BY <1>3 DEF UpdateDrain, At, SamplesInv, HeldInv
  <2> QED BY <1>3, <2>1, IdleSamples
<1>4. CASE CheckHealth \/ Runner
  <2>1. /\ UNCHANGED <<latest, queue, fault, sequential, cutoff, next, taken, lastLive, swept>>
        /\ pc \in {"health", "runner"} /\ pc' \in {"runner", "context"} /\ ~Live /\ ~Live'
    BY <1>4 DEF CheckHealth, Runner, At, GoTo, readerVars, contextVars, historyVars, Live
  <2>2. running' /\ ~running => ~fault
    BY <1>4 DEF CheckHealth, Runner
  <2>3. Consecutive'
    BY <2>1, <2>2 DEF SamplesInv, Consecutive
  <2>4. History' = History
    BY <2>1 DEF History
  <2>5. InReach' /\ KeptInv' /\ HeldInv'
    BY <2>1, <2>4 DEF SamplesInv, InReach, KeptInv, HeldInv
  <2> QED BY <2>3, <2>5 DEF SamplesInv
<1>5. CASE UpdateReceive \/ UpdateDiscard
  BY <1>5, ReceiveSamples, IdleSamples
<1> QED BY <1>1, <1>2, <1>3, <1>4, <1>5, ContextSamples, BeginSamples, DeliverSamples DEF Update

LEMMA NextSamples ==
  StartInv /\ TInv /\ Unused /\ SamplesInv /\ [StartupNext]_allVars => Unused' /\ SamplesInv'
<1> SUFFICES ASSUME StartInv, TInv, Unused, SamplesInv, [StartupNext]_allVars
             PROVE  Unused' /\ SamplesInv'
  OBVIOUS
<1>1. TypedAcquisition /\ (running => started)
  BY DEF TInv, StartInv, StartedLast
<1>2. ASSUME UNCHANGED vars, "ticking" \in parts => "ticking" \in parts'
      PROVE  Unused' /\ SamplesInv'
  BY <1>2, SameSamples
  DEF vars, readerVars, contextVars, consumerVars, historyVars, Unused
<1>3. CASE SensorFails \/ SensorAnswers \/ WarmTimeout \/ MakeQueue \/ MakeTimer \/ MakeTask \/ StartTimer
  <2>1. UNCHANGED vars
    BY <1>3 DEF SensorFails, SensorAnswers, WarmTimeout, MakeQueue, MakeTimer, MakeTask, StartTimer,
                OnlyStartup, readerAllVars
  <2>2. \/ parts' = parts \/ "ticking" \notin parts
        \/ \E p \in {"queue", "timer", "ticking"} : parts' = parts \cup {p}
        \/ parts' = parts \ {"timer"} \/ parts' = parts \ {"task", "timer"}
    <3>1. CASE SensorFails \/ SensorAnswers \/ WarmTimeout
      BY <3>1 DEF SensorFails, SensorAnswers, WarmTimeout
    <3>2. CASE MakeQueue \/ MakeTimer
      BY <3>2 DEF MakeQueue, MakeTimer, Stage, StartInv, Built
    <3>3. CASE MakeTask
      BY <3>3 DEF MakeTask, Stage, StartInv, Built
    <3>4. CASE StartTimer
      BY <3>4 DEF StartTimer
    <3> QED BY <1>3, <3>1, <3>2, <3>3, <3>4
  <2>3. "ticking" \in parts => "ticking" \in parts'
    BY <2>2
  <2> QED BY <1>2, <2>1, <2>3
<1>4. CASE WarmUp
  <2>1. /\ stage = "warm" /\ parts' = parts
        /\ UNCHANGED <<queue, fault, sequential, cutoff, pc, next, taken, running, lastLive, swept, started>>
    BY <1>4 DEF WarmUp, contextVars, historyVars
  <2>2. "ticking" \notin parts
    BY <2>1 DEF StartInv, Built
  <2>3. queue = <<>> /\ ~sequential
    BY <2>2 DEF Unused
  <2>4. Len(queue) = 0
    BY <2>3
  <2> QED BY <2>1, <2>3, <2>4 DEF Unused, SamplesInv, Consecutive, InReach, KeptInv, HeldInv
<1>5. CASE NoteStart
  <2>1. /\ UNCHANGED <<readerVars, contextVars, consumerVars, historyVars, parts>> /\ started'
    BY <1>5 DEF NoteStart
  <2>2. SamplesInv'
    BY <2>1, SameSamples DEF readerVars, contextVars, consumerVars, historyVars
  <2> QED BY <2>1, <2>2 DEF Unused, readerVars, contextVars
<1>6. CASE "ticking" \in parts /\ Poll /\ UNCHANGED startupVars
  <2>1. Unused'
    BY <1>6 DEF startupVars, Unused
  <2>2. CASE UNCHANGED vars
    BY <1>2, <1>6, <2>2 DEF startupVars
  <2>3. CASE PollNonfinite
    <3>1. /\ fault' \in {fault, TRUE} /\ UNCHANGED started
          /\ UNCHANGED <<latest, queue, contextVars, consumerVars, historyVars>>
      BY <1>1, <2>3 DEF PollNonfinite, CaptureNonfinite, TypedAcquisition, TypeOK
    <3> QED BY <2>1, <3>1, SameSamples DEF contextVars, consumerVars, historyVars
  <2>4. CASE PollGyro
    BY <1>1, <2>1, <2>4, CaptureSamples DEF PollGyro
  <2> QED BY <1>6, <2>2, <2>3, <2>4 DEF Poll, SensorSample, PollStatus, PollFails, PollAccel, ReaderIdle
<1>7. CASE Silent /\ UNCHANGED startupVars
  <2>1. /\ UNCHANGED <<latest, queue, fault, contextVars, consumerVars, historyVars, started, parts>>
    BY <1>7 DEF Silent, Silence, startupVars
  <2> QED BY <2>1, SameSamples DEF contextVars, consumerVars, historyVars, Unused
<1>8. CASE Loop
  <2>1. /\ Context \/ Update \/ CheckHealth \/ Runner
        /\ UNCHANGED <<started, parts>> /\ stage \in {"up", "down"}
    BY <1>8 DEF Loop, Looping, Owner, ContextAudit, UpdateQuiet, DeliverAudit, RunnerPhase, Update, startupVars
  <2>2. SamplesInv'
    BY <1>1, <2>1, ConsumerSamples
  <2>3. ASSUME "ticking" \notin parts
        PROVE  queue' = <<>> /\ ~sequential'
    <3>1. queue = <<>> /\ ~sequential /\ ~running
      BY <2>1, <2>3 DEF Unused, StartInv, Built, StartedLast, Parts
    <3>2. sequential' = sequential \/ sequential' = running
      BY <2>1 DEF Context, Update, UpdateBegin, UpdateTimeout, UpdateReceive, UpdateDiscard, UpdateDrain,
                  UpdateLate, UpdateDeliver, CheckHealth, Runner, contextVars
    <3>3. queue' = queue
      BY <2>1, <3>1 DEF Context, Update, UpdateBegin, UpdateTimeout, UpdateReceive, UpdateDiscard, UpdateDrain,
                        UpdateLate, UpdateDeliver, CheckHealth, Runner, readerVars
    <3> QED BY <3>1, <3>2, <3>3
  <2> QED BY <2>1, <2>2, <2>3 DEF Unused
<1>9. CASE UNCHANGED allVars
  BY <1>2, <1>9 DEF allVars, readerAllVars, startupVars
<1> QED BY <1>3, <1>4, <1>5, <1>6, <1>7, <1>8, <1>9 DEF StartupNext, Begin

RunInv == StartInv /\ TInv /\ Unused /\ SamplesInv

LEMMA InitRun == StartupInit => RunInv
<1> SUFFICES ASSUME StartupInit PROVE RunInv
  OBVIOUS
<1>1. queue = <<>> /\ ~sequential /\ ~running /\ pc = "context"
  BY DEF StartupInit, Init
<1>2. Len(queue) = 0
  BY <1>1
<1>3. Unused /\ SamplesInv
  BY <1>1, <1>2 DEF Unused, SamplesInv, Consecutive, InReach, KeptInv, HeldInv
<1> QED BY <1>3, InitStart, InitTyped DEF RunInv

LEMMA RunInvariant == StartupSpec => []RunInv
<1>1. RunInv /\ [StartupNext]_allVars => RunInv'
  BY NextStart, NextTyped, NextSamples DEF RunInv
<1> QED BY <1>1, InitRun, PTL DEF StartupSpec

(* In a run without a fault every sample of it is delivered, on its way or in the
   queue, in order and behind the idle history, of which nothing is left once the
   first update() is over: publishSample, update, imu_startup_boundary.h. *)
THEOREM SamplesKept == StartupSpec => []RunSamplesKept
<1>1. ASSUME RunInv
      PROVE  NoSampleLost
  <2> SUFFICES ASSUME sequential, ~fault PROVE NoSampleLost
    BY DEF NoSampleLost
  <2> DEFINE n == Len(queue)
             due == Ahead(latest, lastLive)
             history == Len(Pipeline) - due
             Ordered(i) == IF i <= history THEN ~Accepts(Pipeline[i])
                           ELSE Accepts(Pipeline[i]) /\ Ahead(Pipeline[i], lastLive) = i - history
  <2>1. /\ TypedAcquisition /\ TypeOK /\ SamplesInv /\ queue \in Seq(SeqNums) /\ n \in Nat
        /\ next \in SeqNums /\ lastLive \in SeqNums
    BY <1>1 DEF RunInv, TInv, TypedAcquisition, TypeOK
  <2>2. due \in Nat
    BY <2>1, DueIs DEF SamplesInv
  <2>3. /\ History \in 0 .. n
        /\ \A i \in 1 .. n : /\ Accepts(queue[i]) <=> i > History
                             /\ i > History => Ahead(queue[i], lastLive) = i - History + (IF Live THEN 1 ELSE 0)
    BY <2>1, QueueSplits DEF SamplesInv
  <2>4. Live => History = 0
    BY <2>1 DEF SamplesInv, KeptInv
  <2>5. ASSUME Holding
        PROVE  /\ Pipeline = <<next>> \o queue /\ Len(Pipeline) = n + 1 /\ Pipeline[1] = next
               /\ \A i \in 2 .. n + 1 : Pipeline[i] = queue[i - 1] /\ i - 1 \in 1 .. n
    BY <2>1, <2>5 DEF Pipeline
  <2>6. CASE ~Holding
    <3>1. Pipeline = queue /\ ~Live
      BY <2>1, <2>6 DEF Pipeline, Holding, Live
    <3>2. history = History
      <4>1. History = n + 0 - due /\ history = n - due
        BY <3>1 DEF History
      <4> HIDE DEF n, due, history
      <4> QED BY <2>1, <2>2, <4>1
    <3> QED BY <2>3, <3>1, <3>2 DEF NoSampleLost
  <2>7. CASE Holding /\ ~Live
    <3>1. history = History + 1 /\ ~Accepts(next)
      <4>1. pc \in {"discard", "deliver"}
        BY <2>1, <2>7 DEF Holding, SamplesInv, HeldInv
      <4>2. History = n + 0 - due
        BY <2>7 DEF History
      <4>3. Len(Pipeline) = n + 1
        BY <2>5, <2>7
      <4>4. history = n + 1 - due
        BY <2>1, <2>2, <4>3
      <4> HIDE DEF n, due, history
      <4> QED BY <2>1, <2>2, <2>7, <4>1, <4>2, <4>4 DEF Live
    <3>2. ASSUME NEW i \in 1 .. n + 1 PROVE Ordered(i)
      <4>1. CASE i = 1
        BY <2>3, <2>5, <2>7, <3>1, <4>1
      <4>2. CASE i # 1
        <5>1. i - 1 \in 1 .. n /\ Pipeline[i] = queue[i - 1] /\ (i <= history <=> ~(i - 1 > History))
              /\ (i - 1) - History + 0 = i - history
          BY <2>1, <2>3, <2>5, <2>7, <3>1, <4>2
        <5> QED BY <2>3, <2>7, <5>1
      <4> QED BY <4>1, <4>2
    <3>3. history >= 0
      BY <2>3, <3>1
    <3> HIDE DEF n
    <3> QED BY <2>5, <2>7, <3>2, <3>3 DEF NoSampleLost, n
  <2>8. CASE Live
    <3>1. Holding /\ history = 0 /\ Accepts(next) /\ History = 0
      <4>1. Holding
        BY <2>8 DEF Live, Holding
      <4>2. History = n + 1 - due
        BY <2>8 DEF History
      <4>3. Len(Pipeline) = n + 1
        BY <2>5, <4>1
      <4>4. history = n + 1 - due
        BY <2>1, <2>2, <4>3
      <4> HIDE DEF n, due, history
      <4> QED BY <2>4, <2>8, <4>1, <4>2, <4>4 DEF Live
    <3>2. Ahead(next, lastLive) = 1
      <4>1. next = Inc(lastLive)
        BY <2>1, <2>8 DEF SamplesInv, HeldInv, NextIsDue, Live
      <4>2. Ahead(lastLive, lastLive) = 0 /\ 0 # SeqMod - 1
        BY <2>1, AheadOfSelf, Reach
      <4>3. Ahead(Inc(lastLive), lastLive) = 0 + 1
        BY <2>1, <4>2, AheadOfInc
      <4> QED BY <4>1, <4>3
    <3>3. ASSUME NEW i \in 1 .. n + 1 PROVE Ordered(i)
      <4>1. CASE i = 1
        BY <2>5, <3>1, <3>2, <4>1
      <4>2. CASE i # 1
        <5>1. i - 1 \in 1 .. n /\ Pipeline[i] = queue[i - 1] /\ i - 1 > History /\ ~(i <= history)
              /\ (i - 1) - History + 1 = i - history
          BY <2>1, <2>5, <3>1, <4>2
        <5> QED BY <2>3, <2>8, <5>1
      <4> QED BY <4>1, <4>2
    <3> HIDE DEF n
    <3> QED BY <2>5, <3>1, <3>3 DEF NoSampleLost, n
  <2> QED BY <2>6, <2>7, <2>8
<1>2. ASSUME RunInv
      PROVE  BoundarySwept
  <2> SUFFICES ASSUME sequential, swept, ~fault, NEW i \in 1 .. Len(queue) PROVE Accepts(queue[i])
    <3>1. DOMAIN queue = 1 .. Len(queue)
      BY <1>2 DEF RunInv, TInv, TypedAcquisition, TypeOK
    <3> QED BY <3>1 DEF BoundarySwept
  <2>1. (Accepts(queue[i]) <=> i > History) /\ History = 0
    BY <1>2, QueueSplits DEF RunInv, TInv, SamplesInv, KeptInv
  <2> QED BY <2>1
<1> QED BY <1>1, <1>2, RunInvariant, PTL DEF RunSamplesKept

(* The controller is given the samples of a run one after the other, from the first
   after its boundary, also while an overflow latches the fault: update. *)
THEOREM DeliveryCorrect == StartupSpec => DeliveredWithoutGap
<1>1. ASSUME RunInv, [StartupNext]_allVars
      PROVE  [sequential /\ lastLive' # lastLive /\ ~(At("context")) => lastLive' = Inc(lastLive)]_vars
  <2> SUFFICES ASSUME sequential, lastLive' # lastLive, pc # "context" PROVE lastLive' = Inc(lastLive)
    BY DEF At
  <2>1. CASE Begin
    <3>1. lastLive' = lastLive
      BY <2>1 DEF Begin, SensorFails, SensorAnswers, WarmUp, WarmTimeout, MakeQueue, MakeTimer, MakeTask,
                  StartTimer, NoteStart, OnlyStartup, readerAllVars, vars, historyVars
    <3> QED BY <3>1
  <2>2. CASE Poll \/ Silent \/ UNCHANGED allVars
    <3>1. lastLive' = lastLive
      BY <2>2 DEF Poll, SensorSample, PollStatus, PollFails, PollAccel, PollNonfinite, PollGyro, Silent,
                  ReaderIdle, Capture, CaptureNonfinite, Silence, allVars, readerAllVars, vars, historyVars
    <3> QED BY <3>1
  <2>3. CASE Loop
    <3>1. UpdateDeliver
      BY <2>3 DEF Loop, Owner, ContextAudit, UpdateQuiet, DeliverAudit, RunnerPhase, Context, At, UpdateBegin,
                  UpdateTimeout, UpdateReceive, UpdateDiscard, UpdateDrain, UpdateLate, CheckHealth, Runner,
                  historyVars
    <3>2. pc = "deliver" /\ lastLive' = next
      BY <3>1 DEF UpdateDeliver, At
    <3>3. next = Inc(lastLive)
      BY <1>1, <3>2 DEF RunInv, SamplesInv, HeldInv, NextIsDue
    <3> QED BY <3>2, <3>3
  <2> QED BY <1>1, <2>1, <2>2, <2>3 DEF StartupNext
<1> QED BY <1>1, RunInvariant, PTL DEF StartupSpec, DeliveredWithoutGap

-----------------------------------------------------------------------------
(* The audit of a measurement. *)

Audits == [active : BOOLEAN, samples : Nat, delivered : Nat, drops : Nat, gaps : 0 .. 1, last : SeqNums]

AuditTyped ==
  /\ audit \in Audits /\ lastBefore \in SeqNums /\ stamp \in {"before", "after"}
  /\ profiled \in BOOLEAN

(* A run is measured only once its first update() has swept the idle history. *)
PhaseInv ==
  /\ phase \in Phases /\ (running <=> phase # "idle")
  /\ running /\ pc # "context" => sequential
  /\ sequential /\ pc \in {"health", "runner"} => swept
  /\ phase \in {"measure", "end"} => sequential /\ swept
  /\ audit.active => sequential /\ swept

OfRun(s) == 0 < Ahead(s, cutoff) /\ Ahead(s, cutoff) <= Ahead(latest, cutoff)

(* What is on its way then is of the run, whatever fault is latched from there on. *)
AllOfRun ==
  /\ \A i \in 1 .. Len(queue) : OfRun(queue[i])
  /\ Holding => OfRun(next)

OnlyRun == (running /\ pc = "runner") \/ measuring \/ audit.active => AllOfRun

(* update() holds a sample of the measurement; the queue holds them behind its
   first p samples. *)
Held == IF Holding /\ AfterEpoch(next) THEN 1 ELSE 0

Splits(p) ==
  /\ \A i \in 1 .. Len(queue) : AfterEpoch(queue[i]) <=> i > p
  /\ Held = 1 => p = 0

Balance(onTheirWay) ==
  LET lost == audit.samples - audit.delivered - onTheirWay
  IN  lost >= 0 /\ audit.drops - lost \in {0, 1}

Books ==
  audit.active =>
    /\ Ahead(lastBefore, cutoff) <= Ahead(latest, cutoff)
    /\ stamp = "before" => lastBefore = latest /\ audit.drops = 0
    /\ \E p \in 0 .. Len(queue) : Splits(p) /\ Balance(Len(queue) - p + Held)
    /\ audit.gaps = 0
    /\ audit.drops > 0 => fault
    /\ audit.samples > 0 => profiled
    /\ audit.last # NoDelivery /\ (~fault \/ pc \in {"receive", "discard", "deliver"}) =>
         audit.last = lastLive /\ AfterEpoch(lastLive)

AuditInv == AuditTyped /\ PhaseInv /\ OnlyRun /\ Books

(* Of two numbers up to l the greater is the one further ahead. *)
LEMMA EpochSplits ==
  ASSUME NEW l \in SeqNums, NEW c \in SeqNums, NEW b \in SeqNums, NEW s \in SeqNums,
         Ahead(l, c) < H, Ahead(b, c) <= Ahead(l, c), Ahead(s, c) <= Ahead(l, c)
  PROVE  After(s, b) <=> Ahead(s, c) > Ahead(b, c)
<1>1. Ahead(s, c) = IF c <= s THEN s - c ELSE s - c + SeqMod
  BY AheadIs
<1>2. Ahead(b, c) = IF c <= b THEN b - c ELSE b - c + SeqMod
  BY AheadIs
<1>3. Ahead(s, b) = IF b <= s THEN s - b ELSE s - b + SeqMod
  BY AheadIs
<1>4. After(s, b) <=> 0 < Ahead(s, b) /\ Ahead(s, b) < H
  BY DEF After, H
<1> DEFINE L == Ahead(l, c)
<1>5. Ahead(b, c) <= L /\ Ahead(s, c) <= L /\ L < H /\ L \in SeqNums
  BY AheadIs DEF L
<1> HIDE DEF L
<1> QED BY <1>1, <1>2, <1>3, <1>4, <1>5, Reach DEF SeqNums

LEMMA OfRunAccepted ==
  ASSUME TypeOK, InReach, sequential, NEW s \in SeqNums, OfRun(s)
  PROVE  Accepts(s)
<1> DEFINE L == Ahead(latest, cutoff)
           d == Ahead(s, cutoff)
<1>1. 0 < d /\ d <= L /\ L < H /\ L \in Nat /\ d \in SeqNums
  BY DueIs, AheadIs DEF OfRun, InReach, TypeOK
<1>2. d < H
  <2> HIDE DEF d, L
  <2> QED BY <1>1, Reach DEF SeqNums
<1> QED BY <1>1, <1>2 DEF Accepts, After, H

(* After the sweep of a run without a fault all of the queue is of the run. *)
LEMMA SweptOfRun ==
  ASSUME TypedAcquisition, SamplesInv, sequential, swept, ~fault, NEW i \in 1 .. Len(queue)
  PROVE  OfRun(queue[i])
<1>1. /\ queue[i] \in SeqNums /\ latest \in SeqNums /\ cutoff \in SeqNums /\ Len(queue) \in 0 .. QueueLen
      /\ TypeOK
  BY DEF TypedAcquisition, TypeOK
<1>2. Ahead(latest, queue[i]) = Len(queue) - i
  BY DEF SamplesInv, Consecutive
<1>3. Accepts(queue[i])
  BY QueueSplits DEF SamplesInv, KeptInv
<1>4. Len(queue) - i <= QueueLen
  BY <1>1, Reach
<1>5. Ahead(latest, queue[i]) <= QueueLen
  BY <1>2, <1>4
<1>6. Ahead(latest, queue[i]) < Ahead(latest, cutoff)
  BY <1>1, <1>3, <1>5, AcceptsLast DEF SamplesInv, InReach
<1>7. Ahead(latest, queue[i]) <= Ahead(latest, cutoff)
  <2>1. Ahead(latest, queue[i]) \in SeqNums /\ Ahead(latest, cutoff) \in SeqNums
    BY <1>1, AheadIs
  <2> DEFINE a == Ahead(latest, queue[i])
             b == Ahead(latest, cutoff)
  <2> HIDE DEF a, b
  <2> QED BY <1>6, <2>1, Reach DEF SeqNums, a, b
<1>8. Ahead(queue[i], cutoff) <= Ahead(latest, cutoff)
  BY <1>1, <1>7, InARow
<1> QED BY <1>3, <1>8 DEF OfRun, Accepts, After

(* A measurement's audit begins when the runner's phase says so. *)
LEMMA AuditBegins ==
  ASSUME ContextAudit
  PROVE  /\ pc = "context" /\ pc' = "begin" /\ sequential' = running
         /\ UNCHANGED <<phase, latest, queue, fault, running, next, taken>>
         /\ (sequential \/ ~running) => UNCHANGED <<cutoff, lastLive, swept>>
         /\ measuring = audit.active => UNCHANGED <<audit, lastBefore, stamp, profiled>>
         /\ measuring # audit.active =>
              /\ audit'.active = measuring /\ lastBefore' = (IF measuring THEN latest ELSE 0)
              /\ audit' = [active |-> measuring, samples |-> 0, delivered |-> 0, drops |-> 0, gaps |-> 0,
                           last |-> NoDelivery]
              /\ stamp' \in {"before", "after"} /\ profiled' = FALSE
BY DEF ContextAudit, Context, At, GoTo, readerVars, auditVars, NewAudit

(* What a delivery adds to the audit. *)
LEMMA DeliveredIs ==
  ASSUME AuditTyped, NEW s \in SeqNums
  PROVE  /\ Delivered(audit, s) \in Audits
         /\ Delivered(audit, s).active = audit.active
         /\ Delivered(audit, s).samples = audit.samples
         /\ Delivered(audit, s).drops = audit.drops
         /\ ~audit.active \/ ~AfterEpoch(s) => Delivered(audit, s) = audit
         /\ audit.active /\ AfterEpoch(s) =>
              /\ Delivered(audit, s).delivered = audit.delivered + 1
              /\ Delivered(audit, s).last = s
              /\ audit.last = NoDelivery \/ Ahead(s, audit.last) <= 1 =>
                   Delivered(audit, s).gaps = audit.gaps
<1> DEFINE d == Delivered(audit, s)
           gap == audit.gaps = 0 /\ audit.last # NoDelivery /\ Ahead(s, audit.last) > 1
<1>1. audit \in Audits /\ audit.last \in SeqNums /\ Ahead(s, audit.last) \in SeqNums
  BY AheadIs DEF AuditTyped, Audits
<1>2. CASE ~audit.active \/ ~AfterEpoch(s)
  BY <1>1, <1>2 DEF Delivered
<1>3. CASE audit.active /\ AfterEpoch(s)
  <2> DEFINE g == IF gap THEN 1 ELSE audit.gaps
  <2>1. d = [audit EXCEPT !.delivered = audit.delivered + 1, !.gaps = g, !.last = s]
    BY <1>1, <1>3 DEF Delivered
  <2>2. audit.last = NoDelivery \/ Ahead(s, audit.last) <= 1 => g = audit.gaps
    BY <1>1, Reach DEF SeqNums
  <2>3. g \in 0 .. 1
    BY <1>1 DEF Audits
  <2> HIDE DEF g, d
  <2>4. /\ d.active = audit.active /\ d.samples = audit.samples /\ d.drops = audit.drops
        /\ d.delivered = audit.delivered + 1 /\ d.last = s /\ d.gaps = g
    BY <1>1, <2>1 DEF Audits
  <2>5. d \in Audits
    <3>1. d = [active |-> audit.active, samples |-> audit.samples, delivered |-> audit.delivered + 1,
               drops |-> audit.drops, gaps |-> g, last |-> s]
      BY <1>1, <2>1 DEF Audits
    <3>2. /\ audit.active \in BOOLEAN /\ audit.samples \in Nat /\ audit.delivered + 1 \in Nat
          /\ audit.drops \in Nat
      BY <1>1 DEF Audits
    <3> QED BY <2>3, <3>1, <3>2 DEF Audits
  <2> QED BY <1>3, <2>2, <2>4, <2>5 DEF d
<1> QED BY <1>2, <1>3

LEMMA AuditOfUpdate ==
  ASSUME TypedAcquisition, AuditTyped, UpdateQuiet \/ DeliverAudit
  PROVE  /\ audit' \in {audit, Delivered(audit, next)} /\ audit'.active = audit.active
         /\ UNCHANGED <<stamp, lastBefore, profiled, phase, running, latest, sequential, cutoff>>
<1>1. audit' \in {audit, Delivered(audit, next)}
  BY DEF UpdateQuiet, DeliverAudit, auditVars
<1>2. Delivered(audit, next).active = audit.active
  BY DeliveredIs DEF TypedAcquisition, TypeOK
<1>3. UNCHANGED <<stamp, lastBefore, profiled, phase>>
  BY DEF UpdateQuiet, DeliverAudit, auditVars, sensorVars
<1>4. UNCHANGED <<running, latest, sequential, cutoff>>
  BY DEF UpdateQuiet, DeliverAudit, UpdateBegin, UpdateTimeout, UpdateReceive, UpdateDiscard, UpdateDrain,
         UpdateLate, UpdateDeliver, readerVars, contextVars
<1> QED BY <1>1, <1>2, <1>3, <1>4

(* Each step of the owner keeps the phase of its run. *)
LEMMA OwnerPhase ==
  ASSUME TypedAcquisition, PhaseInv, AuditTyped, Owner
  PROVE  PhaseInv'
<1> USE DEF PhaseInv
<1>0. measuring \in BOOLEAN /\ audit.active \in BOOLEAN
  BY DEF measuring, AuditTyped, Audits
<1>1. CASE ContextAudit
  <2>1. measuring => running /\ sequential /\ swept
    BY DEF measuring
  <2>2. audit'.active => measuring
    BY <1>0, <1>1, AuditBegins
  <2>3. running /\ ~sequential => phase = "sync"
    BY DEF Phases
  <2> QED BY <1>1, <2>1, <2>2, <2>3, AuditBegins
<1>2. CASE UpdateQuiet \/ DeliverAudit
  <2>1. UNCHANGED <<phase, running, sequential>> /\ audit'.active = audit.active /\ pc # "context"
    BY <1>2, AuditOfUpdate DEF UpdateQuiet, DeliverAudit, UpdateBegin, UpdateTimeout, UpdateReceive,
                UpdateDiscard, UpdateDrain, UpdateLate, UpdateDeliver, At
  <2>2. (swept => swept') /\ (pc' \in {"health", "runner"} => swept')
    BY <1>2 DEF UpdateQuiet, DeliverAudit, UpdateBegin, UpdateTimeout, UpdateReceive, UpdateDiscard,
                UpdateDrain, UpdateLate, UpdateDeliver, historyVars, Done, At, GoTo
  <2> QED BY <2>1, <2>2
<1>3. CASE RunnerPhase
  <2>1. UNCHANGED <<sequential, swept, audit>> /\ pc \in {"health", "runner"} /\ pc' \in {"runner", "context"}
    BY <1>3 DEF RunnerPhase, CheckHealth, Runner, contextVars, historyVars, auditVars, At, GoTo
  <2>2. (~running' => phase' = "idle") /\ (pc = "health" /\ running' => phase' = phase /\ running)
    BY <1>3 DEF RunnerPhase, CheckHealth, Runner, At
  <2>3. pc = "runner" /\ running' => phase' \in Follows(phase)
    BY <1>3 DEF RunnerPhase, At
  <2>4. pc = "runner" /\ running' => /\ phase' \in {"sync", "measure", "end"} /\ pc' = "context"
                                     /\ phase' \in {"measure", "end"} => running
    <3>1. phase \in Phases /\ (running <=> phase # "idle")
      OBVIOUS
    <3> QED BY <1>3, <2>3, <3>1 DEF Follows, Phases, RunnerPhase, CheckHealth, Runner, At, GoTo
  <2>5. CASE ~running'
    BY <2>1, <2>2, <2>5 DEF Phases
  <2>6. CASE running' /\ pc = "health"
    BY <2>1, <2>2, <2>6 DEF Phases
  <2>7. CASE running' /\ pc = "runner"
    BY <2>1, <2>4, <2>7 DEF Phases
  <2> QED BY <2>1, <2>5, <2>6, <2>7
<1> QED BY <1>1, <1>2, <1>3 DEF Owner

(* What the owner holds and what is queued stays of the run. *)
LEMMA OwnerOnlyRun ==
  ASSUME TypedAcquisition, SamplesInv, PhaseInv, AuditTyped, OnlyRun, Owner
  PROVE  OnlyRun'
<1> USE DEF At, GoTo
<1>0. measuring \in BOOLEAN /\ audit.active \in BOOLEAN
  BY DEF measuring, AuditTyped, Audits
<1>1. CASE ContextAudit
  <2> SUFFICES ASSUME measuring \/ audit.active PROVE AllOfRun'
    BY <1>0, <1>1, AuditBegins DEF OnlyRun, measuring
  <2>1. sequential
    BY DEF PhaseInv, measuring
  <2> QED BY <1>1, <2>1, AuditBegins DEF OnlyRun, AllOfRun, OfRun, Holding
<1>2. CASE UpdateQuiet \/ DeliverAudit
  <2>1. /\ UNCHANGED <<phase, latest, cutoff>> /\ audit'.active = audit.active /\ pc' # "runner"
    BY <1>2, AuditOfUpdate DEF UpdateQuiet, DeliverAudit, UpdateBegin, UpdateTimeout, UpdateReceive,
                UpdateDiscard, UpdateDrain, UpdateLate, UpdateDeliver, Done
  <2> SUFFICES ASSUME AllOfRun PROVE AllOfRun'
    BY <2>1 DEF OnlyRun, measuring
  <2>2. CASE Take /\ queue # <<>>
    <3>1. \A i \in 1 .. Len(queue') : queue'[i] = queue[i + 1] /\ i + 1 \in 1 .. Len(queue)
      BY <2>2, Taken
    <3>2. 1 \in 1 .. Len(queue) /\ next' = queue[1]
      BY <2>2, Taken
    <3> QED BY <2>1, <3>1, <3>2 DEF AllOfRun, OfRun
  <2>3. CASE queue' = queue /\ (Holding' => next' = next /\ Holding)
    BY <2>1, <2>3 DEF AllOfRun, OfRun
  <2> QED BY <1>2, <2>2, <2>3
          DEF UpdateQuiet, DeliverAudit, UpdateBegin, UpdateTimeout, UpdateReceive, UpdateDiscard,
              UpdateDrain, UpdateLate, UpdateDeliver, readerVars, Done, Holding
<1>3. CASE RunnerPhase
  <2>1. /\ UNCHANGED <<latest, queue, cutoff, next, sequential, swept, audit>>
        /\ pc \in {"health", "runner"} /\ ~Holding /\ ~Holding'
    BY <1>3 DEF RunnerPhase, CheckHealth, Runner, readerVars, contextVars, historyVars, auditVars, Holding
  <2>2. AllOfRun => AllOfRun'
    BY <2>1 DEF AllOfRun, OfRun
  <2>3. CASE pc = "health" /\ running'
    <3>1. running /\ ~fault /\ sequential /\ swept
      BY <1>3, <2>3 DEF RunnerPhase, CheckHealth, Runner, PhaseInv
    <3>2. AllOfRun
      BY <2>1, <3>1, SweptOfRun DEF AllOfRun
    <3> QED BY <2>2, <3>2 DEF OnlyRun
  <2>4. CASE ~running'
    <3>1. ~measuring'
      BY <1>3, <2>4 DEF RunnerPhase, measuring
    <3> QED BY <2>1, <2>2, <2>4, <3>1 DEF OnlyRun
  <2>5. CASE pc = "runner" /\ running'
    <3>1. measuring' => running
      <4>1. phase' \in Follows(phase)
        BY <1>3, <2>5 DEF RunnerPhase
      <4> QED BY <4>1 DEF PhaseInv, measuring, Follows, Phases
    <3>2. pc' = "context"
      BY <1>3, <2>5 DEF RunnerPhase, CheckHealth, Runner
    <3> QED BY <2>1, <2>2, <2>5, <3>1, <3>2 DEF OnlyRun
  <2> QED BY <2>1, <2>3, <2>4, <2>5
<1> QED BY <1>1, <1>2, <1>3 DEF Owner

(* What a capture adds to the audit. *)
LEMMA SampledIs ==
  ASSUME AuditTyped
  PROVE  /\ Sampled(audit) \in Audits
         /\ Sampled(audit).active = audit.active /\ Sampled(audit).delivered = audit.delivered
         /\ Sampled(audit).gaps = audit.gaps /\ Sampled(audit).last = audit.last
         /\ audit.active =>
              /\ Sampled(audit).samples = IF stamp = "before" THEN audit.samples ELSE audit.samples + 1
              /\ Sampled(audit).drops = IF Overflows THEN audit.drops + 1 ELSE audit.drops
<1>1. audit \in Audits
  BY DEF AuditTyped
<1>2. CASE ~audit.active
  BY <1>1, <1>2 DEF Sampled, Audits
<1>3. CASE audit.active
  <2> DEFINE a == Sampled(audit)
             m == IF stamp = "before" THEN audit.samples ELSE audit.samples + 1
             k == IF Overflows THEN audit.drops + 1 ELSE audit.drops
  <2>1. a = [audit EXCEPT !.samples = m, !.drops = k]
    BY <1>1, <1>3 DEF Sampled
  <2>2. m \in Nat /\ k \in Nat /\ audit.delivered \in Nat /\ audit.active \in BOOLEAN
    BY <1>1 DEF Audits
  <2>3. /\ a.active = audit.active /\ a.delivered = audit.delivered /\ a.gaps = audit.gaps
        /\ a.last = audit.last /\ a.samples = m /\ a.drops = k
    <3> HIDE DEF m, k, a
    <3> QED BY <1>1, <2>1 DEF Audits
  <2>4. a \in Audits
    <3> HIDE DEF m, k, a
    <3>1. a = [active |-> audit.active, samples |-> m, delivered |-> audit.delivered, drops |-> k,
               gaps |-> audit.gaps, last |-> audit.last]
      BY <1>1, <2>1 DEF Audits
    <3>2. audit.gaps \in 0 .. 1 /\ audit.last \in SeqNums
      BY <1>1 DEF Audits
    <3> QED BY <2>2, <3>1, <3>2 DEF Audits
  <2> HIDE DEF a
  <2> QED BY <1>3, <2>3, <2>4 DEF a
<1> QED BY <1>2, <1>3

(* What a poll without a sample changes of all this. *)
LEMMA PollAudit ==
  ASSUME TypedAcquisition, SensorSample \/ PollStatus \/ PollFails \/ PollAccel \/ PollNonfinite \/ Silent
  PROVE  /\ UNCHANGED <<audit, lastBefore, latest, queue, contextVars, consumerVars, historyVars, phase>>
         /\ fault' \in {fault, TRUE}
         /\ stamp' \in {stamp, "after"} /\ profiled' \in {profiled, audit.active}
<1>1. CASE PollNonfinite
  <2>1. fault' = (fault \/ started)
    BY <1>1 DEF PollNonfinite, CaptureNonfinite
  <2>2. fault' = fault \/ fault' = TRUE
    BY <2>1 DEF TypedAcquisition, TypeOK
  <2> QED BY <1>1, <2>2 DEF PollNonfinite, PollReads, PollEnds, CaptureNonfinite, Profiled
<1>2. CASE Silent
  BY <1>2 DEF Silent, Silence, sensorVars, auditVars
<1>3. CASE SensorSample \/ PollStatus \/ PollFails \/ PollAccel
  BY <1>3 DEF SensorSample, PollStatus, PollFails, PollAccel, PollReads, PollEnds, ReaderIdle, vars, auditVars,
              readerVars, Profiled
<1> QED BY <1>1, <1>2, <1>3

LEMMA PollTellsAudit ==
  ASSUME TypedAcquisition, AuditTyped, Poll \/ Silent
  PROVE  /\ AuditTyped'
         /\ UNCHANGED <<phase, sequential, cutoff, pc, next, running, lastLive, swept>>
         /\ audit'.active = audit.active
<1>1. CASE SensorSample \/ PollStatus \/ PollFails \/ PollAccel \/ PollNonfinite \/ Silent
  BY <1>1, PollAudit DEF AuditTyped, Audits, contextVars, consumerVars, historyVars
<1>2. CASE PollGyro
  <2>1. /\ audit' = Sampled(audit) /\ stamp' = "after" /\ profiled' = audit.active
        /\ lastBefore' \in {Inc(latest), lastBefore} /\ UNCHANGED phase /\ Capture
    BY <1>2 DEF PollGyro, PollReads, PollEnds, Profiled
  <2>2. UNCHANGED <<sequential, cutoff, pc, next, running, lastLive, swept>> /\ Inc(latest) \in SeqNums
    BY <2>1, Captured
  <2> QED BY <2>1, <2>2, SampledIs DEF AuditTyped, Audits
<1> QED BY <1>1, <1>2 DEF Poll

LEMMA PollOnlyRun ==
  ASSUME TypedAcquisition, SamplesInv, PhaseInv, AuditTyped, OnlyRun, Poll \/ Silent, UNCHANGED started
  PROVE  OnlyRun'
<1>1. UNCHANGED <<phase, pc, running, cutoff, next, sequential>> /\ audit'.active = audit.active
  BY PollTellsAudit
<1> SUFFICES ASSUME AllOfRun, sequential PROVE AllOfRun'
  BY <1>1 DEF OnlyRun, PhaseInv, measuring
<1>2. CASE SensorSample \/ PollStatus \/ PollFails \/ PollAccel \/ PollNonfinite \/ Silent
  BY <1>2, PollAudit DEF AllOfRun, OfRun, Holding, contextVars, consumerVars
<1>3. CASE PollGyro
  <2> DEFINE L == Ahead(latest, cutoff)
  <2>1. Capture
    BY <1>3 DEF PollGyro
  <2>2. Ahead(latest', cutoff') = L + 1 /\ L \in Nat
    BY <1>1, <2>1, CaptureDue, DueIs DEF SamplesInv, TypedAcquisition
  <2>3. ASSUME NEW s \in SeqNums, OfRun(s)
        PROVE  0 < Ahead(s, cutoff) /\ Ahead(s, cutoff) <= L + 1
    <3>1. 0 < Ahead(s, cutoff) /\ Ahead(s, cutoff) <= L /\ Ahead(s, cutoff) \in SeqNums
      BY <2>3, AheadIs DEF OfRun, TypedAcquisition, TypeOK
    <3> HIDE DEF L
    <3> QED BY <2>2, <3>1, Reach DEF SeqNums
  <2>4. Holding' => OfRun(next)'
    <3>1. next \in SeqNums
      BY DEF TypedAcquisition, TypeOK
    <3> QED BY <1>1, <2>2, <2>3, <3>1 DEF AllOfRun, Holding, OfRun
  <2>5. OfRun(latest)'
    <3> HIDE DEF L
    <3> QED BY <2>2 DEF OfRun
  <2>6. ASSUME NEW i \in 1 .. Len(queue')
        PROVE  queue'[i] = latest' \/ \E j \in 1 .. Len(queue) : queue'[i] = queue[j]
    <3>1. Len(queue) \in Nat /\ (Full => Len(queue) > 0)
      BY Reach DEF TypedAcquisition, TypeOK, Full
    <3>2. CASE Overflows
      BY <2>1, <2>6, <3>2, Captured
    <3>3. CASE ~Overflows /\ ~Full
      BY <2>1, <2>6, <3>1, <3>3, Captured
    <3>4. CASE ~Overflows /\ Full
      <4>1. i = Len(queue) \/ (i \in 1 .. Len(queue) - 1 /\ i + 1 \in 1 .. Len(queue))
        BY <2>1, <2>6, <3>1, <3>4, Captured
      <4> QED BY <2>1, <3>4, <4>1, Captured
    <3> QED BY <3>2, <3>3, <3>4
  <2>7. ASSUME NEW i \in 1 .. Len(queue')
        PROVE  OfRun(queue[i])'
    <3>1. CASE queue'[i] = latest'
      BY <2>5, <3>1 DEF OfRun
    <3>2. CASE \E j \in 1 .. Len(queue) : queue'[i] = queue[j]
      <4>1. PICK j \in 1 .. Len(queue) : queue'[i] = queue[j]
        BY <3>2
      <4>2. queue[j] \in SeqNums /\ OfRun(queue[j])
        BY DEF AllOfRun, TypedAcquisition, TypeOK
      <4> QED BY <1>1, <2>2, <2>3, <4>1, <4>2 DEF OfRun
    <3> QED BY <2>6, <2>7, <3>1, <3>2
  <2> QED BY <2>4, <2>7 DEF AllOfRun
<1> QED BY <1>2, <1>3 DEF Poll

-----------------------------------------------------------------------------
(* The books of the audit. *)

(* Nothing of the run lies after the latest sample. *)
LEMMA NothingAfter ==
  ASSUME TypedAcquisition, InReach, sequential, NEW s \in SeqNums,
         Ahead(s, cutoff) <= Ahead(latest, cutoff)
  PROVE  ~After(s, latest)
<1>1. latest \in SeqNums /\ cutoff \in SeqNums /\ Ahead(latest, cutoff) < H /\ Ahead(latest, cutoff) \in Int
      /\ Ahead(s, cutoff) \in Int
  BY AheadIs, Reach DEF InReach, TypedAcquisition, TypeOK, SeqNums
<1>2. After(s, latest) <=> Ahead(s, cutoff) > Ahead(latest, cutoff)
  BY <1>1, EpochSplits
<1> QED BY <1>1, <1>2

(* Steps that leave the audit, the queue and what update() holds. *)
LEMMA SameBooks ==
  ASSUME Books, UNCHANGED <<audit, lastBefore, latest, queue, cutoff, lastLive>>, Held' = Held,
         fault => fault', pc' \in {"receive", "discard", "deliver"} => pc \in {"receive", "discard", "deliver"} \/ ~fault,
         stamp' \in {stamp, "after"}, profiled' \in {profiled, audit.active}
  PROVE  Books'
<1> SUFFICES ASSUME audit.active PROVE Books'
  BY DEF Books
<1>1. PICK p \in 0 .. Len(queue) : Splits(p) /\ Balance(Len(queue) - p + Held)
  BY DEF Books
<1>2. Splits(p)' /\ Balance(Len(queue) - p + Held)'
  BY <1>1 DEF Splits, Balance, AfterEpoch
<1>3. \E q \in 0 .. Len(queue) : Splits(q)' /\ Balance(Len(queue) - q + Held)'
  BY <1>2
<1>4. (stamp = "before")' => stamp = "before"
  OBVIOUS
<1>5. (audit.samples > 0)' => profiled'
  BY DEF Books
<1>6. (~fault \/ pc \in {"receive", "discard", "deliver"})' => ~fault \/ pc \in {"receive", "discard", "deliver"}
  OBVIOUS
<1> QED BY <1>3, <1>4, <1>5, <1>6 DEF Books, AfterEpoch

LEMMA CaptureBooks ==
  ASSUME TypedAcquisition, SamplesInv, PhaseInv, AuditTyped, OnlyRun, Books, PollGyro, UNCHANGED started
  PROVE  Books'
<1> DEFINE n == Len(queue)
           L == Ahead(latest, cutoff)
           new == Inc(latest)
<1>1. /\ Capture /\ audit' = Sampled(audit) /\ stamp' = "after" /\ profiled' = audit.active
      /\ lastBefore' = IF stamp = "before" THEN new ELSE lastBefore
  BY DEF PollGyro, PollReads, PollEnds, Profiled
<1> SUFFICES ASSUME audit.active PROVE Books'
  BY <1>1, SampledIs DEF Books
<1>2. /\ sequential /\ AllOfRun /\ n \in Nat /\ n <= QueueLen
      /\ latest \in SeqNums /\ cutoff \in SeqNums /\ new \in SeqNums /\ lastBefore \in SeqNums
      /\ latest' = new /\ audit \in Audits
      /\ UNCHANGED <<sequential, cutoff, pc, next, lastLive>>
  <2>1. sequential /\ AllOfRun
    BY DEF PhaseInv, OnlyRun
  <2>2. /\ n \in Nat /\ n <= QueueLen /\ latest \in SeqNums /\ cutoff \in SeqNums
        /\ lastBefore \in SeqNums /\ audit \in Audits
    BY DEF TypedAcquisition, TypeOK, AuditTyped
  <2> QED BY <1>1, <2>1, <2>2, Captured
<1>3. ~(Full /\ ~Overflows)
  <2> SUFFICES ASSUME Full PROVE Accepts(Head(queue))
    BY <1>2 DEF Overflows
  <2>1. n >= 1 /\ Head(queue) = queue[1] /\ queue[1] \in SeqNums
    BY <1>2, Reach DEF Full, TypedAcquisition, TypeOK
  <2>2. OfRun(queue[1])
    BY <1>2, <2>1 DEF AllOfRun
  <2> QED BY <1>2, <2>1, <2>2, OfRunAccepted DEF SamplesInv, TypedAcquisition
<1>4. /\ Ahead(new, cutoff) = L + 1 /\ L \in Nat /\ L + 1 < H
  <2>1. Ahead(new, cutoff) = L + 1 /\ InReach'
    BY <1>1, <1>2, CaptureDue DEF SamplesInv
  <2>2. L \in Nat
    BY <1>2, DueIs DEF SamplesInv, TypedAcquisition
  <2> QED BY <1>2, <2>1, <2>2 DEF InReach
<1>5. Overflows \/ (n < QueueLen /\ Len(queue') = n + 1 /\ queue'[n + 1] = new
                      /\ \A i \in 1 .. n : queue'[i] = queue[i])
  BY <1>1, <1>2, <1>3, Captured, Reach DEF Full
<1>6. PICK p \in 0 .. n : Splits(p) /\ Balance(n - p + Held)
  BY DEF Books
<1> DEFINE k == IF Overflows THEN audit.drops + 1 ELSE audit.drops
           m == IF stamp = "before" THEN audit.samples ELSE audit.samples + 1
<1>7. /\ audit'.active /\ audit'.delivered = audit.delivered /\ audit'.gaps = audit.gaps
      /\ audit'.last = audit.last /\ audit'.samples = m /\ audit'.drops = k
  BY <1>1, SampledIs
<1>8. audit'.drops > 0 => fault'
  BY <1>1, <1>2, <1>7, Captured DEF Books, Capture, Publish
<1>9. Ahead(lastLive, cutoff) <= L /\ lastLive \in SeqNums /\ Ahead(lastBefore, cutoff) <= L
  BY <1>2 DEF SamplesInv, InReach, TypedAcquisition, TypeOK, Books
<1>10. (~fault \/ pc \in {"receive", "discard", "deliver"})' => ~fault \/ pc \in {"receive", "discard", "deliver"}
  BY <1>1, <1>2 DEF Capture, Publish
<1>11. queue' = queue \/ ~Overflows
  BY <1>1, Captured
<1>12. CASE stamp = "before"
  <2>1. lastBefore = latest /\ audit.drops = 0 /\ lastBefore' = new
    BY <1>1, <1>12 DEF Books
  <2>2. \A s \in SeqNums : Ahead(s, cutoff) <= L => ~AfterEpoch(s) /\ ~After(s, new)
    <3> SUFFICES ASSUME NEW s \in SeqNums, Ahead(s, cutoff) <= L
                 PROVE  ~AfterEpoch(s) /\ ~After(s, new)
      OBVIOUS
    <3>1. ~After(s, latest)
      BY <1>2, NothingAfter DEF SamplesInv
    <3>2. Ahead(s, cutoff) \in SeqNums
      BY <1>2, AheadIs
    <3>3. Ahead(s, cutoff) <= L + 1 /\ ~(Ahead(s, cutoff) > L + 1)
      <4> HIDE DEF L
      <4> QED BY <1>4, <3>2, Reach DEF SeqNums
    <3>4. After(s, new) <=> Ahead(s, cutoff) > Ahead(new, cutoff)
      <4> HIDE DEF L
      <4> QED BY <1>2, <1>4, <3>3, EpochSplits
    <3> QED BY <1>4, <2>1, <3>1, <3>3, <3>4 DEF AfterEpoch
  <2>3. \A i \in 1 .. n : ~AfterEpoch(queue[i]) /\ ~After(queue[i], new)
    BY <1>2, <2>2 DEF AllOfRun, OfRun, TypedAcquisition, TypeOK
  <2>4. Holding => ~AfterEpoch(next) /\ ~After(next, new)
    BY <1>2, <2>2 DEF AllOfRun, OfRun, TypedAcquisition, TypeOK
  <2>5. p = n /\ Held = 0
    <3>1. Held = 0
      BY <2>4 DEF Held
    <3>2. p # n => p + 1 \in 1 .. n /\ p + 1 > p
      BY <1>2
    <3> QED BY <1>6, <2>3, <3>1, <3>2 DEF Splits
  <2>6. audit.samples - audit.delivered = 0
    BY <1>2, <1>6, <2>1, <2>5 DEF Balance, Audits
  <2>7. ~After(new, new)
    BY <1>2, AheadOfSelf DEF After
  <2>8. Held' = 0 /\ \A i \in 1 .. Len(queue') : ~AfterEpoch(queue[i])'
    <3>1. Held' = 0
      BY <1>2, <2>1, <2>4 DEF Held, Holding, AfterEpoch
    <3>2. \A i \in 1 .. Len(queue') : queue'[i] = new \/ (i \in 1 .. n /\ queue'[i] = queue[i])
      BY <1>2, <1>5, <1>11
    <3> QED BY <2>1, <2>3, <2>7, <3>1, <3>2 DEF AfterEpoch
  <2>9. Splits(Len(queue))' /\ Len(queue') \in 0 .. Len(queue')
    BY <1>2, <1>5, <1>11, <2>8 DEF Splits
  <2>10. Balance(Len(queue) - Len(queue) + Held)'
    <3>1. (audit.samples - audit.delivered - (Len(queue) - Len(queue) + Held))' = 0
      BY <1>2, <1>5, <1>7, <1>11, <1>12, <2>6, <2>8 DEF Audits
    <3>2. audit'.drops \in {0, 1}
      BY <1>7, <2>1
    <3> QED BY <3>1, <3>2 DEF Balance
  <2>11. ~AfterEpoch(lastLive)
    BY <1>9, <2>2
  <2>12. Ahead(lastBefore, cutoff)' <= Ahead(latest, cutoff)'
    BY <1>2, <1>4, <2>1
  <2>13. (audit.last # NoDelivery /\ (~fault \/ pc \in {"receive", "discard", "deliver"}))' => FALSE
    BY <1>7, <1>10, <2>11 DEF Books
  <2> QED BY <1>1, <1>7, <1>8, <2>9, <2>10, <2>12, <2>13 DEF Books
<1>13. CASE stamp # "before"
  <2>1. lastBefore' = lastBefore /\ audit'.samples = audit.samples + 1
    BY <1>1, <1>7, <1>13
  <2>2. Held' = Held
    BY <1>2, <2>1 DEF Held, Holding, AfterEpoch
  <2>3. Ahead(lastBefore, cutoff)' <= Ahead(latest, cutoff)'
    <3>1. Ahead(lastBefore, cutoff) \in SeqNums
      BY <1>2, AheadIs
    <3> HIDE DEF L
    <3> QED BY <1>2, <1>4, <1>9, <2>1, <3>1, Reach DEF SeqNums
  <2>4. AfterEpoch(new)
    <3>1. Ahead(lastBefore, cutoff) \in SeqNums
      BY <1>2, AheadIs
    <3>2. Ahead(lastBefore, cutoff) <= L + 1 /\ L + 1 > Ahead(lastBefore, cutoff) /\ L + 1 <= L + 1
      <4> HIDE DEF L
      <4> QED BY <1>4, <1>9, <3>1, Reach DEF SeqNums
    <3>3. After(new, lastBefore) <=> Ahead(new, cutoff) > Ahead(lastBefore, cutoff)
      <4> HIDE DEF L
      <4> QED BY <1>2, <1>4, <3>2, EpochSplits
    <3> QED BY <1>4, <3>2, <3>3 DEF AfterEpoch
  <2>5. p \in 0 .. Len(queue') /\ Splits(p)'
    BY <1>2, <1>5, <1>6, <1>11, <2>1, <2>2, <2>4 DEF Splits, AfterEpoch
  <2>6. Balance(Len(queue) - p + Held)'
    <3>1. Held \in {0, 1}
      BY DEF Held
    <3>2. /\ audit.samples \in Int /\ audit.delivered \in Int /\ audit.drops \in Int
      BY <1>2 DEF Audits
    <3> DEFINE lost == audit.samples - audit.delivered - (n - p + Held)
               lostNext == (audit.samples - audit.delivered - (Len(queue) - p + Held))'
    <3>3. lost >= 0 /\ audit.drops - lost \in {0, 1}
      BY <1>6 DEF Balance
    <3>4. CASE Overflows
      <4>1. lostNext = lost + 1 /\ audit'.drops = audit.drops + 1
        BY <1>2, <1>7, <1>11, <2>1, <2>2, <3>1, <3>2, <3>4
      <4>2. lostNext >= 0 /\ audit'.drops - lostNext \in {0, 1}
        <5>1. lost \in Int
          BY <1>2, <3>1, <3>2
        <5> HIDE DEF lost, lostNext
        <5> QED BY <3>2, <3>3, <4>1, <5>1
      <4> QED BY <4>2 DEF Balance
    <3>5. CASE ~Overflows
      <4>1. lostNext = lost /\ audit'.drops = audit.drops
        <5>1. audit'.samples = audit.samples + 1 /\ audit'.delivered = audit.delivered
              /\ Len(queue') = n + 1 /\ Held' = Held
          BY <1>5, <1>7, <2>1, <2>2, <3>5
        <5>2. lostNext = (audit.samples + 1) - audit.delivered - ((n + 1) - p + Held)
          BY <5>1
        <5>3. n \in Int /\ p \in Int /\ Held \in Int
          BY <1>2, <3>1
        <5>4. lostNext = lost
          <6> HIDE DEF n, lostNext
          <6> QED BY <3>2, <5>2, <5>3
        <5> QED BY <1>7, <3>5, <5>4
      <4>2. lostNext >= 0 /\ audit'.drops - lostNext \in {0, 1}
        <5> HIDE DEF lost, lostNext
        <5> QED BY <3>3, <4>1
      <4> QED BY <4>2 DEF Balance
    <3> QED BY <3>4, <3>5
  <2>7. (audit.last # NoDelivery /\ (~fault \/ pc \in {"receive", "discard", "deliver"}))' =>
          audit'.last = lastLive' /\ AfterEpoch(lastLive)'
    BY <1>2, <1>7, <1>10, <2>1 DEF Books, AfterEpoch
  <2>8. audit'.gaps = 0
    BY <1>7 DEF Books
  <2> QED BY <1>1, <1>7, <1>8, <2>3, <2>5, <2>6, <2>7, <2>8 DEF Books
<1> QED BY <1>12, <1>13

(* A measurement begins with all that is of the run before its epoch. *)
LEMMA ContextBooks ==
  ASSUME TypedAcquisition, SamplesInv, PhaseInv, AuditTyped, OnlyRun, Books, ContextAudit
  PROVE  Books'
<1>1. /\ pc = "context" /\ pc' = "begin"
      /\ UNCHANGED <<latest, queue, fault>> /\ Held = 0 /\ Held' = 0
  BY AuditBegins DEF Held, Holding
<1>2. measuring \in BOOLEAN /\ audit.active \in BOOLEAN
  BY DEF measuring, AuditTyped, Audits
<1>3. measuring \/ audit.active => sequential
  BY DEF PhaseInv, measuring
<1>4. CASE measuring = audit.active
  <2>1. UNCHANGED <<audit, lastBefore, stamp, profiled>>
    BY <1>4, AuditBegins
  <2> SUFFICES ASSUME audit.active PROVE Books'
    BY <2>1 DEF Books
  <2>2. UNCHANGED <<cutoff, lastLive>>
    BY <1>3, AuditBegins
  <2> QED BY <1>1, <2>1, <2>2, SameBooks
<1>5. CASE measuring # audit.active
  <2> SUFFICES ASSUME measuring PROVE Books'
    BY <1>5, AuditBegins DEF Books
  <2>1. /\ audit' = [active |-> TRUE, samples |-> 0, delivered |-> 0, drops |-> 0, gaps |-> 0, last |-> NoDelivery]
        /\ lastBefore' = latest /\ UNCHANGED <<cutoff, lastLive>> /\ sequential /\ AllOfRun
    BY <1>2, <1>3, <1>5, AuditBegins DEF OnlyRun
  <2>2. \A i \in 1 .. Len(queue) : ~After(queue[i], latest)
    BY <2>1, NothingAfter DEF AllOfRun, OfRun, SamplesInv, TypedAcquisition, TypeOK
  <2>3. Splits(Len(queue))' /\ Len(queue') \in 0 .. Len(queue')
    BY <1>1, <2>1, <2>2 DEF Splits, AfterEpoch, TypedAcquisition, TypeOK
  <2>4. Balance(Len(queue) - Len(queue) + Held)'
    <3>1. Len(queue') - Len(queue') + Held' = 0
      BY <1>1 DEF TypedAcquisition, TypeOK
    <3> QED BY <2>1, <3>1 DEF Balance
  <2>5. Ahead(lastBefore, cutoff)' <= Ahead(latest, cutoff)'
    <3>1. Ahead(latest, cutoff) \in Int
      BY AheadIs, Reach DEF TypedAcquisition, TypeOK, SeqNums
    <3> QED BY <1>1, <2>1, <3>1
  <2> QED BY <1>1, <2>1, <2>3, <2>4, <2>5 DEF Books
<1> QED BY <1>2, <1>4, <1>5

(* update() takes a sample: it holds what was the first in the queue. *)
LEMMA TakeBooks ==
  ASSUME TypedAcquisition, SamplesInv, PhaseInv, AuditTyped, OnlyRun, Books, UpdateQuiet,
         UpdateReceive, audit.active
  PROVE  Books'
<1> DEFINE n == Len(queue)
<1>1. /\ pc = "receive" /\ pc' = "discard" /\ Held = 0
      /\ UNCHANGED <<audit, lastBefore, latest, cutoff, lastLive, fault, stamp, profiled>>
  <2>1. sequential /\ pc = "receive"
    BY DEF PhaseInv, UpdateReceive, At
  <2> QED BY <2>1, AuditOfUpdate
      DEF UpdateQuiet, auditVars, UpdateReceive, GoTo, Held, Holding, historyVars
<1>2. /\ Len(queue') = n - 1 /\ n \in Nat \ {0} /\ next' = queue[1]
      /\ \A i \in 1 .. n - 1 : queue'[i] = queue[i + 1]
  BY Taken DEF UpdateReceive
<1>3. PICK p \in 0 .. n : Splits(p) /\ Balance(n - p + Held)
  BY DEF Books
<1>4. AfterEpoch(queue[1]) <=> p = 0
  BY <1>2, <1>3 DEF Splits
<1>5. Held' = IF p = 0 THEN 1 ELSE 0
  BY <1>1, <1>2, <1>4 DEF Held, Holding, AfterEpoch
<1>6. \E q \in 0 .. Len(queue') : Splits(q)' /\ Len(queue') - q + Held' = n - p + Held
  <2>1. \A i \in 1 .. n - 1 : i + 1 \in 1 .. n /\ (AfterEpoch(queue[i])' <=> i + 1 > p)
    BY <1>1, <1>2, <1>3 DEF Splits, AfterEpoch
  <2>2. CASE p = 0
    <3>1. Splits(0)'
      BY <1>2, <1>5, <2>1, <2>2 DEF Splits
    <3>2. 0 \in 0 .. Len(queue') /\ Len(queue') - 0 + Held' = n - p + Held
      BY <1>1, <1>2, <1>5, <2>2
    <3> QED BY <3>1, <3>2
  <2>3. CASE p # 0
    <3>1. \A i \in 1 .. n - 1 : i > p - 1 <=> i + 1 > p
      BY <1>2, <1>3
    <3>2. Splits(p - 1)'
      BY <1>2, <1>5, <2>1, <2>3, <3>1 DEF Splits
    <3>3. p - 1 \in 0 .. Len(queue') /\ Len(queue') - (p - 1) + Held' = n - p + Held
      BY <1>1, <1>2, <1>3, <1>5, <2>3
    <3> QED BY <3>2, <3>3
  <2> QED BY <2>2, <2>3
<1>7. \E q \in 0 .. Len(queue') : Splits(q)' /\ Balance(Len(queue) - q + Held)'
  <2>1. PICK q \in 0 .. Len(queue') : Splits(q)' /\ Len(queue') - q + Held' = n - p + Held
    BY <1>6
  <2>2. Balance(Len(queue) - q + Held)'
    BY <1>1, <1>3, <2>1 DEF Balance
  <2> QED BY <2>1, <2>2
<1> QED BY <1>1, <1>7 DEF Books, AfterEpoch

(* The delivery of the sample that update() holds. *)
LEMMA DeliverBooks ==
  ASSUME TypedAcquisition, SamplesInv, PhaseInv, AuditTyped, OnlyRun, Books, DeliverAudit, audit.active
  PROVE  Books'
<1> DEFINE n == Len(queue)
           d == Delivered(audit, next)
<1>1. /\ audit' = d /\ audit'.active /\ pc = "deliver" /\ pc' = "health" /\ sequential /\ Held' = 0
      /\ UNCHANGED <<stamp, lastBefore, profiled, latest, cutoff, queue>> /\ (fault => fault')
      /\ fault' = TRUE \/ (fault' = fault /\ lastLive' = next)
  <2>1. UNCHANGED <<stamp, lastBefore, profiled, latest, cutoff>> /\ audit'.active
    BY AuditOfUpdate
  <2>2. sequential
    BY DEF PhaseInv
  <2>3. /\ pc = "deliver" /\ pc' = "health" /\ (fault => fault') /\ queue' = queue /\ Held' = 0
        /\ fault' = TRUE \/ (fault' = fault /\ lastLive' = next)
    BY <2>2 DEF DeliverAudit, UpdateLate, UpdateDeliver, Done, GoTo, At, readerVars, Held, Holding
  <2> QED BY <2>1, <2>2, <2>3 DEF DeliverAudit
<1>2. /\ next \in SeqNums /\ lastLive \in SeqNums /\ lastBefore \in SeqNums /\ cutoff \in SeqNums
      /\ latest \in SeqNums /\ n \in Nat /\ audit \in Audits
  BY DEF TypedAcquisition, TypeOK, AuditTyped
<1>3. /\ next = Inc(lastLive) /\ latest # lastLive
  BY <1>1 DEF SamplesInv, HeldInv, NextIsDue
<1> DEFINE D == Ahead(lastLive, cutoff)
           B == Ahead(lastBefore, cutoff)
           L == Ahead(latest, cutoff)
<1>4. Ahead(next, cutoff) = D + 1 /\ D < L /\ B <= L /\ L < H /\ D \in Nat /\ B \in Nat /\ L \in Nat
  <2>1. B \in Nat
    BY <1>2, AheadIs DEF SeqNums
  <2> QED BY <1>1, <1>2, <1>3, <2>1, DueAccepted, DueIs DEF SamplesInv, InReach, Books, TypedAcquisition
<1>5. AfterEpoch(next) <=> D + 1 > B
  <2>1. D + 1 <= L
    <3> HIDE DEF D, L
    <3> QED BY <1>4
  <2> HIDE DEF D, L, B
  <2>2. After(next, lastBefore) <=> Ahead(next, cutoff) > Ahead(lastBefore, cutoff)
    BY <1>2, <1>4, <2>1, EpochSplits DEF L, D, B
  <2> QED BY <1>4, <2>2 DEF AfterEpoch, B
<1>6. AfterEpoch(lastLive) <=> D > B
  <2>1. D <= L
    <3> HIDE DEF D, L
    <3> QED BY <1>4
  <2> HIDE DEF D, L, B
  <2>2. After(lastLive, lastBefore) <=> Ahead(lastLive, cutoff) > Ahead(lastBefore, cutoff)
    BY <1>2, <1>4, <2>1, EpochSplits DEF L, D, B
  <2> QED BY <2>2 DEF AfterEpoch, B, D
<1>7. Ahead(next, lastLive) = 1
  <2>1. Ahead(lastLive, lastLive) = 0 /\ 0 # SeqMod - 1
    BY <1>2, AheadOfSelf, Reach
  <2>2. Ahead(Inc(lastLive), lastLive) = 0 + 1
    BY <1>2, <2>1, AheadOfInc
  <2> QED BY <1>3, <2>2
<1>8. audit.last # NoDelivery => audit.last = lastLive /\ AfterEpoch(lastLive)
  BY <1>1 DEF Books
<1>9. PICK p \in 0 .. n : Splits(p) /\ Balance(n - p + Held)
  BY DEF Books
<1>10. d.samples = audit.samples /\ d.drops = audit.drops
  BY <1>2, DeliveredIs
<1>11. Splits(p)'
  BY <1>1, <1>9 DEF Splits, AfterEpoch
<1>12. Ahead(lastBefore, cutoff)' <= Ahead(latest, cutoff)'
  BY <1>1, <1>4
<1>13. (stamp = "before")' => (lastBefore = latest /\ audit.drops = 0)'
  BY <1>1, <1>10 DEF Books
<1>14. /\ (audit.drops > 0)' => fault'
       /\ (audit.samples > 0)' => profiled'
  BY <1>1, <1>10 DEF Books
<1>15. CASE AfterEpoch(next)
  <2>1. d.delivered = audit.delivered + 1 /\ d.last = next /\ d.gaps = 0
    <3>1. audit.last = NoDelivery \/ Ahead(next, audit.last) <= 1
      BY <1>7, <1>8
    <3> QED BY <1>2, <1>15, <3>1, DeliveredIs DEF Books
  <2>2. Held = 1
    BY <1>1, <1>15 DEF Held, Holding
  <2>3. Balance(Len(queue) - p + Held)'
    <3>1. audit.samples - (audit.delivered + 1) - (n - p + 0) = audit.samples - audit.delivered - (n - p + 1)
      BY <1>2, <1>9 DEF Audits
    <3>2. (audit.samples - audit.delivered - (Len(queue) - p + Held))' =
            audit.samples - audit.delivered - (n - p + Held)
      BY <1>1, <1>10, <2>1, <2>2, <3>1
    <3> QED BY <1>1, <1>9, <1>10, <3>2 DEF Balance
  <2>4. (audit.last # NoDelivery /\ (~fault \/ pc \in {"receive", "discard", "deliver"}))' =>
          (audit.last = lastLive /\ AfterEpoch(lastLive))'
    BY <1>1, <1>15, <2>1 DEF AfterEpoch
  <2> QED BY <1>1, <1>9, <1>11, <1>12, <1>13, <1>14, <2>1, <2>3, <2>4 DEF Books
<1>16. CASE ~AfterEpoch(next)
  <2>1. d = audit /\ Held = 0
    BY <1>2, <1>16, DeliveredIs DEF Held
  <2>2. Balance(Len(queue) - p + Held)'
    BY <1>1, <1>9, <2>1 DEF Balance
  <2>3. audit.last = NoDelivery
    <3>1. ~(D > B)
      <4> HIDE DEF D, B
      <4> QED BY <1>4, <1>5, <1>16
    <3> QED BY <1>6, <1>8, <3>1
  <2> QED BY <1>1, <1>9, <1>11, <1>12, <1>13, <1>14, <2>1, <2>2, <2>3 DEF Books
<1> QED BY <1>15, <1>16

LEMMA OwnerBooks ==
  ASSUME TypedAcquisition, SamplesInv, PhaseInv, AuditTyped, OnlyRun, Books, Owner
  PROVE  Books'
<1>1. CASE ContextAudit
  BY <1>1, ContextBooks
<1>2. CASE DeliverAudit
  <2>1. ~audit.active => Books'
    BY <1>2, AuditOfUpdate DEF Books
  <2> QED BY <1>2, <2>1, DeliverBooks
<1>3. CASE UpdateQuiet
  <2>1. UNCHANGED <<audit, lastBefore, latest, cutoff, stamp, profiled>>
    BY <1>3, AuditOfUpdate DEF UpdateQuiet, auditVars
  <2> SUFFICES ASSUME audit.active PROVE Books'
    BY <2>1 DEF Books
  <2>2. sequential /\ AllOfRun
    BY DEF PhaseInv, OnlyRun
  <2>3. CASE UpdateReceive
    BY <1>3, <2>3, TakeBooks
  <2>4. CASE UpdateDrain
    BY <2>2, <2>4 DEF UpdateDrain, At, SamplesInv, HeldInv
  <2>5. CASE UpdateBegin \/ UpdateTimeout
    <3>1. /\ UNCHANGED <<queue, fault, lastLive>> /\ Held = 0 /\ Held' = 0
          /\ pc' = "health" \/ (pc' = "receive" /\ ~fault)
      BY <2>5 DEF UpdateBegin, UpdateTimeout, Done, GoTo, At, readerVars, Held, Holding
    <3> QED BY <2>1, <3>1, SameBooks
  <2>6. CASE UpdateDiscard
    <3>1. Accepts(next)
      BY <2>2, <2>6, OfRunAccepted
      DEF UpdateDiscard, At, AllOfRun, Holding, SamplesInv, TypedAcquisition, TypeOK
    <3>2. /\ UNCHANGED <<queue, fault, lastLive, next>> /\ pc = "discard" /\ pc' = "deliver"
      BY <2>6, <3>1 DEF UpdateDiscard, At, GoTo
    <3>3. Held' = Held
      BY <2>1, <3>2 DEF Held, Holding, AfterEpoch
    <3> QED BY <2>1, <3>2, <3>3, SameBooks
  <2> QED BY <1>3, <2>3, <2>4, <2>5, <2>6 DEF UpdateQuiet
<1>4. CASE RunnerPhase
  <2>1. /\ UNCHANGED <<audit, lastBefore, latest, queue, cutoff, lastLive, fault, stamp, profiled>>
        /\ Held = 0 /\ Held' = 0 /\ pc' \in {"runner", "context"}
    BY <1>4 DEF RunnerPhase, CheckHealth, Runner, readerVars, contextVars, historyVars, auditVars, sensorVars,
                At, GoTo, Held, Holding
  <2> QED BY <2>1, SameBooks
<1> QED BY <1>1, <1>2, <1>3, <1>4 DEF Owner

LEMMA PollBooks ==
  ASSUME TypedAcquisition, SamplesInv, PhaseInv, AuditTyped, OnlyRun, Books, Poll \/ Silent, UNCHANGED started
  PROVE  Books'
<1>1. CASE SensorSample \/ PollStatus \/ PollFails \/ PollAccel \/ PollNonfinite \/ Silent
  <2>1. /\ UNCHANGED <<audit, lastBefore, latest, queue, cutoff, lastLive, pc, next>>
        /\ fault' \in {fault, TRUE} /\ stamp' \in {stamp, "after"} /\ profiled' \in {profiled, audit.active}
    BY <1>1, PollAudit DEF contextVars, consumerVars, historyVars
  <2>2. Held' = Held
    BY <2>1 DEF Held, Holding, AfterEpoch
  <2>3. fault' = fault \/ fault' = TRUE
    BY <2>1
  <2>4. fault => fault'
    BY <2>3
  <2> QED BY <2>1, <2>2, <2>4, SameBooks
<1>2. CASE PollGyro
  BY <1>2, CaptureBooks
<1> QED BY <1>1, <1>2 DEF Poll

LEMMA OwnerAuditTyped ==
  ASSUME TypedAcquisition, AuditTyped, Owner
  PROVE  AuditTyped'
<1>1. CASE ContextAudit
  <2>1. measuring \in BOOLEAN /\ audit.active \in BOOLEAN /\ latest \in SeqNums /\ 0 \in SeqNums
    BY Reach DEF measuring, AuditTyped, Audits, TypedAcquisition, TypeOK, SeqNums
  <2>2. CASE measuring = audit.active
    BY <1>1, <2>2, AuditBegins DEF AuditTyped
  <2>3. CASE measuring # audit.active
    BY <1>1, <2>1, <2>3, AuditBegins DEF AuditTyped, Audits, NoDelivery
  <2> QED BY <2>2, <2>3
<1>2. CASE UpdateQuiet \/ DeliverAudit
  <2>1. next \in SeqNums
    BY DEF TypedAcquisition, TypeOK
  <2> QED BY <1>2, <2>1, AuditOfUpdate, DeliveredIs DEF AuditTyped
<1>3. CASE RunnerPhase
  BY <1>3 DEF RunnerPhase, auditVars, sensorVars, AuditTyped
<1> QED BY <1>1, <1>2, <1>3 DEF Owner

(* Before begin() is over nothing is measured. *)
LEMMA SameAudit ==
  ASSUME AuditInv, ~audit.active, phase = "idle",
         UNCHANGED <<audit, lastBefore, stamp, profiled, phase, running, sequential, pc, swept>>
  PROVE  AuditInv'
<1>1. ~measuring' /\ ~running'
  BY DEF measuring, AuditInv, PhaseInv
<1>2. ~audit'.active
  OBVIOUS
<1>3. OnlyRun' /\ Books'
  BY <1>1, <1>2 DEF OnlyRun, Books
<1>4. AuditTyped' /\ PhaseInv'
  BY DEF AuditInv, AuditTyped, PhaseInv
<1> QED BY <1>3, <1>4 DEF AuditInv

LEMMA NextAudit ==
  RunInv /\ AuditInv /\ [StartupNext]_allVars => AuditInv'
<1> SUFFICES ASSUME RunInv, AuditInv, [StartupNext]_allVars
             PROVE  AuditInv'
  OBVIOUS
<1>1. TypedAcquisition /\ SamplesInv /\ StartedLast
  BY DEF RunInv, TInv, StartInv
<1>2. CASE Begin
  <2>1. stage # "up"
    BY <1>2 DEF Begin, SensorFails, SensorAnswers, WarmUp, WarmTimeout, MakeQueue, MakeTimer, MakeTask,
                StartTimer, NoteStart, Stage
  <2>2. ~running /\ ~sequential
    BY <1>1, <2>1 DEF StartedLast, SamplesInv, InReach
  <2>3. ~audit.active /\ phase = "idle"
    BY <2>2 DEF AuditInv, PhaseInv
  <2>4. UNCHANGED <<audit, lastBefore, stamp, profiled, phase, running, sequential, pc, swept>>
    BY <1>2 DEF Begin, SensorFails, SensorAnswers, WarmUp, WarmTimeout, MakeQueue, MakeTimer, MakeTask,
                StartTimer, NoteStart, OnlyStartup, readerAllVars, vars, contextVars, consumerVars,
                historyVars, sensorVars, auditVars
  <2> QED BY <2>3, <2>4, SameAudit
<1>3. CASE (Poll \/ Silent) /\ UNCHANGED startupVars
  <2>1. UNCHANGED started
    BY <1>1, <1>3, RunNeedsStart
  <2>2. AuditTyped' /\ UNCHANGED <<phase, sequential, pc, running, swept>> /\ audit'.active = audit.active
    BY <1>1, <1>3, PollTellsAudit DEF AuditInv
  <2>3. PhaseInv'
    BY <2>2 DEF AuditInv, PhaseInv
  <2> QED BY <1>1, <1>3, <2>1, <2>2, <2>3, PollOnlyRun, PollBooks DEF AuditInv
<1>4. CASE Loop
  <2>1. Owner
    BY <1>4 DEF Loop
  <2> QED BY <1>1, <2>1, OwnerAuditTyped, OwnerPhase, OwnerOnlyRun, OwnerBooks DEF AuditInv
<1>5. CASE UNCHANGED allVars
  <2>1. UNCHANGED <<audit, lastBefore, stamp, profiled, phase>> /\ UNCHANGED <<running, sequential, pc, swept>>
        /\ UNCHANGED <<queue, next, latest, cutoff, lastLive, fault>>
    BY <1>5 DEF allVars, readerAllVars, vars, readerVars, contextVars, consumerVars, historyVars, sensorVars,
                auditVars
  <2>2. AuditTyped' /\ PhaseInv'
    BY <2>1 DEF AuditInv, AuditTyped, PhaseInv
  <2>3. OnlyRun'
    BY <2>1 DEF AuditInv, OnlyRun, measuring, AllOfRun, OfRun, Holding
  <2>4. Held' = Held
    BY <2>1 DEF Held, Holding, AfterEpoch
  <2>5. Books'
    BY <2>1, <2>4, SameBooks DEF AuditInv
  <2> QED BY <2>2, <2>3, <2>5 DEF AuditInv
<1> QED BY <1>2, <1>3, <1>4, <1>5 DEF StartupNext, Loop

LEMMA InitAudit == StartupInit => AuditInv
<1> SUFFICES ASSUME StartupInit PROVE AuditInv
  OBVIOUS
<1>1. audit = NewAudit /\ lastBefore = 0 /\ stamp = "after" /\ profiled = FALSE /\ phase = "idle"
      /\ ~running /\ pc = "context" /\ ~sequential
  BY DEF StartupInit, ReaderInit, Init
<1>2. ~audit.active /\ audit \in Audits /\ lastBefore \in SeqNums
  BY <1>1, Reach DEF NewAudit, Audits, NoDelivery, SeqNums
<1> QED BY <1>1, <1>2 DEF AuditInv, AuditTyped, PhaseInv, OnlyRun, Books, Phases, measuring

(* Of what was captured since the epoch of a measurement, all is delivered, on its
   way or dropped, although the reader and the owner count separately and may preempt
   each other between any two counts: sample, delivery and drop of the audit. *)
THEOREM ReaderAuditCorrect == StartupSpec => []AuditBalances
<1>1. ASSUME RunInv, AuditInv
      PROVE  AuditBalances
  <2> SUFFICES ASSUME audit.active PROVE AuditBalances
    BY DEF AuditBalances
  <2> DEFINE n == Len(queue)
             onTheirWay == {i \in DOMAIN Pipeline : AfterEpoch(Pipeline[i])}
  <2>1. PICK p \in 0 .. n : Splits(p) /\ Balance(n - p + Held)
    BY <1>1 DEF AuditInv, Books
  <2>2. queue \in Seq(SeqNums) /\ n \in Nat /\ next \in SeqNums
    BY <1>1 DEF RunInv, TInv, TypedAcquisition, TypeOK
  <2>3. Cardinality(onTheirWay) = n - p + Held
    <3>1. CASE ~Holding
      <4>1. Pipeline = queue /\ Held = 0
        BY <2>2, <3>1 DEF Pipeline, Held
      <4>2. onTheirWay = p + 1 .. n
        BY <2>1, <2>2, <4>1 DEF Splits
      <4>3. Cardinality(p + 1 .. n) = n - p
        <5>1. p + 1 \in Int /\ n \in Int /\ p <= n
          BY <2>2
        <5>2. Cardinality(p + 1 .. n) = IF p + 1 > n THEN 0 ELSE n - (p + 1) + 1
          BY <5>1, FS_Interval
        <5> QED BY <2>2, <5>1, <5>2
      <4> HIDE DEF onTheirWay
      <4> QED BY <2>2, <4>1, <4>2, <4>3
    <3>2. CASE Holding
      <4>1. /\ DOMAIN Pipeline = 1 .. n + 1 /\ Pipeline[1] = next
            /\ \A i \in 2 .. n + 1 : Pipeline[i] = queue[i - 1] /\ i - 1 \in 1 .. n
        BY <2>2, <3>2 DEF Pipeline
      <4>2. \A i \in 2 .. n + 1 : AfterEpoch(Pipeline[i]) <=> i > p + 1
        <5> SUFFICES ASSUME NEW i \in 2 .. n + 1
                     PROVE  AfterEpoch(Pipeline[i]) <=> i > p + 1
          OBVIOUS
        <5>1. AfterEpoch(queue[i - 1]) <=> i - 1 > p
          BY <2>1, <4>1 DEF Splits
        <5>2. i - 1 > p <=> i > p + 1
          BY <2>1, <2>2
        <5> QED BY <4>1, <5>1, <5>2
      <4>3. CASE AfterEpoch(next)
        <5>1. Held = 1 /\ p = 0
          BY <2>1, <3>2, <4>3 DEF Held, Splits
        <5>2. onTheirWay = 1 .. n + 1
          BY <2>2, <4>1, <4>2, <4>3, <5>1
        <5>3. Cardinality(1 .. n + 1) = n + 1
          BY <2>2, FS_Interval
        <5> HIDE DEF onTheirWay
        <5> QED BY <2>2, <5>1, <5>2, <5>3
      <4>4. CASE ~AfterEpoch(next)
        <5>1. Held = 0
          BY <4>4 DEF Held
        <5>2. onTheirWay = p + 2 .. n + 1
          <6>1. \A i \in 1 .. n + 1 : AfterEpoch(Pipeline[i]) <=> i >= p + 2
            <7> SUFFICES ASSUME NEW i \in 1 .. n + 1
                         PROVE  AfterEpoch(Pipeline[i]) <=> i >= p + 2
              OBVIOUS
            <7>1. CASE i = 1
              BY <2>1, <4>1, <4>4, <7>1
            <7>2. CASE i # 1
              BY <2>1, <2>2, <4>2, <7>2
            <7> QED BY <7>1, <7>2
          <6> QED BY <2>1, <2>2, <4>1, <6>1
        <5>3. Cardinality(p + 2 .. n + 1) = n - p
          <6>1. p + 2 \in Int /\ n + 1 \in Int /\ p <= n
            BY <2>2
          <6>2. Cardinality(p + 2 .. n + 1) = IF p + 2 > n + 1 THEN 0 ELSE (n + 1) - (p + 2) + 1
            BY <6>1, FS_Interval
          <6> QED BY <2>2, <6>1, <6>2
        <5> HIDE DEF onTheirWay
        <5> QED BY <2>2, <5>1, <5>2, <5>3
      <4> QED BY <4>3, <4>4
    <3> QED BY <3>1, <3>2
  <2>4. LET lost == audit.samples - audit.delivered - Cardinality(onTheirWay)
        IN  lost >= 0 /\ audit.drops - lost \in {0, 1}
    <3> HIDE DEF onTheirWay
    <3> QED BY <2>1, <2>3 DEF Balance
  <2> QED BY <1>1, <2>4 DEF AuditBalances, AuditInv, Books
<1>2. RunInv /\ AuditInv /\ [StartupNext]_allVars => AuditInv'
  BY NextAudit
<1> QED BY <1>1, <1>2, InitAudit, RunInvariant, PTL DEF StartupSpec

-----------------------------------------------------------------------------
(* Liveness.  ENABLED and induction over the time of a behaviour are out of the
   provers' reach: what the theorem needs of them are its hypotheses. *)

(* A step of loop(), each of which changes pc or taken, can be taken whenever
   setup() is over. *)
Enabling == Looping => ENABLED <<Loop>>_allVars

(* A natural number that falls again and again also rises again and again. *)
Descent(n) == []<><<n' < n>>_allVars => []<><<n' > n>>_allVars

(* What an update() may still take from the queue. *)
TakesLeft == QueueLen - taken

TroubledRun   == running /\ (fault \/ silent)
TroubledAt(p) == TroubledRun /\ pc = p

Falls == <<TakesLeft' < TakesLeft>>_allVars
Rises == <<TakesLeft' > TakesLeft>>_allVars

(* A pass of the owner's loop comes to its receive; *)
PassMoves ==
  /\ TroubledAt("runner") =>
       (~<<Loop>>_allVars /\ TroubledAt("runner")') \/ TroubledAt("context")' \/ ~TroubledRun'
  /\ TroubledAt("context") =>
       (~<<Loop>>_allVars /\ TroubledAt("context")') \/ TroubledAt("begin")' \/ ~TroubledRun'
  /\ TroubledAt("begin") =>
       \/ ~<<Loop>>_allVars /\ TroubledAt("begin")'
       \/ TroubledAt("receive")' \/ TroubledAt("health")' \/ ~TroubledRun'
  /\ TroubledAt("receive") =>
       \/ ~<<Loop>>_allVars /\ TroubledAt("receive")'
       \/ TroubledAt("discard")' \/ TroubledAt("drain")' \/ TroubledAt("health")' \/ ~TroubledRun'

(* takes samples until one is to be delivered or its budget is spent; *)
TakeMoves ==
  /\ TroubledAt("discard") =>
       \/ ~<<Loop>>_allVars /\ ~Rises /\ TroubledAt("discard")'
       \/ Falls /\ ~Rises /\ TroubledAt("discard")'
       \/ TroubledAt("deliver")' \/ TroubledAt("health")' \/ ~TroubledRun'
  /\ TroubledAt("drain") =>
       \/ ~<<Loop>>_allVars /\ ~Rises /\ TroubledAt("drain")'
       \/ Falls /\ ~Rises /\ TroubledAt("drain")'
       \/ TroubledAt("deliver")' \/ ~TroubledRun'

(* and ends in the check of the acquisition's health, which stops the run. *)
LastMoves ==
  /\ TroubledAt("deliver") =>
       (~<<Loop>>_allVars /\ TroubledAt("deliver")') \/ TroubledAt("health")' \/ ~TroubledRun'
  /\ TroubledAt("health") => (~<<Loop>>_allVars /\ TroubledAt("health")') \/ ~TroubledRun'

(* A run is on only in loop(), where the sensor, the reader's polls and time leave
   the owner where it is. *)
LEMMA OnlyLoopMoves ==
  StartInv /\ [StartupNext]_allVars /\ running => <<Loop>>_allVars \/ UNCHANGED <<pc, taken>>
<1> SUFFICES ASSUME StartInv, [StartupNext]_allVars, running
             PROVE  <<Loop>>_allVars \/ UNCHANGED <<pc, taken>>
  OBVIOUS
<1>1. stage = "up"
  BY DEF StartInv, StartedLast
<1>2. ~Begin
  BY <1>1 DEF Begin, SensorFails, SensorAnswers, WarmUp, WarmTimeout, MakeQueue, MakeTimer,
              MakeTask, StartTimer, NoteStart, Stage
<1>3. CASE Poll \/ Silent
  BY <1>3 DEF Poll, SensorSample, PollStatus, PollFails, PollAccel, PollNonfinite, PollGyro,
              ReaderIdle, Silent, CaptureNonfinite, Capture, Silence, vars, consumerVars
<1> QED
  BY <1>2, <1>3 DEF StartupNext, allVars, readerAllVars, vars, consumerVars

(* The owner goes through these stages in this order. *)
LEMMA LoopMoves ==
  ASSUME TInv, Loop, TroubledRun, TroubledRun', <<Loop>>_allVars
  PROVE  PassMoves /\ TakeMoves /\ LastMoves
<1> USE DEF TroubledAt
<1>1. taken \in Int /\ QueueLen \in Int
  BY ImuAssumption DEF TInv, TypedAcquisition, TypeOK
<1>2. TakesLeft' < TakesLeft => Falls
  BY DEF Falls, Loop
<1>3. taken' = taken + 1 => Falls /\ ~Rises
  BY <1>1, <1>2 DEF TakesLeft, Rises
<1>4. CASE ContextAudit
  BY <1>4 DEF ContextAudit, Context, At, GoTo, PassMoves, TakeMoves, LastMoves
<1>5. CASE UpdateBegin \/ UpdateTimeout \/ UpdateReceive
  BY <1>5 DEF UpdateBegin, UpdateTimeout, UpdateReceive, At, GoTo, Done,
              PassMoves, TakeMoves, LastMoves
<1>6. CASE UpdateDiscard \/ UpdateDrain
  BY <1>3, <1>6 DEF UpdateDiscard, UpdateDrain, At, GoTo, Done, Take,
              PassMoves, TakeMoves, LastMoves
<1>7. CASE DeliverAudit
  BY <1>7 DEF DeliverAudit, UpdateLate, UpdateDeliver, At, GoTo, Done,
              PassMoves, TakeMoves, LastMoves
<1>8. CASE CheckHealth
  <2>1. (running' => ~fault /\ ~silent) /\ fault' = fault /\ silent' = silent
    BY <1>8 DEF CheckHealth, readerVars
  <2> QED
    BY <2>1 DEF TroubledRun
<1>9. CASE Runner
  BY <1>9 DEF Runner, At, GoTo, PassMoves, TakeMoves, LastMoves
<1> QED
  BY <1>4, <1>5, <1>6, <1>7, <1>8, <1>9 DEF Loop, Owner, UpdateQuiet, RunnerPhase

(* Nothing else moves it, and what it may take does not rise before the update ends. *)
LEMMA TroubleMoves ==
  StartInv /\ TInv /\ [StartupNext]_allVars => PassMoves /\ TakeMoves /\ LastMoves
<1> SUFFICES ASSUME StartInv, TInv, [StartupNext]_allVars
             PROVE  PassMoves /\ TakeMoves /\ LastMoves
  OBVIOUS
<1>1. CASE ~TroubledRun \/ ~TroubledRun'
  BY <1>1 DEF TroubledAt, PassMoves, TakeMoves, LastMoves
<1>2. CASE TroubledRun /\ TroubledRun' /\ ~<<Loop>>_allVars
  <2>1. UNCHANGED <<pc, taken>>
    BY <1>2, OnlyLoopMoves DEF TroubledRun
  <2>2. taken \in Int /\ QueueLen \in Int
    BY ImuAssumption DEF TInv, TypedAcquisition, TypeOK
  <2>3. ~Rises
    BY <2>1, <2>2 DEF Rises, TakesLeft
  <2> QED
    BY <1>2, <2>1, <2>3 DEF TroubledAt, PassMoves, TakeMoves, LastMoves
<1>3. CASE TroubledRun /\ TroubledRun' /\ <<Loop>>_allVars
  BY <1>3, LoopMoves
<1> QED
  BY <1>1, <1>2, <1>3

(* A latched fault or a sensor that stays silent ends the run, wherever it met the
   owner in its loop and for every length of the queue, if the steps of loop() are
   enabled as they are said to be and what update() may take does not fall for
   ever. *)
THEOREM TroubleEndsRun == StartupSpec /\ []Enabling /\ Descent(TakesLeft) => TroubleStopsRun
<1> DEFINE Hypotheses == StartupSpec /\ []Enabling /\ Descent(TakesLeft)
<1>1. StartupSpec => [](StartInv /\ TInv)
  BY InitStart, NextStart, InitTyped, NextTyped, PTL DEF StartupSpec
<1>2. StartInv /\ Enabling /\ TroubledRun => ENABLED <<Loop>>_allVars
  BY DEF StartInv, StartedLast, Enabling, TroubledRun, Looping
<1>3. TroubledAt("runner") \/ TroubledAt("context") \/ TroubledAt("begin")
        \/ TroubledAt("receive") \/ TroubledAt("discard") \/ TroubledAt("drain")
        \/ TroubledAt("deliver") \/ TroubledAt("health") => TroubledRun
  BY DEF TroubledAt
<1>4. Hypotheses => (TroubledAt("deliver") \/ TroubledAt("health") ~> ~TroubledRun)
  BY <1>1, <1>2, <1>3, TroubleMoves, PTL DEF StartupSpec, LastMoves
<1>5. Hypotheses => (TroubledAt("discard") \/ TroubledAt("drain") ~> ~TroubledRun)
  BY <1>1, <1>2, <1>3, <1>4, TroubleMoves, PTL
  DEF StartupSpec, Descent, TakeMoves, Falls, Rises
<1>6. Hypotheses =>
        (TroubledAt("runner") \/ TroubledAt("context") \/ TroubledAt("begin")
           \/ TroubledAt("receive") ~> ~TroubledRun)
  BY <1>1, <1>2, <1>3, <1>4, <1>5, TroubleMoves, PTL DEF StartupSpec, PassMoves
<1>7. TInv /\ TroubledRun =>
        \/ TroubledAt("runner") \/ TroubledAt("context") \/ TroubledAt("begin")
        \/ TroubledAt("receive") \/ TroubledAt("discard") \/ TroubledAt("drain")
        \/ TroubledAt("deliver") \/ TroubledAt("health")
  BY DEF TInv, TypedAcquisition, TypeOK, Pcs, TroubledAt
<1>8. TroubledRun <=> running /\ (fault \/ silent)
  BY DEF TroubledRun
<1> QED
  BY <1>1, <1>4, <1>5, <1>6, <1>7, <1>8, PTL DEF TroubleStopsRun
=============================================================================
