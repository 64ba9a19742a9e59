---------------------------- MODULE ImuAcquisition ----------------------------
(***************************************************************************)
(* How IMU samples reach the controller: ImuManager.                        *)
(*                                                                         *)
(* The reader task (priority 6) captures samples and publishes them in a    *)
(* bounded queue; the owner of the controller (priority 2 or 4, same core)  *)
(* consumes them.  While idle only the newest sample matters and old ones   *)
(* are thrown away.  During a run every sample must be delivered, in order, *)
(* beginning at a boundary drawn when the run starts while the queue still  *)
(* holds idle history.  Anything that would break this latches a fault that *)
(* only a reboot clears, and the run is stopped.                            *)
(*                                                                         *)
(* The reader is never preempted by a consumer, so one poll is one step; it *)
(* preempts the consumer anywhere, so each access of the consumer to a      *)
(* shared object is a step.  Sequence numbers wrap modulo SeqMod (2^32).    *)
(***************************************************************************)
EXTENDS Integers, Sequences

CONSTANTS
  QueueLen,  \* kQueueLength
  SeqMod     \* 2^32 in the code: sequence numbers are compared by the sign of
             \* their difference

ASSUME ImuAssumption ==
  /\ QueueLen \in Nat \ {0}
  /\ SeqMod \in Nat /\ SeqMod > 4 * QueueLen /\ SeqMod % 2 = 0

VARIABLES
  latest,      \* latest_capture_sequence_
  queue,       \* sample_queue_: the sequence numbers of its samples
  sequential,  \* sequential_: a run is on, as the consumer last told
  cutoff,      \* boundary_.cutoff
  fault,       \* fault_
  silent,      \* no sample was captured within the staleness limit
  pc,          \* where the consumer is in its loop
  next,        \* the sample update() holds
  taken,       \* samples this update() has taken from the queue
  imuOk,       \* reading_.imu_ok
  running,     \* the runner has a run on
  started,     \* started_: begin() got the reader going
  lastLive,    \* history: latest sample delivered in this run, else its cutoff
  swept        \* history: an update() has completed since the run's boundary

readerVars   == <<latest, queue, fault, silent>>
contextVars  == <<sequential, cutoff>>
consumerVars == <<pc, next, taken, imuOk, running>>
historyVars  == <<lastLive, swept>>
vars == <<readerVars, contextVars, consumerVars, historyVars, started>>

SeqNums == 0 .. SeqMod - 1
Inc(s)  == (s + 1) % SeqMod

(* How far s is ahead of t, as an unsigned difference. *)
Ahead(s, t) == (s - t) % SeqMod

(* The sign of the difference as a signed integer: s lies beyond t. *)
After(s, t) == 0 < Ahead(s, t) /\ Ahead(s, t) < SeqMod \div 2

(* Mutant: sequence numbers compared without their wrap. *)
AcceptsLarger(s) == s > cutoff

(* boundary_.accepts: the sample was captured in this run. *)
Accepts(s) == After(s, cutoff)

Pcs == {"context", "begin", "receive", "discard", "drain", "deliver", "health", "runner"}

TypeOK ==
  /\ latest \in SeqNums /\ cutoff \in SeqNums /\ next \in SeqNums /\ lastLive \in SeqNums
  /\ queue \in Seq(SeqNums) /\ Len(queue) <= QueueLen
  /\ sequential \in BOOLEAN /\ fault \in BOOLEAN /\ silent \in BOOLEAN
  /\ pc \in Pcs
  /\ taken \in 0 .. QueueLen
  /\ imuOk \in BOOLEAN /\ running \in BOOLEAN /\ started \in BOOLEAN /\ swept \in BOOLEAN

(* After begin().  If it succeeded the sensor streamed valid samples, which were
   counted but not queued, and the last of them is the first reading. *)
Init ==
  /\ started \in BOOLEAN
  /\ latest \in SeqNums
  /\ queue = <<>> /\ fault = FALSE /\ silent = FALSE
  /\ sequential = FALSE /\ cutoff = 0
  /\ pc = "context" /\ next = 0 /\ taken = 0 /\ running = FALSE
  /\ imuOk \in BOOLEAN /\ (started => imuOk)
  /\ lastLive = 0 /\ swept = FALSE

-----------------------------------------------------------------------------
(* The reader task. *)

(* The run is short enough for the comparison of sequence numbers (bound). *)
RunFits == sequential => Ahead(latest, cutoff) < SeqMod \div 2 - 1

(* A full queue in a run gives up one sample of the idle history, if its oldest
   is one, and otherwise refuses the new sample and latches the fault.  A full
   queue while idle gives up its oldest sample. *)
Full      == Len(queue) = QueueLen
Overflows == Full /\ sequential /\ Accepts(Head(queue))

Publish(s) ==
  /\ queue' = IF Overflows THEN queue
              ELSE Append(IF Full THEN Tail(queue) ELSE queue, s)
  /\ fault' = (fault \/ Overflows)

Capture ==
  /\ RunFits
  /\ latest' = Inc(latest)
  /\ Publish(Inc(latest))
  /\ silent' = FALSE
  /\ UNCHANGED <<contextVars, consumerVars, historyVars>>

(* A sample that is not finite is neither counted nor published.  Until begin()
   has noted its start it is only passed over. *)
CaptureNonfinite ==
  /\ fault' = (fault \/ started)
  /\ UNCHANGED <<latest, queue, silent, contextVars, consumerVars, historyVars>>

(* The sensor delivers nothing for longer than the staleness limit. *)
Silence ==
  /\ silent' = TRUE
  /\ UNCHANGED <<latest, queue, fault, contextVars, consumerVars, historyVars>>

Reader == started /\ (Capture \/ CaptureNonfinite \/ Silence) /\ UNCHANGED started

-----------------------------------------------------------------------------
(* The consumer: one pass of the owner's loop. *)

At(p)   == pc = p
GoTo(p) == pc' = p

(* setAcquisitionContext: a run that begins draws its boundary after the latest
   sample captured so far. *)
Context ==
  /\ At("context")
  /\ sequential' = running
  /\ IF running /\ ~sequential
       THEN cutoff' = latest /\ lastLive' = latest /\ swept' = FALSE
       ELSE UNCHANGED <<cutoff, lastLive, swept>>
  /\ GoTo("begin")
  /\ UNCHANGED <<readerVars, next, taken, imuOk, running>>

(* update() returns to the caller and forgets its locals. *)
Done == GoTo("health") /\ swept' = TRUE /\ next' = 0 /\ taken' = 0

(* A latched fault, or a reader that never started, ends every update() at once. *)
UpdateBegin ==
  /\ At("begin")
  /\ IF fault \/ ~started
       THEN imuOk' = FALSE /\ Done
       ELSE GoTo("receive") /\ UNCHANGED <<next, taken, imuOk, swept>>
  /\ UNCHANGED <<readerVars, contextVars, running, lastLive>>

Take == next' = Head(queue) /\ queue' = Tail(queue) /\ taken' = taken + 1

(* The first receive waits for at most a tick. *)
UpdateTimeout ==
  /\ At("receive") /\ queue = <<>>
  /\ Done
  /\ UNCHANGED <<readerVars, contextVars, imuOk, running, lastLive>>

(* Mutant: the newest sample wins in a run too. *)
UpdateReceiveNewest ==
  /\ At("receive") /\ queue # <<>>
  /\ Take
  /\ GoTo("drain")
  /\ UNCHANGED <<latest, fault, silent, contextVars, imuOk, running, historyVars>>

UpdateReceive ==
  /\ At("receive") /\ queue # <<>>
  /\ Take
  /\ GoTo(IF sequential THEN "discard" ELSE "drain")
  /\ UNCHANGED <<latest, fault, silent, contextVars, imuOk, running, historyVars>>

(* Mutant: the discard loop stops one sample short. *)
UpdateDiscardLess ==
  /\ At("discard")
  /\ IF Accepts(next)
       THEN GoTo("deliver") /\ UNCHANGED <<next, queue, taken, swept>>
       ELSE IF taken >= QueueLen - 1 \/ queue = <<>>
              THEN Done /\ UNCHANGED queue
              ELSE Take /\ UNCHANGED <<pc, swept>>
  /\ UNCHANGED <<latest, fault, silent, contextVars, imuOk, running, lastLive>>

(* In a run: idle history is discarded up to the first sample of the run, a
   queue's worth at most. *)
UpdateDiscard ==
  /\ At("discard")
  /\ IF Accepts(next)
       THEN GoTo("deliver") /\ UNCHANGED <<next, queue, taken, swept>>
       ELSE IF taken >= QueueLen \/ queue = <<>>
              THEN Done /\ UNCHANGED queue
              ELSE Take /\ UNCHANGED <<pc, swept>>
  /\ UNCHANGED <<latest, fault, silent, contextVars, imuOk, running, lastLive>>

(* While idle: the newest sample wins, again within a queue's worth. *)
UpdateDrain ==
  /\ At("drain")
  /\ IF taken >= QueueLen \/ queue = <<>>
       THEN GoTo("deliver") /\ UNCHANGED <<next, queue, taken>>
       ELSE Take /\ UNCHANGED pc
  /\ UNCHANGED <<latest, fault, silent, contextVars, imuOk, running, historyVars>>

(* A sample older than the limit is not delivered in a run: the backlog latches
   the fault. *)
UpdateLate ==
  /\ At("deliver") /\ sequential
  /\ fault' = TRUE
  /\ imuOk' = FALSE
  /\ Done
  /\ UNCHANGED <<latest, queue, silent, contextVars, running, lastLive>>

UpdateDeliver ==
  /\ At("deliver")
  /\ imuOk' = TRUE
  /\ Done
  /\ lastLive' = IF sequential THEN next ELSE lastLive
  /\ UNCHANGED <<readerVars, contextVars, running>>

Update ==
  \/ UpdateBegin \/ UpdateTimeout \/ UpdateReceive \/ UpdateDiscard
  \/ UpdateDrain \/ UpdateLate \/ UpdateDeliver

(* Mutant: a latched fault does not stop the run. *)
CheckSilence ==
  /\ At("health")
  /\ running' = (running /\ ~silent)
  /\ GoTo("runner")
  /\ UNCHANGED <<readerVars, contextVars, next, taken, imuOk, historyVars>>

(* checkAcquisitionHealth: a fault or a silent sensor stops the run. *)
CheckHealth ==
  /\ At("health")
  /\ running' = (running /\ started /\ ~fault /\ ~silent)
  /\ GoTo("runner")
  /\ UNCHANGED <<readerVars, contextVars, next, taken, imuOk, historyVars>>

(* runner.update() and, while idle, the web handlers: a run may end, and one may
   start if the IMU is in order. *)
Runner ==
  /\ At("runner")
  /\ \/ UNCHANGED running
     \/ running /\ running' = FALSE
     \/ ~running /\ started /\ imuOk /\ ~fault /\ running' = TRUE
  /\ GoTo("context")
  /\ UNCHANGED <<readerVars, contextVars, next, taken, imuOk, historyVars>>

Consumer == (Context \/ Update \/ CheckHealth \/ Runner) /\ UNCHANGED started

Next == Reader \/ Consumer

(* The consumer keeps running; nothing is assumed of the sensor. *)
Spec == Init /\ [][Next]_vars /\ WF_vars(Consumer)

-----------------------------------------------------------------------------
(* Properties. *)

Holding == pc \in {"discard", "drain", "deliver"}

(* What was captured and is still to be delivered, oldest first. *)
Pipeline == (IF Holding THEN <<next>> ELSE <<>>) \o queue

(* During a run without a fault no sample of the run is ever lost, duplicated or
   out of place: those not delivered yet are all on their way, in order, behind
   whatever idle history is left. *)
NoSampleLost ==
  sequential /\ ~fault =>
    LET history == Len(Pipeline) - Ahead(latest, lastLive)
    IN  /\ history >= 0
        /\ \A i \in 1 .. Len(Pipeline) :
             IF i <= history THEN ~Accepts(Pipeline[i])
             ELSE Accepts(Pipeline[i]) /\ Ahead(Pipeline[i], lastLive) = i - history

(* Idle history never survives the first update() of a run: its discard loop is
   long enough for a queue full of it. *)
BoundarySwept ==
  sequential /\ swept /\ ~fault =>
    \A i \in DOMAIN queue : Accepts(queue[i])

(* The samples of a run are kept, and nothing but them (publishSample, update). *)
RunSamplesKept == NoSampleLost /\ BoundarySwept

(* The controller sees the samples of a run without a gap from the very first,
   also while an overflow latches the fault between two of its steps. *)
DeliveredWithoutGap ==
  [][sequential /\ lastLive' # lastLive /\ ~(At("context")) => lastLive' = Inc(lastLive)]_vars

(* A latched fault, or a sensor that stays silent, ends the run. *)
TroubleStopsRun == running /\ (fault \/ silent) ~> ~running \/ ~(fault \/ silent)
=============================================================================
