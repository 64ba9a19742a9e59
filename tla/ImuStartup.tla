------------------------------ MODULE ImuStartup ------------------------------
(***************************************************************************)
(* How acquisition comes up: ImuManager::begin, which setup() calls once,    *)
(* and then the acquisition of ImuReader.                                   *)
(*                                                                         *)
(* The sensor gets several attempts, each of which must end in a stream of   *)
(* valid samples; then the queue, the timer and the reader task are made,    *)
(* and what was made is taken down when a later part fails.  The reader may  *)
(* poll before begin() has noted that it started.                           *)
(***************************************************************************)
EXTENDS ImuReader

CONSTANTS
  Attempts,   \* 5 attempts to initialise the sensor
  WarmAccel,  \* 8 valid accelerations and
  WarmGyro    \* 16 rates in a row of polls make a valid stream

ASSUME StartupAssumption ==
  /\ Attempts \in Nat \ {0} /\ WarmAccel \in Nat \ {0}
  /\ WarmGyro \in Nat \ {0} /\ WarmGyro < SeqMod

VARIABLES
  stage,    \* where begin() is
  attempts, \* init_attempts_
  warm,     \* init_valid_accel_ and init_valid_gyro_
  parts     \* what exists of the acquisition

startupVars == <<stage, attempts, warm, parts>>
allVars     == <<readerAllVars, startupVars>>

Stages == {"sensor", "warm", "queue", "timer", "task", "arm", "note", "up", "down"}

Parts == {"queue", "timer", "task", "ticking"}

Cold == [accel |-> 0, gyro |-> 0]

StartupInit ==
  /\ Init /\ ~started /\ ~imuOk /\ latest = 0
  /\ ReaderInit
  /\ stage = "sensor" /\ attempts = 0 /\ warm = Cold /\ parts = {}

Stage(s, t) == stage = s /\ stage' = t

OnlyStartup == UNCHANGED readerAllVars

-----------------------------------------------------------------------------
(* The sensor. *)

NextAttempt == IF attempts' < Attempts THEN "sensor" ELSE "down"

(* A wrong bus, no sensor or another, a bad status or power register, or a rate
   that did not take. *)
SensorFails ==
  /\ attempts' = attempts + 1
  /\ Stage("sensor", NextAttempt)
  /\ OnlyStartup /\ UNCHANGED <<warm, parts>>

SensorAnswers ==
  /\ attempts' = attempts + 1
  /\ Stage("sensor", "warm")
  /\ warm' = Cold
  /\ OnlyStartup /\ UNCHANGED parts

Least(a, b) == IF a < b THEN a ELSE b

(* The stream brings no more rates than it needs (bound). *)
WarmFits(new) == "gyro" \in new => warm.gyro < WarmGyro

(* The same poll as the reader's, without a queue to publish in.  A sample that
   is not finite, and an acceleration that is not about 1 g, is passed over.  How
   many attempts it took is only reported, and forgotten here. *)
WarmUp ==
  /\ stage = "warm"
  /\ \E new \in (SUBSET Data) \ {{}} :
       /\ WarmFits(new)
       /\ warm' = [accel |-> IF "accel" \in new THEN Least(WarmAccel, warm.accel + 1) ELSE warm.accel,
                   gyro  |-> IF "gyro" \in new THEN warm.gyro + 1 ELSE warm.gyro]
       /\ latest' = IF "gyro" \in new THEN warm'.gyro ELSE latest
  /\ LET valid == warm'.accel = WarmAccel /\ warm'.gyro >= WarmGyro
     IN /\ imuOk' = valid /\ stage' = IF valid THEN "queue" ELSE "warm"
        /\ attempts' = IF valid THEN 0 ELSE attempts
  /\ UNCHANGED <<queue, fault, silent, contextVars, pc, next, taken, running>>
  /\ UNCHANGED <<historyVars, started, sensorVars, phase, auditVars, parts>>

(* The time for the stream is over. *)
WarmTimeout ==
  /\ UNCHANGED <<attempts, warm, parts>>
  /\ Stage("warm", NextAttempt)
  /\ OnlyStartup

-----------------------------------------------------------------------------
(* startAcquisition: no part is tried a second time. *)

MakeQueue ==
  /\ \/ Stage("queue", "timer") /\ parts' = {"queue"}
     \/ Stage("queue", "down") /\ UNCHANGED parts
  /\ OnlyStartup /\ UNCHANGED <<attempts, warm>>

MakeTimer ==
  /\ \/ Stage("timer", "task") /\ parts' = parts \cup {"timer"}
     \/ Stage("timer", "down") /\ UNCHANGED parts
  /\ OnlyStartup /\ UNCHANGED <<attempts, warm>>

MakeTask ==
  /\ \/ Stage("task", "arm") /\ parts' = parts \cup {"task"}
     \/ Stage("task", "down") /\ parts' = parts \ {"timer"}
  /\ OnlyStartup /\ UNCHANGED <<attempts, warm>>

(* Mutant: the task outlives the timer that did not start. *)
StartTimerOrLeave ==
  /\ \/ Stage("arm", "note") /\ parts' = parts \cup {"ticking"}
     \/ Stage("arm", "down") /\ parts' = parts \ {"timer"}
  /\ OnlyStartup /\ UNCHANGED <<attempts, warm>>

StartTimer ==
  /\ \/ Stage("arm", "note") /\ parts' = parts \cup {"ticking"}
     \/ Stage("arm", "down") /\ parts' = parts \ {"task", "timer"}
  /\ OnlyStartup /\ UNCHANGED <<attempts, warm>>

(* begin() notes the start, and ok() now depends on the readings alone. *)
NoteStart ==
  /\ Stage("note", "up")
  /\ started' = TRUE
  /\ UNCHANGED <<readerVars, contextVars, consumerVars, historyVars>>
  /\ UNCHANGED <<sensorVars, phase, auditVars, attempts, warm, parts>>

Begin ==
  \/ SensorFails \/ SensorAnswers \/ WarmUp \/ WarmTimeout
  \/ MakeQueue \/ MakeTimer \/ MakeTask \/ StartTimer \/ NoteStart

-----------------------------------------------------------------------------
(* setup() goes on after begin() returned, and loop() follows. *)

Looping == stage \in {"up", "down"}

Loop == Looping /\ Owner /\ UNCHANGED startupVars

StartupNext ==
  \/ Begin
  \/ "ticking" \in parts /\ Poll /\ UNCHANGED startupVars
  \/ Looping /\ Silent /\ UNCHANGED startupVars
  \/ Loop

(* The owner keeps running; nothing is assumed of the sensor. *)
StartupSpec == StartupInit /\ [][StartupNext]_allVars /\ WF_allVars(Loop)

-----------------------------------------------------------------------------

(* Whatever fails in begin(), the timer never wakes a task that is not there or
   that has no queue, nothing but the queue outlives a failure, and no run begins
   on a stream that was never seen valid (startAcquisition). *)
NoHalfStart ==
  /\ "ticking" \in parts => {"queue", "timer", "task"} \subseteq parts
  /\ stage = "down" => parts \subseteq {"queue"}
  /\ running => parts = Parts /\ warm.accel >= WarmAccel /\ warm.gyro >= WarmGyro
=============================================================================
