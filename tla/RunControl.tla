------------------------------ MODULE RunControl ------------------------------
(***************************************************************************)
(* Who owns the controller.  The runner, the IMU reading and the logger are *)
(* plain objects without locks.  Between runs the Arduino task (priority 2) *)
(* uses them; during a run the run_control worker (priority 4, same core)   *)
(* does, and the Arduino task serves HTTP only.  RunControlWorker hands the *)
(* controller over with one flag, active_, and carries stop requests and    *)
(* status snapshots across under a spinlock.                                *)
(*                                                                         *)
(* The controller is kept to what the handover depends on: whether a run is *)
(* on, and how the last one ended.                                          *)
(***************************************************************************)
EXTENDS Integers

CONSTANT MaxRuns  \* bound: runs started in a behaviour

ASSUME RunControlAssumption == MaxRuns \in Nat

VARIABLES
  active,         \* active_
  stopRequested,  \* stop_requested_
  notified,       \* a pending xTaskNotifyGive of the worker
  snapshot,       \* snapshot_: the run it shows and whether that run is on
  workerPc,       \* where the worker is
  webPc,          \* where the Arduino task is
  request,        \* the HTTP request its handler is serving
  runState,       \* the state of ExperimentRunner, coarsened
  run,            \* run_id of the latest run
  stopRun,        \* history: the run whose stop was last answered 202
  estopBy,        \* history: the run that a web stop put into ESTOP
  updates         \* history: runner updates of this run since it was asked to
                  \* stop, saturated at 2

workerVars     == <<active, stopRequested, notified, snapshot, workerPc>>
arduinoVars    == <<webPc, request>>
controllerVars == <<runState, run>>
historyVars    == <<stopRun, estopBy, updates>>
vars == <<workerVars, arduinoVars, controllerVars, historyVars>>

Requests  == {"status", "start", "stop", "clear", "download"}
RunStates == {"calibrating", "ready", "running", "finished", "estop"}
WorkerPcs == {"sleep", "check", "take", "receive", "update", "publish"}
WebPcs    == {"loop", "idle_pass", "web_idle", "web_active",
              "serve_idle", "serve_active", "touch_idle", "touch_active",
              "hand_over", "start_lock", "start_notify"}

Running == runState = "running"

TypeOK ==
  /\ active \in BOOLEAN /\ stopRequested \in BOOLEAN /\ notified \in BOOLEAN
  /\ snapshot \in [run : 0 .. MaxRuns, running : BOOLEAN]
  /\ workerPc \in WorkerPcs
  /\ webPc \in WebPcs
  /\ request \in Requests \cup {"none"}
  /\ runState \in RunStates
  /\ run \in 0 .. MaxRuns /\ stopRun \in 0 .. MaxRuns /\ estopBy \in 0 .. MaxRuns
  /\ updates \in 0 .. 2

Init ==
  /\ active = FALSE /\ stopRequested = FALSE /\ notified = FALSE
  /\ snapshot = [run |-> 0, running |-> FALSE]
  /\ workerPc = "sleep" /\ webPc = "loop" /\ request = "none"
  /\ runState = "calibrating"
  /\ run = 0 /\ stopRun = 0 /\ estopBy = 0 /\ updates = 0

-----------------------------------------------------------------------------
(* The worker.  It runs ahead of the Arduino task on their common core and   *)
(* lets it run only where it blocks: asleep without a notification, or       *)
(* waiting for a sample.                                                     *)

WorkerBlocks == (workerPc = "sleep" /\ ~notified) \/ workerPc = "receive"

(* ulTaskNotifyTake returns and clears the notification. *)
WorkerWake ==
  /\ workerPc = "sleep" /\ notified
  /\ notified' = FALSE
  /\ workerPc' = "check"
  /\ UNCHANGED <<active, stopRequested, snapshot, arduinoVars, controllerVars, historyVars>>

WorkerCheck ==
  /\ workerPc = "check"
  /\ workerPc' = IF active THEN "take" ELSE "sleep"
  /\ UNCHANGED <<active, stopRequested, notified, snapshot, arduinoVars,
                 controllerVars, historyVars>>

(* Mutant: the request is consumed but not acted on. *)
WorkerForgetsStop ==
  /\ workerPc = "take"
  /\ stopRequested' = FALSE
  /\ workerPc' = "receive"
  /\ UNCHANGED <<active, notified, snapshot, arduinoVars, controllerVars, historyVars>>

(* A step first consumes a pending stop: the run ends in ESTOP without
   another update. *)
WorkerTakeStop ==
  /\ workerPc = "take"
  /\ stopRequested' = FALSE
  /\ IF stopRequested
       THEN workerPc' = "publish" /\ runState' = "estop" /\ estopBy' = run
       ELSE workerPc' = "receive" /\ UNCHANGED <<runState, estopBy>>
  /\ UNCHANGED <<active, notified, snapshot, arduinoVars, run, stopRun, updates>>

(* imu.update() blocks for at most a tick; a sample or the timeout ends it. *)
WorkerReceive ==
  /\ workerPc = "receive"
  /\ workerPc' = "update"
  /\ UNCHANGED <<active, stopRequested, notified, snapshot, arduinoVars,
                 controllerVars, historyVars>>

(* The health check and runner.update(): the run goes on, completes, or is
   stopped by a fault. *)
WorkerUpdate ==
  /\ workerPc = "update"
  /\ runState' \in {"running", "finished", "estop"}
  /\ updates' = IF stopRun = run /\ updates < 2 THEN updates + 1 ELSE updates
  /\ workerPc' = "publish"
  /\ UNCHANGED <<active, stopRequested, notified, snapshot, arduinoVars, run,
                 stopRun, estopBy>>

(* Mutant: ownership goes back after every step. *)
WorkerReturnsEarly ==
  /\ workerPc = "publish"
  /\ snapshot' = [run |-> run, running |-> Running]
  /\ active' = FALSE
  /\ workerPc' = "check"
  /\ UNCHANGED <<stopRequested, notified, arduinoVars, controllerVars, historyVars>>

(* The last touch of the controller: under the lock the snapshot is replaced
   and, after the last step, ownership returned. *)
WorkerPublish ==
  /\ workerPc = "publish"
  /\ snapshot' = [run |-> run, running |-> Running]
  /\ active' = (active /\ Running)
  /\ workerPc' = "check"
  /\ UNCHANGED <<stopRequested, notified, arduinoVars, controllerVars, historyVars>>

Worker == WorkerWake \/ WorkerCheck \/ WorkerTakeStop \/ WorkerReceive
            \/ WorkerUpdate \/ WorkerPublish

-----------------------------------------------------------------------------
(* The Arduino task. *)

GoTo(from, to) == WorkerBlocks /\ webPc = from /\ webPc' = to

(* The two halves of loop(): HTTP only during a run, all of it otherwise. *)
LoopCheckActive ==
  /\ GoTo("loop", IF active THEN "web_active" ELSE "idle_pass")
  /\ UNCHANGED <<workerVars, request, controllerVars, historyVars>>

(* One idle pass over the controller: calibration may complete, and a run
   just started by a handler gets its first update here. *)
IdlePass ==
  /\ GoTo("idle_pass", "web_idle")
  /\ \/ runState' = runState
     \/ runState = "calibrating" /\ runState' = "ready"
     \/ Running /\ runState' = "estop"
  /\ UNCHANGED <<workerVars, request, run, historyVars>>

(* handleClient: at most one request is served. *)
Accept(r) ==
  /\ \/ GoTo("web_idle", "serve_idle")
     \/ GoTo("web_active", "serve_active")
  /\ request' = r
  /\ UNCHANGED <<workerVars, controllerVars, historyVars>>

NoRequest ==
  /\ \/ GoTo("web_idle", "hand_over")
     \/ GoTo("web_active", "loop")
  /\ UNCHANGED <<workerVars, request, controllerVars, historyVars>>

Respond ==
  /\ \/ webPc \in {"serve_idle", "touch_idle"} /\ webPc' = "hand_over"
     \/ webPc \in {"serve_active", "touch_active"} /\ webPc' = "loop"
  /\ request' = "none"

Touch ==
  \/ webPc = "serve_idle" /\ webPc' = "touch_idle"
  \/ webPc = "serve_active" /\ webPc' = "touch_active"

(* Mutant: the handlers use the controller without asking who owns it. *)
ServeUnchecked ==
  /\ WorkerBlocks
  /\ request # "stop"
  /\ Touch /\ UNCHANGED request
  /\ UNCHANGED <<workerVars, controllerVars, historyVars>>

(* Every handler but the stop's asks active() itself: the answer of loop() may
   be old.  If the worker still owns the run, the reply is a refusal or the
   snapshot. *)
ServeCheckActive ==
  /\ WorkerBlocks
  /\ request # "stop"
  /\ IF active THEN Respond ELSE Touch /\ UNCHANGED request
  /\ UNCHANGED <<workerVars, controllerVars, historyVars>>

(* handleStop: under the lock, a run the worker owns is asked to stop (202);
   otherwise the handler stops the controller itself. *)
ServeStop ==
  /\ WorkerBlocks
  /\ request = "stop"
  /\ IF active
       THEN /\ Respond
            /\ stopRequested' = TRUE
            /\ stopRun' = run
            /\ updates' = IF stopRun = run THEN updates ELSE 0
       ELSE /\ Touch
            /\ UNCHANGED <<stopRequested, request, stopRun, updates>>
  /\ UNCHANGED <<active, notified, snapshot, workerPc, controllerVars, estopBy>>

Touching == WorkerBlocks /\ webPc \in {"touch_idle", "touch_active"} /\ Respond

(* startEnergyControlAutonomousCapture: only from READY or FINISHED, and other
   gates of the runner may refuse. *)
TouchStart ==
  /\ Touching
  /\ request = "start"
  /\ \/ /\ runState \in {"ready", "finished"}
        /\ run < MaxRuns
        /\ run' = run + 1
        /\ runState' = "running"
     \/ UNCHANGED controllerVars
  /\ UNCHANGED <<workerVars, historyVars>>

TouchStop ==
  /\ Touching
  /\ request = "stop"
  /\ runState' = "estop"
  /\ UNCHANGED <<workerVars, run, historyVars>>

TouchClear ==
  /\ Touching
  /\ request = "clear"
  /\ IF Running THEN UNCHANGED runState ELSE runState' \in {"ready", "calibrating"}
  /\ UNCHANGED <<workerVars, run, historyVars>>

TouchRead ==
  /\ Touching
  /\ request \in {"status", "download"}
  /\ UNCHANGED <<workerVars, controllerVars, historyVars>>

(* After the response: a run that is on is handed to the worker. *)
HandOver ==
  /\ GoTo("hand_over", IF Running THEN "start_lock" ELSE "loop")
  /\ UNCHANGED <<workerVars, request, controllerVars, historyVars>>

(* Mutant: the snapshot of the run before stays. *)
StartWithoutSnapshot ==
  /\ GoTo("start_lock", "start_notify")
  /\ stopRequested' = FALSE
  /\ active' = TRUE
  /\ UNCHANGED <<snapshot, notified, workerPc, request, controllerVars, historyVars>>

(* Mutant: a stop left over from the run before stays. *)
StartKeepsStop ==
  /\ GoTo("start_lock", "start_notify")
  /\ snapshot' = [run |-> run, running |-> Running]
  /\ active' = TRUE
  /\ UNCHANGED <<stopRequested, notified, workerPc, request, controllerVars, historyVars>>

StartLock ==
  /\ GoTo("start_lock", "start_notify")
  /\ snapshot' = [run |-> run, running |-> Running]
  /\ stopRequested' = FALSE
  /\ active' = TRUE
  /\ UNCHANGED <<notified, workerPc, request, controllerVars, historyVars>>

(* Mutant: the worker is not woken. *)
StartSilently ==
  /\ GoTo("start_notify", "loop")
  /\ UNCHANGED <<workerVars, request, controllerVars, historyVars>>

StartNotify ==
  /\ GoTo("start_notify", "loop")
  /\ notified' = TRUE
  /\ UNCHANGED <<active, stopRequested, snapshot, workerPc, request,
                 controllerVars, historyVars>>

Arduino ==
  \/ LoopCheckActive \/ IdlePass
  \/ (\E r \in Requests : Accept(r)) \/ NoRequest
  \/ ServeCheckActive \/ ServeStop
  \/ TouchStart \/ TouchStop \/ TouchClear \/ TouchRead
  \/ HandOver \/ StartLock \/ StartNotify

Next == Worker \/ Arduino

(* Both tasks are scheduled.  The Arduino task runs infinitely often in the
   gaps the worker leaves while it waits for a sample, hence strong fairness.
   A run has a fixed duration: an update that may end it for ever does. *)
Fairness ==
  /\ WF_vars(Worker)
  /\ SF_vars(Arduino)
  /\ SF_vars(WorkerUpdate /\ ~Running')

Spec == Init /\ [][Next]_vars /\ Fairness

-----------------------------------------------------------------------------
(* Properties. *)

WorkerTouches  == workerPc \in {"take", "receive", "update", "publish"}
ArduinoTouches == webPc \in {"idle_pass", "web_idle", "touch_idle", "touch_active",
                             "hand_over", "start_lock"}

(* The controller has no lock, so the two tasks must never both be inside the
   code that uses it, although the Arduino task decides by flags it read
   earlier and the worker preempts it anywhere. *)
ExclusiveOwner == ~(WorkerTouches /\ ArduinoTouches)

(* While the worker owns the controller, the handlers answer from the
   snapshot: it always shows the run that is on, never the one before it. *)
SnapshotIsCurrent == active => snapshot = [run |-> run, running |-> TRUE]

(* A stop that was accepted for one run and not consumed by it never ends a
   later run: a run ended by the worker's stop is one whose stop was accepted.
   Once the handler has answered 202, at most the step in progress still
   updates the controller. *)
StopIsForItsRun == estopBy <= stopRun /\ updates <= 1

(* A run that was started is picked up and ends: no wake-up of the worker is
   lost between the ownership flag and the notification. *)
RunEnds == Running ~> ~Running

-----------------------------------------------------------------------------
(* The ownership protocol this implements: see RunOwnership. *)
Ownership == INSTANCE RunOwnership WITH
  owner <- IF active THEN "worker" ELSE "arduino",
  on    <- Running

ImplementsOwnership == Ownership!Spec
=============================================================================
