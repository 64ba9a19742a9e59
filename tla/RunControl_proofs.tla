--------------------------- MODULE RunControl_proofs ---------------------------
(***************************************************************************)
(* RunControl for any number of runs: its safety properties from one        *)
(* inductive invariant; that a run ends and that RunOwnership is            *)
(* implemented, from what is said of the steps that are enabled; and that   *)
(* the audit of RunAudit is of one run.                                     *)
(***************************************************************************)
EXTENDS RunAudit, TLAPS

(* The worker is inside a step only while it owns the controller. *)
WorkerOwns == WorkerTouches => active

(* The Arduino task is past its ownership test only while the worker does not
   own the controller, and hands over nothing but a run that is on. *)
ArduinoOwns ==
  /\ webPc \in {"idle_pass", "web_idle", "serve_idle", "touch_idle", "touch_active",
                "hand_over", "start_lock"} => ~active
  /\ webPc = "start_lock" => Running

(* While the worker owns the controller its run is on, but for the end of the
   last step. *)
OwnedIsRunning == active /\ workerPc # "publish" => Running

(* The books of the stop requests: a run is asked to stop only after it was
   handed over; a stop it accepted is pending until a step consumes it; and no
   update follows the one in progress. *)
StopBooks ==
  /\ stopRun <= run
  /\ Running /\ ~active => stopRun < run
  /\ active /\ stopRequested => stopRun = run
  /\ active /\ stopRun = run => stopRequested \/ (workerPc = "publish" /\ ~Running)
  /\ workerPc \in {"receive", "update"} /\ stopRun = run => updates = 0

Owners == WorkerOwns /\ ArduinoOwns /\ OwnedIsRunning /\ SnapshotIsCurrent
Stops  == StopBooks /\ StopIsForItsRun

IInv == TypeOK /\ Owners /\ Stops

-----------------------------------------------------------------------------

(* The initial states of the two tasks satisfy the inductive invariant. *)
LEMMA InitIInv == Init => IInv
<1> SUFFICES ASSUME Init
             PROVE  IInv
  OBVIOUS
<1>1. active \in BOOLEAN /\ stopRequested \in BOOLEAN /\ notified \in BOOLEAN
  BY DEF Init
<1>2. /\ snapshot \in [run : 0 .. MaxRuns, running : BOOLEAN]
      /\ run \in 0 .. MaxRuns /\ stopRun \in 0 .. MaxRuns /\ estopBy \in 0 .. MaxRuns
  BY RunControlAssumption DEF Init
<1>3. /\ workerPc \in WorkerPcs /\ webPc \in WebPcs /\ request \in Requests \cup {"none"}
      /\ runState \in RunStates /\ updates \in 0 .. 2
  BY DEF Init, WorkerPcs, WebPcs, Requests, RunStates
<1>4. TypeOK
  BY <1>1, <1>2, <1>3, Zenon DEF TypeOK
<1>5. WorkerOwns /\ ArduinoOwns /\ OwnedIsRunning /\ StopBooks
  BY DEF Init, WorkerOwns, WorkerTouches, ArduinoOwns, OwnedIsRunning, Running, StopBooks
<1>6. SnapshotIsCurrent /\ StopIsForItsRun
  BY DEF Init, SnapshotIsCurrent, StopIsForItsRun
<1> QED
  BY <1>4, <1>5, <1>6 DEF IInv, Owners, Stops

(* Types. *)
LEMMA NextTypeOK == IInv /\ [Next]_vars => TypeOK'
<1> SUFFICES ASSUME IInv, [Next]_vars
             PROVE  TypeOK'
  OBVIOUS
<1> USE RunControlAssumption DEF IInv, TypeOK, WorkerPcs, WebPcs, RunStates, Requests,
            Running, workerVars, arduinoVars, controllerVars, historyVars
<1>1. CASE WorkerWake
  <2>1. /\ active' = active /\ stopRequested' = stopRequested /\ notified' = FALSE
        /\ snapshot' = snapshot /\ workerPc' = "check" /\ webPc' = webPc
        /\ request' = request /\ runState' = runState /\ run' = run
        /\ stopRun' = stopRun /\ estopBy' = estopBy /\ updates' = updates
    BY <1>1 DEF WorkerWake
  <2>2. active' \in BOOLEAN /\ stopRequested' \in BOOLEAN /\ notified' \in BOOLEAN
    BY <2>1
  <2>3. workerPc' \in WorkerPcs
    BY <2>1
  <2> QED
    BY <2>1, <2>2, <2>3
<1>2. CASE WorkerCheck
  BY <1>2 DEF WorkerCheck
<1>3. CASE WorkerTakeStop
  <2>1. /\ active' = active /\ stopRequested' = FALSE /\ notified' = notified
        /\ snapshot' = snapshot /\ webPc' = webPc /\ request' = request
        /\ run' = run /\ stopRun' = stopRun /\ updates' = updates
    BY <1>3 DEF WorkerTakeStop
  <2>2. workerPc' \in WorkerPcs /\ runState' \in RunStates /\ estopBy' \in 0 .. MaxRuns
    <3>1. CASE stopRequested
      BY <1>3, <3>1 DEF WorkerTakeStop
    <3>2. CASE ~stopRequested
      BY <1>3, <3>2 DEF WorkerTakeStop
    <3> QED
      BY <3>1, <3>2
  <2> QED
    BY <2>1, <2>2
<1>4. CASE WorkerReceive
  BY <1>4 DEF WorkerReceive
<1>5. CASE WorkerUpdate
  BY <1>5 DEF WorkerUpdate
<1>6. CASE WorkerPublish
  BY <1>6 DEF WorkerPublish
<1>7. CASE LoopCheckActive
  BY <1>7 DEF LoopCheckActive, GoTo
<1>8. CASE IdlePass
  BY <1>8 DEF IdlePass, GoTo
<1>9. ASSUME NEW r \in Requests, Accept(r)
      PROVE  TypeOK'
  BY <1>9 DEF Accept, GoTo
<1>10. CASE NoRequest
  BY <1>10 DEF NoRequest, GoTo
<1>11. CASE ServeCheckActive
  BY <1>11 DEF ServeCheckActive, Respond, Touch
<1>12. CASE ServeStop
  <2>1. CASE active
    BY <1>12, <2>1 DEF ServeStop, Respond
  <2>2. CASE ~active
    BY <1>12, <2>2 DEF ServeStop, Touch
  <2> QED
    BY <2>1, <2>2
<1>13. CASE TouchStart
  BY <1>13 DEF TouchStart, Touching, Respond
<1>14. CASE TouchStop
  BY <1>14 DEF TouchStop, Touching, Respond
<1>15. CASE TouchClear
  BY <1>15 DEF TouchClear, Touching, Respond
<1>16. CASE TouchRead
  BY <1>16 DEF TouchRead, Touching, Respond
<1>17. CASE HandOver
  BY <1>17 DEF HandOver, GoTo
<1>18. CASE StartLock
  BY <1>18 DEF StartLock, GoTo
<1>19. CASE StartNotify
  BY <1>19 DEF StartNotify, GoTo
<1>20. CASE UNCHANGED vars
  BY <1>20 DEF vars
<1> QED
  BY <1>1, <1>2, <1>3, <1>4, <1>5, <1>6, <1>7, <1>8, <1>9, <1>10, <1>11, <1>12,
     <1>13, <1>14, <1>15, <1>16, <1>17, <1>18, <1>19, <1>20
  DEF Next, Worker, Arduino

(* Ownership: a flag read earlier is still right when it is acted upon. *)
LEMMA NextOwners == IInv /\ [Next]_vars => Owners'
<1> SUFFICES ASSUME IInv, [Next]_vars
             PROVE  Owners'
  OBVIOUS
<1> USE RunControlAssumption DEF IInv, Owners, WorkerOwns, ArduinoOwns, WorkerTouches, OwnedIsRunning,
            SnapshotIsCurrent, Running, WorkerBlocks,
            workerVars, arduinoVars, controllerVars, historyVars
<1>1. CASE WorkerWake
  BY <1>1 DEF WorkerWake
<1>2. CASE WorkerCheck
  BY <1>2 DEF WorkerCheck
<1>3. CASE WorkerTakeStop
  BY <1>3 DEF WorkerTakeStop
<1>4. CASE WorkerReceive
  BY <1>4 DEF WorkerReceive
<1>5. CASE WorkerUpdate
  BY <1>5 DEF WorkerUpdate
<1>6. CASE WorkerPublish
  BY <1>6 DEF WorkerPublish
<1>7. CASE LoopCheckActive
  BY <1>7 DEF LoopCheckActive, GoTo
<1>8. CASE IdlePass
  BY <1>8 DEF IdlePass, GoTo
<1>9. ASSUME NEW r \in Requests, Accept(r)
      PROVE  Owners'
  BY <1>9 DEF Accept, GoTo
<1>10. CASE NoRequest
  BY <1>10 DEF NoRequest, GoTo
<1>11. CASE ServeCheckActive
  BY <1>11 DEF ServeCheckActive, Respond, Touch
<1>12. CASE ServeStop
  BY <1>12 DEF ServeStop, Respond, Touch
<1>13. CASE TouchStart
  BY <1>13 DEF TouchStart, Touching, Respond
<1>14. CASE TouchStop
  BY <1>14 DEF TouchStop, Touching, Respond
<1>15. CASE TouchClear
  BY <1>15 DEF TouchClear, Touching, Respond
<1>16. CASE TouchRead
  BY <1>16 DEF TouchRead, Touching, Respond
<1>17. CASE HandOver
  BY <1>17 DEF HandOver, GoTo
<1>18. CASE StartLock
  BY <1>18 DEF StartLock, GoTo
<1>19. CASE StartNotify
  BY <1>19 DEF StartNotify, GoTo
<1>20. CASE UNCHANGED vars
  BY <1>20 DEF vars
<1> QED
  BY <1>1, <1>2, <1>3, <1>4, <1>5, <1>6, <1>7, <1>8, <1>9, <1>10, <1>11, <1>12,
     <1>13, <1>14, <1>15, <1>16, <1>17, <1>18, <1>19, <1>20
  DEF Next, Worker, Arduino

(* The books of the stop requests. *)
LEMMA NextStops == IInv /\ [Next]_vars => Stops'
<1> SUFFICES ASSUME IInv, [Next]_vars
             PROVE  Stops'
  OBVIOUS
<1> USE RunControlAssumption DEF IInv, TypeOK, Owners, WorkerOwns, ArduinoOwns, WorkerTouches, OwnedIsRunning,
            Stops, StopBooks, StopIsForItsRun, Running, WorkerBlocks,
            workerVars, arduinoVars, controllerVars, historyVars
<1>1. CASE WorkerWake
  BY <1>1 DEF WorkerWake
<1>2. CASE WorkerCheck
  BY <1>2 DEF WorkerCheck
<1>3. CASE WorkerTakeStop
  BY <1>3 DEF WorkerTakeStop
<1>4. CASE WorkerReceive
  BY <1>4 DEF WorkerReceive
<1>5. CASE WorkerUpdate
  BY <1>5 DEF WorkerUpdate
<1>6. CASE WorkerPublish
  BY <1>6 DEF WorkerPublish
<1>7. CASE LoopCheckActive
  BY <1>7 DEF LoopCheckActive, GoTo
<1>8. CASE IdlePass
  BY <1>8 DEF IdlePass, GoTo
<1>9. ASSUME NEW r \in Requests, Accept(r)
      PROVE  Stops'
  BY <1>9 DEF Accept, GoTo
<1>10. CASE NoRequest
  BY <1>10 DEF NoRequest, GoTo
<1>11. CASE ServeCheckActive
  BY <1>11 DEF ServeCheckActive, Respond, Touch
<1>12. CASE ServeStop
  BY <1>12 DEF ServeStop, Respond, Touch
<1>13. CASE TouchStart
  BY <1>13 DEF TouchStart, Touching, Respond
<1>14. CASE TouchStop
  BY <1>14 DEF TouchStop, Touching, Respond
<1>15. CASE TouchClear
  BY <1>15 DEF TouchClear, Touching, Respond
<1>16. CASE TouchRead
  BY <1>16 DEF TouchRead, Touching, Respond
<1>17. CASE HandOver
  BY <1>17 DEF HandOver, GoTo
<1>18. CASE StartLock
  BY <1>18 DEF StartLock, GoTo
<1>19. CASE StartNotify
  BY <1>19 DEF StartNotify, GoTo
<1>20. CASE UNCHANGED vars
  BY <1>20 DEF vars
<1> QED
  BY <1>1, <1>2, <1>3, <1>4, <1>5, <1>6, <1>7, <1>8, <1>9, <1>10, <1>11, <1>12,
     <1>13, <1>14, <1>15, <1>16, <1>17, <1>18, <1>19, <1>20
  DEF Next, Worker, Arduino

-----------------------------------------------------------------------------

(* The inductive invariant holds in every reachable state. *)
THEOREM SpecIInv == Spec => []IInv
<1>1. IInv /\ [Next]_vars => IInv'
  BY NextTypeOK, NextOwners, NextStops DEF IInv
<1> QED
  BY InitIInv, <1>1, PTL DEF Spec

(* Every variable of the two tasks keeps its type. *)
THEOREM TypeCorrect == Spec => []TypeOK
<1>1. IInv => TypeOK
  BY DEF IInv
<1> QED
  BY SpecIInv, <1>1, PTL

(* The controller is never used by both tasks at once, for any number of runs,
   although neither holds a lock while it uses it. *)
THEOREM ExclusiveOwnership == Spec => []ExclusiveOwner
<1>1. IInv => ExclusiveOwner
  BY DEF IInv, Owners, WorkerOwns, ArduinoOwns, ExclusiveOwner, ArduinoTouches
<1> QED
  BY SpecIInv, <1>1, PTL

(* The snapshot a handler answers from is of the run that is on. *)
THEOREM SnapshotCurrency == Spec => []SnapshotIsCurrent
<1>1. IInv => SnapshotIsCurrent
  BY DEF IInv, Owners
<1> QED
  BY SpecIInv, <1>1, PTL

(* A stop request never outlives its run, and is obeyed after at most the step
   in progress. *)
THEOREM StopSafety == Spec => [](StopIsForItsRun)
<1>1. IInv => StopIsForItsRun
  BY DEF IInv, Stops
<1> QED
  BY SpecIInv, <1>1, PTL

-----------------------------------------------------------------------------

(* The initial states map to the initial state of the ownership protocol. *)
LEMMA InitOwnership == Init => Ownership!Init
  BY DEF Init, Ownership!Init, Running

(* Every step of the two tasks is a step of the ownership protocol or leaves
   owner and run as they are. *)
LEMMA NextOwnership == IInv /\ [Next]_vars => [Ownership!Next]_(Ownership!vars)
<1> SUFFICES ASSUME IInv, [Next]_vars
             PROVE  [Ownership!Next]_(Ownership!vars)
  OBVIOUS
<1> USE DEF IInv, TypeOK, Owners, WorkerOwns, ArduinoOwns, WorkerTouches, OwnedIsRunning, Running,
            WorkerBlocks, workerVars, arduinoVars, controllerVars, historyVars,
            Ownership!Next, Ownership!vars, Ownership!StartRun, Ownership!AbortRun,
            Ownership!HandOver, Ownership!EndRun, Ownership!ReturnBack
<1>1. CASE WorkerWake
  BY <1>1 DEF WorkerWake
<1>2. CASE WorkerCheck
  BY <1>2 DEF WorkerCheck
<1>3. CASE WorkerTakeStop
  BY <1>3 DEF WorkerTakeStop
<1>4. CASE WorkerReceive
  BY <1>4 DEF WorkerReceive
<1>5. CASE WorkerUpdate
  BY <1>5 DEF WorkerUpdate
<1>6. CASE WorkerPublish
  BY <1>6 DEF WorkerPublish
<1>7. CASE LoopCheckActive
  BY <1>7 DEF LoopCheckActive, GoTo
<1>8. CASE IdlePass
  BY <1>8 DEF IdlePass, GoTo
<1>9. ASSUME NEW r \in Requests, Accept(r)
      PROVE  [Ownership!Next]_(Ownership!vars)
  BY <1>9 DEF Accept, GoTo
<1>10. CASE NoRequest
  BY <1>10 DEF NoRequest, GoTo
<1>11. CASE ServeCheckActive
  BY <1>11 DEF ServeCheckActive, Respond, Touch
<1>12. CASE ServeStop
  BY <1>12 DEF ServeStop, Respond, Touch
<1>13. CASE TouchStart
  BY <1>13 DEF TouchStart, Touching, Respond
<1>14. CASE TouchStop
  BY <1>14 DEF TouchStop, Touching, Respond
<1>15. CASE TouchClear
  BY <1>15 DEF TouchClear, Touching, Respond
<1>16. CASE TouchRead
  BY <1>16 DEF TouchRead, Touching, Respond
<1>17. CASE HandOver
  BY <1>17 DEF HandOver, GoTo
<1>18. CASE StartLock
  BY <1>18 DEF StartLock, GoTo
<1>19. CASE StartNotify
  BY <1>19 DEF StartNotify, GoTo
<1>20. CASE UNCHANGED vars
  BY <1>20 DEF vars
<1> QED
  BY <1>1, <1>2, <1>3, <1>4, <1>5, <1>6, <1>7, <1>8, <1>9, <1>10, <1>11, <1>12, <1>13,
     <1>14, <1>15, <1>16, <1>17, <1>18, <1>19, <1>20
  DEF Next, Worker, Arduino

(* RunControl implements the ownership protocol: the safety part of
   ImplementsOwnership, for any number of runs. *)
THEOREM RefinesOwnership == Spec => Ownership!Init /\ [][Ownership!Next]_(Ownership!vars)
  BY InitOwnership, NextOwnership, SpecIInv, PTL DEF Spec

-----------------------------------------------------------------------------
(* Liveness.  The provers know nothing of ENABLED: that the steps are enabled where
   their guards hold is a hypothesis. *)

(* When the steps that the fairness of Spec is about can be taken: the worker's
   unless it sleeps without a notification, the Arduino task's while the worker
   blocks, and the update that ends a run wherever there is an update. *)
Enabling ==
  /\ workerPc # "sleep" \/ notified => ENABLED <<Worker>>_vars
  /\ WorkerBlocks => ENABLED <<Arduino>>_vars
  /\ workerPc = "update" => ENABLED <<WorkerUpdate /\ ~Running'>>_vars

(* The wake-up of the worker is on its way from the hand-over on. *)
WakeUp ==
  /\ active /\ workerPc = "sleep" => notified \/ webPc = "start_notify"
  /\ webPc = "start_notify" => active \/ ~Running

(* The stages of a run: the worker has it, and is at p; or nobody has it, while
   the worker turns over in its sleep, or the Arduino task is at p. *)
Owned(p) == Running /\ active /\ workerPc = p
HandedOver == Running /\ active /\ workerPc = "sleep" /\ ~notified /\ webPc = "start_notify"
Woken    == Running /\ active /\ workerPc = "sleep" /\ notified
Turning(p, n) == Running /\ ~active /\ workerPc = p /\ notified = n
Free(p) == Running /\ ~active /\ workerPc = "sleep" /\ notified = FALSE /\ webPc = p

RunInv == IInv /\ WakeUp

(* No step of either task loses the wake-up. *)
LEMMA NextWakeUp == IInv /\ WakeUp /\ [Next]_vars => WakeUp'
<1> SUFFICES ASSUME IInv, WakeUp, [Next]_vars
             PROVE  WakeUp'
  OBVIOUS
<1> USE DEF IInv, Owners, WorkerOwns, ArduinoOwns, WorkerTouches, OwnedIsRunning, WakeUp,
            Running, WorkerBlocks, workerVars, arduinoVars, controllerVars, historyVars
<1>1. CASE Worker
  <2>1. CASE WorkerWake
    BY <2>1 DEF WorkerWake
  <2>2. CASE WorkerCheck
    BY <2>2 DEF WorkerCheck
  <2>3. CASE WorkerTakeStop \/ WorkerReceive \/ WorkerUpdate
    BY <2>3 DEF WorkerTakeStop, WorkerReceive, WorkerUpdate
  <2>4. CASE WorkerPublish
    BY <2>4 DEF WorkerPublish
  <2> QED
    BY <1>1, <2>1, <2>2, <2>3, <2>4 DEF Worker
<1>2. CASE Arduino
  BY <1>2 DEF Arduino, LoopCheckActive, IdlePass, Accept, NoRequest, ServeCheckActive, ServeStop,
              TouchStart, TouchStop, TouchClear, TouchRead, HandOver, StartLock, StartNotify,
              GoTo, Touching, Touch, Respond
<1>3. CASE UNCHANGED vars
  BY <1>3 DEF vars
<1> QED
  BY <1>1, <1>2, <1>3 DEF Next

(* The owners, the books of the stops and the wake-up, in every behaviour. *)
LEMMA RunInvariant == Spec => []RunInv
<1>1. Init => RunInv
  BY InitIInv DEF Init, RunInv, WakeUp
<1>2. RunInv /\ [Next]_vars => RunInv'
  BY NextTypeOK, NextOwners, NextStops, NextWakeUp DEF RunInv, IInv
<1> QED
  BY <1>1, <1>2, PTL DEF Spec

(* The stages in which the worker has its step to take, and the Arduino task. *)
WorkerStage ==
  \/ Woken \/ Turning("check", TRUE) \/ Turning("sleep", TRUE) \/ Turning("check", FALSE)
  \/ Owned("check") \/ Owned("take") \/ Owned("receive") \/ Owned("update") \/ Owned("publish")

ArduinoStage ==
  \/ HandedOver
  \/ Free("loop") \/ Free("idle_pass") \/ Free("web_idle") \/ Free("web_active")
  \/ Free("serve_idle") \/ Free("serve_active") \/ Free("touch_idle") \/ Free("touch_active")
  \/ Free("hand_over") \/ Free("start_lock")

(* A run is in one of its stages. *)
LEMMA Stages == RunInv /\ Running => WorkerStage \/ ArduinoStage
BY DEF WorkerStage, ArduinoStage, RunInv, IInv, TypeOK, Owners, WorkerOwns, ArduinoOwns, WorkerTouches, OwnedIsRunning, WakeUp,
       WorkerPcs, WebPcs, HandedOver, Woken, Owned, Turning, Free

(* A stage is left only for the next, by a step of its task. *)
WorkerMoves ==
  /\ Woken => (~<<Worker>>_vars /\ Woken') \/ Owned("check")' \/ ~Running'
  /\ Owned("check") => (~<<Worker>>_vars /\ Owned("check")') \/ Owned("take")'
  /\ Owned("take") => (~<<Worker>>_vars /\ Owned("take")') \/ Owned("receive")' \/ ~Running'
  /\ Owned("receive") => (~<<Worker>>_vars /\ Owned("receive")') \/ Owned("update")'
  /\ Owned("update") => \/ ~<<Worker>>_vars /\ Owned("update")'
                        \/ Owned("publish")' \/ ~Running'
  /\ Owned("publish") => (~<<Worker>>_vars /\ Owned("publish")') \/ Owned("check")'

(* The Arduino task disturbs none of the worker's stages. *)
LEMMA WorkerStages == RunInv /\ [Next]_vars => WorkerMoves
<1> SUFFICES ASSUME RunInv, [Next]_vars
             PROVE  WorkerMoves
  OBVIOUS
<1> USE DEF WorkerMoves, RunInv, IInv, Owners, WorkerOwns, ArduinoOwns, WorkerTouches, OwnedIsRunning, WakeUp,
            Woken, Owned, Running, WorkerBlocks, workerVars, arduinoVars, controllerVars, historyVars
<1>1. CASE Worker
  BY <1>1 DEF Worker, WorkerWake, WorkerCheck, WorkerTakeStop, WorkerReceive, WorkerUpdate,
              WorkerPublish
<1>2. CASE Arduino
  <2>1. \/ ~(Woken \/ Owned("check") \/ Owned("take") \/ Owned("update") \/ Owned("publish"))
    BY <1>2 DEF Arduino, LoopCheckActive, IdlePass, Accept, NoRequest, ServeCheckActive, ServeStop,
              TouchStart, TouchStop, TouchClear, TouchRead, HandOver, StartLock, StartNotify,
              GoTo, Touching, Touch, Respond
  <2>2. Owned("receive") => ~<<Worker>>_vars /\ Owned("receive")'
    <3>1. workerPc' = workerPc
      BY <1>2 DEF Arduino, LoopCheckActive, IdlePass, Accept, NoRequest, ServeCheckActive, ServeStop,
              TouchStart, TouchStop, TouchClear, TouchRead, HandOver, StartLock, StartNotify,
              GoTo, Touching, Touch, Respond
    <3>2. ~Worker
      BY <3>1 DEF Worker, WorkerWake, WorkerCheck, WorkerTakeStop, WorkerReceive, WorkerUpdate,
              WorkerPublish
    <3>3. Owned("receive") => Owned("receive")'
      BY <1>2 DEF Arduino, LoopCheckActive, IdlePass, Accept, NoRequest, ServeCheckActive, ServeStop,
              TouchStart, TouchStop, TouchClear, TouchRead, HandOver, StartLock, StartNotify,
              GoTo, Touching, Touch, Respond
    <3> QED
      BY <3>2, <3>3
  <2> QED
    BY <2>1, <2>2
<1>3. CASE UNCHANGED vars
  BY <1>3 DEF vars
<1> QED
  BY <1>1, <1>2, <1>3 DEF Next

(* Nobody has the run, and the worker sleeps. *)
Resting == Running /\ ~active /\ workerPc = "sleep" /\ ~notified

(* Asleep or waking for nothing, the worker comes to rest. *)
WorkerTurns ==
  /\ Turning("check", TRUE) => \/ ~<<Worker>>_vars /\ Turning("check", TRUE)'
                               \/ Turning("sleep", TRUE)'
  /\ Turning("sleep", TRUE) => \/ ~<<Worker>>_vars /\ Turning("sleep", TRUE)'
                               \/ Turning("check", FALSE)'
  /\ Turning("check", FALSE) => \/ ~<<Worker>>_vars /\ Turning("check", FALSE)'
                                \/ Resting'

(* A worker that turns over while nobody has the run is not in the way. *)
LEMMA TurningStages == RunInv /\ [Next]_vars => WorkerTurns
<1> SUFFICES ASSUME RunInv, [Next]_vars
             PROVE  WorkerTurns
  OBVIOUS
<1> USE DEF WorkerTurns, Resting, RunInv, IInv, Owners, WorkerOwns, ArduinoOwns, WorkerTouches, OwnedIsRunning, WakeUp,
            Turning, Running, WorkerBlocks, workerVars, arduinoVars, controllerVars, historyVars
<1>1. CASE Worker
  BY <1>1 DEF Worker, WorkerWake, WorkerCheck, WorkerTakeStop, WorkerReceive, WorkerUpdate,
              WorkerPublish
<1>2. CASE Arduino
  BY <1>2 DEF Arduino, LoopCheckActive, IdlePass, Accept, NoRequest, ServeCheckActive, ServeStop,
              TouchStart, TouchStop, TouchClear, TouchRead, HandOver, StartLock, StartNotify,
              GoTo, Touching, Touch, Respond
<1>3. CASE UNCHANGED vars
  BY <1>3 DEF vars
<1> QED
  BY <1>1, <1>2, <1>3 DEF Next

(* Where the Arduino task may be after p. *)
ArduinoMoves ==
  /\ Free("loop") => (~<<Arduino>>_vars /\ Free("loop")') \/ Free("idle_pass")'
  /\ Free("idle_pass") => \/ ~<<Arduino>>_vars /\ Free("idle_pass")'
                          \/ Free("web_idle")' \/ ~Running'
  /\ Free("web_idle") => \/ ~<<Arduino>>_vars /\ Free("web_idle")'
                         \/ Free("serve_idle")' \/ Free("hand_over")'
  /\ Free("web_active") => \/ ~<<Arduino>>_vars /\ Free("web_active")'
                           \/ Free("serve_active")' \/ Free("loop")'
  /\ Free("serve_idle") => (~<<Arduino>>_vars /\ Free("serve_idle")') \/ Free("touch_idle")'
  /\ Free("serve_active") => \/ ~<<Arduino>>_vars /\ Free("serve_active")'
                             \/ Free("touch_active")'
  /\ Free("touch_idle") => \/ ~<<Arduino>>_vars /\ Free("touch_idle")'
                           \/ Free("hand_over")' \/ ~Running'
  /\ Free("touch_active") => \/ ~<<Arduino>>_vars /\ Free("touch_active")'
                             \/ Free("loop")' \/ ~Running'
  /\ Free("hand_over") => (~<<Arduino>>_vars /\ Free("hand_over")') \/ Free("start_lock")'
  /\ Free("start_lock") => (~<<Arduino>>_vars /\ Free("start_lock")') \/ HandedOver'
  /\ HandedOver => (~<<Arduino>>_vars /\ HandedOver') \/ Woken'

(* A sleeping worker disturbs none of the Arduino task's stages. *)
LEMMA FreeStages == RunInv /\ [Next]_vars => ArduinoMoves
<1> SUFFICES ASSUME RunInv, [Next]_vars
             PROVE  ArduinoMoves
  OBVIOUS
<1> USE DEF ArduinoMoves, RunInv, IInv, Owners, WorkerOwns, ArduinoOwns, WorkerTouches, OwnedIsRunning, WakeUp,
            Free, HandedOver, Woken, Running, WorkerBlocks,
            workerVars, arduinoVars, controllerVars, historyVars
<1>1. CASE Worker
  <2>1. ~(workerPc = "sleep" /\ ~notified)
    BY <1>1 DEF Worker, WorkerWake, WorkerCheck, WorkerTakeStop, WorkerReceive, WorkerUpdate,
                WorkerPublish
  <2> QED
    BY <2>1
<1>2. CASE LoopCheckActive \/ IdlePass \/ NoRequest \/ HandOver \/ StartLock \/ StartNotify
  BY <1>2 DEF LoopCheckActive, IdlePass, NoRequest, HandOver, StartLock, StartNotify, GoTo
<1>3. CASE \E r \in Requests : Accept(r)
  BY <1>3 DEF Accept, GoTo
<1>4. CASE ServeCheckActive \/ ServeStop
  BY <1>4 DEF ServeCheckActive, ServeStop, Touch, Respond
<1>5. CASE TouchStart \/ TouchStop \/ TouchClear \/ TouchRead
  BY <1>5 DEF TouchStart, TouchStop, TouchClear, TouchRead, Touching, Respond
<1>6. CASE UNCHANGED vars
  BY <1>6 DEF vars
<1> QED
  BY <1>1, <1>2, <1>3, <1>4, <1>5, <1>6 DEF Next, Arduino

(* In each stage the task whose turn it is can take its step. *)
LEMMA StagesEnabled ==
  Enabling =>
    /\ WorkerStage => ENABLED <<Worker>>_vars
    /\ ArduinoStage => ENABLED <<Arduino>>_vars
    /\ Owned("update") => ENABLED <<WorkerUpdate /\ ~Running'>>_vars
BY DEF Enabling, WorkerStage, ArduinoStage, WorkerBlocks, Woken, Owned, Turning, Free, HandedOver

(* A run that was started ends, for any number of runs and whatever is asked for
   meanwhile, if the steps of either task are enabled as they are said to be. *)
THEOREM RunsEnd == Spec /\ []Enabling => RunEnds
<1>1. <<WorkerUpdate /\ ~Running'>>_vars => ~Running'
  OBVIOUS
<1>2. Resting /\ RunInv => ArduinoStage
  BY DEF Resting, ArduinoStage, Free, RunInv, IInv, TypeOK, WebPcs, WakeUp
<1>3. Spec /\ []Enabling =>
        (Woken \/ Owned("check") \/ Owned("take") \/ Owned("receive") \/ Owned("update")
           \/ Owned("publish") ~> ~Running)
  BY RunInvariant, WorkerStages, StagesEnabled, <1>1, PTL DEF Spec, Fairness, WorkerStage, WorkerMoves
<1>4. Spec /\ []Enabling => (ArduinoStage ~> Woken \/ ~Running)
  BY RunInvariant, FreeStages, StagesEnabled, PTL DEF Spec, Fairness, ArduinoStage, ArduinoMoves
<1>5. Spec /\ []Enabling =>
        (Turning("check", TRUE) \/ Turning("sleep", TRUE) \/ Turning("check", FALSE) ~> ArduinoStage)
  BY RunInvariant, TurningStages, StagesEnabled, <1>2, PTL DEF Spec, Fairness, WorkerStage, WorkerTurns
<1> QED
  BY RunInvariant, <1>3, <1>4, <1>5, Stages, PTL DEF RunEnds, WorkerStage

(* The abstract steps are enabled at most where their guards hold. *)
OwnershipEnabling ==
  /\ ENABLED <<Ownership!HandOver>>_(Ownership!vars) => Running
  /\ ENABLED <<Ownership!EndRun>>_(Ownership!vars) => Running
  /\ ENABLED <<Ownership!ReturnBack>>_(Ownership!vars) => active /\ ~Running

(* The run is over and the worker is about to give the controller back. *)
Returning == active /\ ~Running

(* The two tasks implement RunOwnership with its fairness: the controller is handed
   over, the run ends and the controller comes back, if the steps of either task
   are enabled as they are said to be, and the abstract steps only so. *)
THEOREM Implementation == Spec /\ []Enabling /\ []OwnershipEnabling => ImplementsOwnership
<1>1. RunInv /\ [Next]_vars => (Returning => (~<<Worker>>_vars /\ Returning') \/ ~Returning')
  <2> SUFFICES ASSUME RunInv, [Next]_vars, Returning, <<Worker>>_vars
               PROVE  ~Returning'
    OBVIOUS
  <2>1. workerPc = "publish"
    BY DEF Returning, RunInv, IInv, Owners, OwnedIsRunning
  <2>2. WorkerPublish
    BY <2>1 DEF Worker, WorkerWake, WorkerCheck, WorkerTakeStop, WorkerReceive, WorkerUpdate
  <2> QED
    BY <2>2 DEF WorkerPublish, Returning
<1>2. RunInv /\ Enabling /\ Returning => ENABLED <<Worker>>_vars
  BY DEF Returning, RunInv, IInv, Owners, OwnedIsRunning, Enabling
<1>3. Spec /\ []Enabling => []<>~Returning
  BY RunInvariant, <1>1, <1>2, PTL DEF Spec, Fairness
<1>4. Spec /\ []Enabling => []<>~Running
  BY RunsEnd, PTL DEF RunEnds
<1> QED
  BY RefinesOwnership, <1>3, <1>4, PTL DEF ImplementsOwnership, Ownership!Spec, Ownership!Fairness, OwnershipEnabling, Returning

-----------------------------------------------------------------------------
(* The audit of a run. *)

AuditTyped ==
  audit \in [epoch : 0 .. MaxRuns, requests : 0 .. 2, consumed : 0 .. 1,
             steps : 0 .. 3 * RecentSize - 1,
             recent : [0 .. RecentSize - 1 -> [run : Nat, step : Nat]],
             completion : {"none", "passed", "over"}]

(* The audit is of the run the worker owns, and of an earlier one from the start
   of the next run to its hand-over. *)
AuditEpoch ==
  /\ audit.epoch <= run
  /\ active => audit.epoch = run
  /\ Running => run > 0

(* The counts of the requests agree with what became of them, and the step that
   took one is the last. *)
AuditBooks ==
  /\ audit.consumed <= audit.requests
  /\ audit.epoch > 0 => /\ audit.requests > 0 <=> stopRun = audit.epoch
                        /\ audit.consumed = 1 <=> estopBy = audit.epoch
  /\ active /\ stopRequested => audit.requests > 0 /\ audit.consumed = 0
  /\ active /\ audit.consumed = 1 => workerPc = "publish" /\ ~Running

(* The last steps, at most as many as the ring has slots, lie in a row. *)
LastSteps(a) ==
  \A k \in 0 .. a.steps - 1 :
    a.steps - RecentSize <= k => a.recent[k % RecentSize] = [run |-> a.epoch, step |-> Step(k)]

AInv == AuditTyped /\ AuditEpoch /\ AuditBooks /\ LastSteps(audit)

-----------------------------------------------------------------------------

(* Where a step of the first three turns of a ring of n slots lies. *)
LEMMA Turns ==
  ASSUME NEW n \in Nat \ {0}, NEW k \in 0 .. 3 * n - 1
  PROVE  k % n = IF k < n THEN k ELSE IF k < 2 * n THEN k - n ELSE k - 2 * n
OBVIOUS

(* A step is put in the slot of the oldest, and its number never tells the turn
   the count fell back. *)
LEMMA Recorded ==
  ASSUME AuditTyped, LastSteps(audit), audit.epoch = run, run \in Nat,
         NEW a, a = [audit EXCEPT !.consumed = a.consumed, !.completion = a.completion],
         a.consumed \in 0 .. 1, a.completion \in {"none", "passed", "over"},
         audit' = RecordStep(a)
  PROVE  /\ AuditTyped' /\ LastSteps(audit')
         /\ audit'.epoch = audit.epoch /\ audit'.requests = audit.requests
         /\ audit'.consumed = a.consumed
<1> DEFINE n == RecentSize
           s == audit.steps
           slot == s % n
           entry == [run |-> run, step |-> Step(s)]
<1> USE RunAuditAssumption
<1>1. s \in 0 .. 3 * n - 1 /\ n \in Nat \ {0}
  BY DEF AuditTyped
<1>2. slot \in 0 .. n - 1 /\ Step(s) \in Nat
  BY <1>1 DEF Step
<1>3. a.steps = s /\ a.epoch = audit.epoch /\ a.requests = audit.requests /\ a.recent = audit.recent
  BY DEF AuditTyped
<1>4. audit' = [a EXCEPT !.recent = [@ EXCEPT ![slot] = entry], !.steps = CountStep(s)]
  BY <1>3 DEF RecordStep
<1>5. /\ audit'.epoch = audit.epoch /\ audit'.requests = audit.requests
      /\ audit'.consumed = a.consumed /\ audit'.completion = a.completion
      /\ audit'.steps = CountStep(s) /\ audit'.recent = [audit.recent EXCEPT ![slot] = entry]
      /\ audit' = [epoch |-> audit.epoch, requests |-> audit.requests, consumed |-> a.consumed,
                   steps |-> CountStep(s), recent |-> audit'.recent, completion |-> a.completion]
  BY <1>3, <1>4 DEF AuditTyped
<1>6. CountStep(s) \in 0 .. 3 * n - 1 /\ (CountStep(s) = s + 1 \/ (CountStep(s) = n /\ s + 1 = 3 * n))
  BY <1>1 DEF CountStep
<1>7. entry \in [run : Nat, step : Nat]
  BY <1>2
<1>8. audit'.recent \in [0 .. n - 1 -> [run : Nat, step : Nat]]
  BY <1>2, <1>5, <1>7 DEF AuditTyped
<1>9. AuditTyped'
  BY <1>5, <1>6, <1>8 DEF AuditTyped
<1>10. ASSUME NEW k \in 0 .. audit'.steps - 1, audit'.steps - n <= k
       PROVE  audit'.recent[k % n] = [run |-> audit'.epoch, step |-> Step(k)]
  <2> DEFINE j == IF CountStep(s) = s + 1 THEN k ELSE k + 2 * n
  <2>1. j \in 0 .. s /\ s - n < j
    BY <1>1, <1>5, <1>6, <1>10
  <2>2. j \in 0 .. 3 * n - 1 /\ k \in 0 .. 3 * n - 1
    BY <1>1, <1>5, <1>6, <1>10, <2>1
  <2>3. j % n = k % n /\ j % n \in 0 .. n - 1
    BY <1>1, <1>5, <1>6, <1>10, <2>2, Turns
  <2>4. 2 * n \in Nat \ {0} /\ j \in 0 .. 3 * (2 * n) - 1 /\ k \in 0 .. 3 * (2 * n) - 1
    BY <1>1, <2>2
  <2>5. Step(j) = Step(k)
    <3>1. j % (2 * n) = IF j < 2 * n THEN j ELSE j - 2 * n
      BY <1>1, <2>2, <2>4, Turns
    <3>2. k % (2 * n) = IF k < 2 * n THEN k ELSE k - 2 * n
      BY <1>1, <2>2, <2>4, Turns
    <3> QED
      BY <3>1, <3>2, <1>1, <1>5, <1>6, <1>10, <2>2 DEF Step
  <2>6. CASE j = s
    <3>1. k % n = slot /\ Step(k) = Step(s)
      BY <2>3, <2>5, <2>6
    <3>2. audit'.recent[slot] = entry
      BY <1>2, <1>5 DEF AuditTyped
    <3> QED
      BY <1>5, <3>1, <3>2
  <2>7. CASE j # s
    <3>1. j \in 0 .. s - 1 /\ s - n <= j
      BY <1>1, <2>1, <2>7
    <3>2. audit.recent[j % n] = [run |-> audit.epoch, step |-> Step(j)]
      BY <3>1 DEF LastSteps
    <3>3. j % n # slot
      <4>1. j % n = IF j < n THEN j ELSE IF j < 2 * n THEN j - n ELSE j - 2 * n
        BY <1>1, <2>2, Turns
      <4>2. slot = IF s < n THEN s ELSE IF s < 2 * n THEN s - n ELSE s - 2 * n
        BY <1>1, Turns
      <4> HIDE DEF s, n, slot, j
      <4> QED
        BY <1>1, <2>1, <2>2, <3>1, <4>1, <4>2
    <3> QED
      BY <1>2, <1>5, <2>3, <2>5, <3>2, <3>3, SMTT(30) DEF AuditTyped
  <2> QED
    BY <2>6, <2>7
<1> QED
  BY <1>5, <1>9, <1>10 DEF LastSteps

(* Every step of the audited tasks is one of the tasks. *)
LEMMA AuditedStep == [RunAuditNext]_runAuditVars => [Next]_vars
BY DEF RunAuditNext, runAuditVars, TakeStop, Update, Stop, Start, AuditElsewhere,
       Next, Worker, Arduino

(* A step that leaves the audit alone, and with it the worker's count of stops. *)
LEMMA NotAudited ==
  ASSUME IInv, AInv, AuditElsewhere \/ UNCHANGED runAuditVars
  PROVE  AInv'
<1> USE RunControlAssumption DEF IInv, TypeOK, Owners, OwnedIsRunning, Stops, StopBooks, StopIsForItsRun,
            WorkerOwns, ArduinoOwns, WorkerTouches, Running, WorkerBlocks,
            workerVars, arduinoVars, controllerVars, historyVars, auditVars
<1>1. audit' = audit
  BY DEF AuditElsewhere, runAuditVars
<1>2. AuditTyped' /\ LastSteps(audit')
  BY <1>1 DEF AInv, AuditTyped
<1>3. audit.epoch \in 0 .. MaxRuns /\ audit.requests \in 0 .. 2 /\ audit.consumed \in 0 .. 1
  BY DEF AInv, AuditTyped
<1> USE <1>1, <1>3 DEF AuditEpoch, AuditBooks, AInv
<1>4. ASSUME WorkerWake \/ WorkerCheck \/ WorkerReceive \/ LoopCheckActive \/ NoRequest \/ ServeCheckActive
             \/ TouchRead \/ TouchStop \/ TouchClear \/ HandOver \/ StartNotify
      PROVE  AuditEpoch' /\ AuditBooks'
  BY <1>4 DEF WorkerWake, WorkerCheck, WorkerReceive, LoopCheckActive, NoRequest, ServeCheckActive,
              TouchRead, TouchStop, TouchClear, HandOver, StartNotify, GoTo, Touching, Touch, Respond
<1>5. ASSUME WorkerPublish
      PROVE  AuditEpoch' /\ AuditBooks'
  BY <1>5 DEF WorkerPublish
<1>6. ASSUME IdlePass
      PROVE  AuditEpoch' /\ AuditBooks'
  BY <1>6 DEF IdlePass, GoTo
<1>7. ASSUME NEW r \in Requests, Accept(r)
      PROVE  AuditEpoch' /\ AuditBooks'
  BY <1>7 DEF Accept, GoTo
<1>8. ASSUME TouchStart
      PROVE  AuditEpoch' /\ AuditBooks'
  BY <1>8 DEF TouchStart, Touching, Respond
<1>9. ASSUME UNCHANGED runAuditVars
      PROVE  AuditEpoch' /\ AuditBooks'
  BY <1>9 DEF runAuditVars, vars
<1> QED
  BY <1>2, <1>4, <1>5, <1>6, <1>7, <1>8, <1>9 DEF AuditElsewhere

(* The books of the audit survive every step of the two tasks. *)
LEMMA NextAInv == IInv /\ AInv /\ [RunAuditNext]_runAuditVars => AInv'
<1> SUFFICES ASSUME IInv, AInv, [RunAuditNext]_runAuditVars
             PROVE  AInv'
  OBVIOUS
<1> USE RunControlAssumption DEF IInv, TypeOK, Owners, OwnedIsRunning, Stops, StopBooks, StopIsForItsRun,
            WorkerOwns, ArduinoOwns, WorkerTouches, Running, WorkerBlocks,
            workerVars, arduinoVars, controllerVars, historyVars, auditVars
<1>1. audit.epoch \in 0 .. MaxRuns /\ audit.requests \in 0 .. 2 /\ audit.consumed \in 0 .. 1
      /\ audit.completion \in {"none", "passed", "over"}
  BY DEF AInv, AuditTyped
<1>2. CASE TakeStop /\ stopRequested
  <2> DEFINE a == [audit EXCEPT !.consumed = audit.consumed + 1]
  <2>1. active /\ audit.epoch = run /\ run \in Nat /\ audit.requests > 0 /\ audit.consumed = 0
    BY <1>1, <1>2 DEF TakeStop, WorkerTakeStop, AInv, AuditEpoch, AuditBooks
  <2>2. a.consumed = 1 /\ a.completion \in {"none", "passed", "over"} /\ audit' = RecordStep(a)
    BY <1>1, <1>2, <2>1 DEF TakeStop, AInv, AuditTyped
  <2>3. a = [audit EXCEPT !.consumed = a.consumed, !.completion = a.completion]
    BY <2>2 DEF AInv, AuditTyped
  <2>4. /\ AuditTyped' /\ LastSteps(audit')
        /\ audit'.epoch = audit.epoch /\ audit'.requests = audit.requests /\ audit'.consumed = 1
    <3> HIDE DEF a
    <3> QED
      <4>1. AuditTyped /\ LastSteps(audit) /\ a.consumed \in 0 .. 1
        BY <2>2 DEF AInv
      <4>2. /\ AuditTyped' /\ LastSteps(audit')
            /\ audit'.epoch = audit.epoch /\ audit'.requests = audit.requests /\ audit'.consumed = a.consumed
        BY <4>1, <2>1, <2>2, <2>3, Recorded
      <4> QED
        BY <2>2, <4>2
  <2>5. /\ estopBy' = run /\ stopRequested' = FALSE /\ workerPc' = "publish" /\ runState' = "estop"
        /\ UNCHANGED <<active, run, stopRun>>
    BY <1>2 DEF TakeStop, WorkerTakeStop
  <2> QED
    BY <1>1, <2>1, <2>4, <2>5 DEF AInv, AuditEpoch, AuditBooks
<1>3. CASE TakeStop /\ ~stopRequested
  <2>1. audit' = audit /\ UNCHANGED <<active, run, stopRun, estopBy, runState>> /\ stopRequested' = FALSE
        /\ workerPc = "take"
    BY <1>3 DEF TakeStop, WorkerTakeStop
  <2> QED
    BY <1>1, <2>1 DEF AInv, AuditTyped, AuditEpoch, AuditBooks
<1>4. ASSUME NEW fresh \in BOOLEAN, NEW late \in BOOLEAN, Update(fresh, late)
      PROVE  AInv'
  <2> DEFINE a == Completed(audit, fresh, late)
  <2>1. active /\ audit.epoch = run /\ run \in Nat /\ audit.consumed = 0
    BY <1>1, <1>4 DEF Update, WorkerUpdate, AInv, AuditEpoch, AuditBooks
  <2>2. a.consumed = 0 /\ a.completion \in {"none", "passed", "over"} /\ audit' = RecordStep(a)
    BY <1>1, <1>4, <2>1 DEF Update, Completed, Add, AInv, AuditTyped
  <2>3. a = [audit EXCEPT !.consumed = a.consumed, !.completion = a.completion]
    BY <2>1, <2>2 DEF AInv, AuditTyped, Completed
  <2>4. /\ AuditTyped' /\ LastSteps(audit')
        /\ audit'.epoch = audit.epoch /\ audit'.requests = audit.requests /\ audit'.consumed = 0
    <3> HIDE DEF a
    <3> QED
      BY <1>1, <2>1, <2>2, <2>3, Recorded DEF AInv
  <2>5. run > 0 /\ UNCHANGED <<active, run, stopRun, estopBy, stopRequested>>
    BY <1>4, <2>1 DEF Update, WorkerUpdate, AInv, AuditEpoch
  <2> QED
    BY <1>1, <2>1, <2>4, <2>5 DEF AInv, AuditEpoch, AuditBooks
<1>5. CASE Stop /\ active
  <2> DEFINE r == IF audit.requests < 2 THEN audit.requests + 1 ELSE audit.requests
  <2>1. /\ audit' = [audit EXCEPT !.requests = r] /\ r \in 1 .. 2
    BY <1>1, <1>5 DEF Stop, AInv, AuditTyped
  <2>2. /\ audit'.requests = r /\ audit'.epoch = audit.epoch /\ audit'.consumed = audit.consumed
        /\ audit'.steps = audit.steps /\ audit'.recent = audit.recent /\ AuditTyped'
    BY <2>1 DEF AInv, AuditTyped
  <2>3. /\ stopRequested' = TRUE /\ stopRun' = run
        /\ UNCHANGED <<active, run, estopBy, workerPc, runState>> /\ workerPc \in {"sleep", "receive"}
    BY <1>5 DEF Stop, ServeStop
  <2>4. LastSteps(audit')
    BY <2>2 DEF AInv, LastSteps
  <2>5. audit.consumed = 0 /\ audit.epoch = run
    BY <1>1, <1>5, <2>3 DEF AInv, AuditEpoch, AuditBooks
  <2>6. estopBy # run \/ run = 0
    BY <1>1, <1>5, <2>5 DEF AInv, AuditBooks
  <2>7. AuditEpoch'
    BY <1>5, <2>2, <2>3 DEF AInv, AuditEpoch
  <2>8. AuditBooks'
    <3> HIDE DEF r
    <3> QED
      BY <1>1, <1>5, <2>1, <2>2, <2>3, <2>5, <2>6 DEF AInv, AuditBooks
  <2> QED
    BY <2>2, <2>4, <2>7, <2>8 DEF AInv
<1>6. CASE Stop /\ ~active
  <2>1. audit' = audit /\ UNCHANGED <<active, run, stopRun, estopBy, runState, stopRequested, workerPc>>
    BY <1>6 DEF Stop, ServeStop
  <2> QED
    BY <2>1 DEF AInv, AuditTyped, AuditEpoch, AuditBooks
<1>7. CASE Start
  <2>1. /\ audit' = NewAudit(run) /\ active' = TRUE /\ stopRequested' = FALSE
        /\ UNCHANGED <<run, stopRun, estopBy, runState>> /\ Running /\ ~active
    BY <1>7 DEF Start, StartLock, GoTo
  <2>2. run \in 0 .. MaxRuns /\ run > 0 /\ stopRun < run /\ estopBy < run
    BY <2>1 DEF AInv, AuditEpoch
  <2>3. AuditTyped'
    BY <2>1, <2>2, RunAuditAssumption DEF NewAudit, NoStep, AuditTyped
  <2>4. /\ audit'.epoch = run /\ audit'.requests = 0 /\ audit'.consumed = 0 /\ audit'.steps = 0
    BY <2>1 DEF NewAudit
  <2>5. LastSteps(audit')
    BY <2>4 DEF LastSteps
  <2> QED
    BY <2>1, <2>2, <2>3, <2>4, <2>5 DEF AInv, AuditEpoch, AuditBooks
<1> QED
  BY <1>2, <1>3, <1>4, <1>5, <1>6, <1>7, NotAudited DEF RunAuditNext

(* Under the audit the two tasks keep their inductive invariant, and it keeps its own. *)
LEMMA AuditedSpec == RunAuditSpec => [](IInv /\ AInv)
<1>1. RunAuditInit => IInv
  BY InitIInv DEF RunAuditInit
<1>2. RunAuditInit => AInv
  BY RunControlAssumption, RunAuditAssumption
  DEF RunAuditInit, Init, NewAudit, NoStep, AInv, AuditTyped, AuditEpoch, AuditBooks, LastSteps, Running
<1>3. IInv /\ AInv /\ [RunAuditNext]_runAuditVars => IInv' /\ AInv'
  BY AuditedStep, NextTypeOK, NextOwners, NextStops, NextAInv DEF IInv
<1> QED
  BY <1>1, <1>2, <1>3, PTL DEF RunAuditSpec

(* The audit in a log is of its own run: its stops are those that were asked for
   and taken in that run, and recent_steps lists the last steps in a row, for
   every number of runs and size of the ring. *)
THEOREM AuditCorrect == RunAuditSpec => []AuditOfOneRun
<1>1. IInv /\ AInv => AuditOfOneRun
  <2> SUFFICES ASSUME IInv, AInv
               PROVE  AuditOfOneRun
    OBVIOUS
  <2>1. ASSUME NEW i \in DOMAIN Recent
        PROVE  Recent[i] = [run |-> audit.epoch, step |-> Step(audit.steps - Count + i)]
    <3>1. /\ audit.steps \in Nat /\ RecentSize \in Nat \ {0} /\ i \in 0 .. Count - 1
          /\ Count = IF audit.steps < RecentSize THEN audit.steps ELSE RecentSize
      BY <2>1, RunAuditAssumption DEF Recent, Count, AInv, AuditTyped
    <3> DEFINE k == audit.steps - Count + i
    <3>2. k \in 0 .. audit.steps - 1 /\ audit.steps - RecentSize <= k
      BY <3>1
    <3>3. audit.recent[k % RecentSize] = [run |-> audit.epoch, step |-> Step(k)]
      BY <3>2 DEF AInv, LastSteps
    <3>4. Recent[i] = audit.recent[k % RecentSize]
      BY <3>1 DEF Recent
    <3> QED
      BY <3>3, <3>4
  <2> QED
    BY <2>1 DEF AuditOfOneRun, AInv, AuditBooks
<1> QED
  BY AuditedSpec, <1>1, PTL
=============================================================================
