--------------------------- MODULE ControlPage_proofs ---------------------------
(***************************************************************************)
(* ControlPage for any number of runs: its buttons are safe, and a display   *)
(* frozen for a run thaws only when that run is over, in whatever order       *)
(* polls and answers come.                                                   *)
(***************************************************************************)
EXTENDS ControlPage, RunControl_proofs

(* What an answer under way may say: a status tells a run no later than the
   device's, and one that still counts, of a frozen display, no earlier than the
   run it is frozen for. *)
AnswerInv(a) ==
  /\ a.of = "status" =>
       /\ a.told.run \in Nat /\ a.told.run <= run
       /\ displayFrozen /\ ~stale => a.told.run >= frozenRun
  /\ a.of = "start" /\ a.ok => a.told.run \in Nat /\ a.told.run <= run

PageInv ==
  /\ frozenRun \in Nat /\ frozenRun <= run
  /\ \A a \in answers : AnswerInv(a)

-----------------------------------------------------------------------------
(* The buttons. *)

(* A second run cannot be started while the page starts one, shows one or
   downloads, and one it shows can be stopped, but for a download that is begun
   between a start's answer and the first status of its run (apply,
   applyFrozenState, refresh, startEnergy, beginDownload). *)
THEOREM ButtonsAreSafe == PageSpec => []ButtonsSafe
<1>1. PageInit => ButtonsSafe
  BY DEF PageInit, ButtonsSafe
<1>2. ButtonsSafe /\ [PageNext]_allVars => ButtonsSafe'
  <2>. SUFFICES ASSUME ButtonsSafe, [PageNext]_allVars PROVE ButtonsSafe'  OBVIOUS
  <2>u. ASSUME UNCHANGED <<startPending, displayFrozen, downloading, unlocked, lastStatus, pressed>>
        PROVE  ButtonsSafe'
    BY <2>u DEF ButtonsSafe
  <2>1. CASE Alone  BY <2>1, <2>u DEF Alone, pageVars, displayVars, frozenVars
  <2>2. CASE Serve  BY <2>2, <2>u DEF Serve, displayVars, frozenVars
  <2>3. ASSUME NEW r \in Calls, AcceptMine(r) PROVE ButtonsSafe'
    BY <2>3, <2>u DEF AcceptMine, displayVars, frozenVars
  <2>4. ASSUME NEW r \in Requests, AcceptOther(r) PROVE ButtonsSafe'
    BY <2>4, <2>u DEF AcceptOther, pageVars, displayVars, frozenVars
  <2>5. CASE Refresh  BY <2>5, <2>u DEF Refresh, frozenVars
  <2>6. CASE RefreshFailed  BY <2>6 DEF RefreshFailed, ButtonsSafe, frozenVars
  <2>7. CASE StartEnergy  BY <2>7 DEF StartEnergy, Apply, ButtonsSafe, frozenVars
  <2>8. CASE StartFailed  BY <2>8 DEF StartFailed, ButtonsSafe, frozenVars
  <2>9. CASE PostStop  BY <2>9 DEF PostStop, ButtonsSafe
  <2>10. CASE StopFailed  BY <2>10, <2>u DEF StopFailed, displayVars, frozenVars
  <2>11. CASE BeginDownload  BY <2>11 DEF BeginDownload, Apply, ButtonsSafe
  <2>12. CASE EndDownload  BY <2>12 DEF EndDownload, ButtonsSafe, frozenVars
  <2>13. ASSUME NEW a \in answers, RefreshAnswered(a) PROVE ButtonsSafe'
    <3>1. CASE stale  BY <2>13, <2>u, <3>1 DEF RefreshAnswered, frozenVars
    <3>2. CASE ~stale  BY <2>13, <3>2 DEF RefreshAnswered, ApplyFrozenState, Apply, ButtonsSafe
    <3>. QED  BY <3>1, <3>2
  <2>14. ASSUME NEW a \in answers, StartAnswered(a) PROVE ButtonsSafe'
    BY <2>14 DEF StartAnswered, ApplyFrozenState, ButtonsSafe, frozenVars
  <2>15. ASSUME NEW a \in answers, StopAnswered(a) PROVE ButtonsSafe'
    BY <2>15, <2>u DEF StopAnswered, frozenVars
  <2>16. CASE UNCHANGED allVars
    BY <2>16, <2>u DEF allVars, pageVars, displayVars, frozenVars
  <2>. QED  BY <2>1, <2>2, <2>3, <2>4, <2>5, <2>6, <2>7, <2>8, <2>9, <2>10, <2>11, <2>12,
               <2>13, <2>14, <2>15, <2>16 DEF PageNext, Page
<1>. QED  BY <1>1, <1>2, PTL DEF PageSpec

-----------------------------------------------------------------------------
(* The device under the page. *)

(* A step of the page leaves the device alone; the rest are its own. *)
LEMMA PageStep == [PageNext]_allVars => [Next]_vars
<1>. SUFFICES ASSUME [PageNext]_allVars PROVE [Next]_vars  OBVIOUS
<1>1. CASE Alone  BY <1>1 DEF Alone, Next, Arduino
<1>2. CASE Serve  BY <1>2 DEF Serve, Next, Arduino
<1>3. ASSUME NEW r \in Calls, AcceptMine(r) PROVE Next
  BY <1>3 DEF AcceptMine, Calls, Requests, Next, Arduino
<1>4. ASSUME NEW r \in Requests, AcceptOther(r) PROVE Next
  BY <1>4 DEF AcceptOther, Next, Arduino
<1>5. CASE Page
  <2>1. Refresh \/ RefreshFailed \/ StartEnergy \/ StartFailed \/ PostStop \/ StopFailed
          \/ BeginDownload \/ EndDownload => UNCHANGED vars
    BY DEF Refresh, RefreshFailed, StartEnergy, StartFailed, PostStop, StopFailed,
           BeginDownload, EndDownload
  <2>2. ASSUME NEW a, RefreshAnswered(a) \/ StartAnswered(a) \/ StopAnswered(a)
        PROVE  UNCHANGED vars
    BY <2>2 DEF RefreshAnswered, StartAnswered, StopAnswered
  <2>. QED  BY <1>5, <2>1, <2>2 DEF Page
<1>6. CASE UNCHANGED allVars  BY <1>6 DEF allVars
<1>. QED  BY <1>1, <1>2, <1>3, <1>4, <1>5, <1>6 DEF PageNext

LEMMA PageDevice == PageSpec => []IInv
<1>1. PageInit => IInv  BY InitIInv DEF PageInit
<1>2. IInv /\ [PageNext]_allVars => IInv'
  BY PageStep, NextTypeOK, NextOwners, NextStops DEF IInv
<1>. QED  BY <1>1, <1>2, PTL DEF PageSpec

(* No run id is given twice. *)
LEMMA RunsGoOn == IInv /\ [Next]_vars => run \in Nat /\ run' \in Nat /\ run' >= run
<1>. SUFFICES ASSUME IInv, [Next]_vars PROVE run \in Nat /\ run' \in Nat /\ run' >= run  OBVIOUS
<1>1. run \in Nat  BY RunControlAssumption DEF IInv, TypeOK
<1>2. CASE Worker
  BY <1>1, <1>2 DEF Worker, WorkerWake, WorkerCheck, WorkerTakeStop, WorkerReceive, WorkerUpdate,
                    WorkerPublish, controllerVars
<1>3. CASE LoopCheckActive \/ IdlePass \/ NoRequest \/ (\E r \in Requests : Accept(r))
  BY <1>1, <1>3 DEF LoopCheckActive, IdlePass, NoRequest, Accept, controllerVars
<1>4. CASE ServeCheckActive \/ ServeStop \/ TouchStop \/ TouchClear \/ TouchRead
  BY <1>1, <1>4 DEF ServeCheckActive, ServeStop, TouchStop, TouchClear, TouchRead, controllerVars
<1>5. CASE TouchStart
  BY <1>1, <1>5 DEF TouchStart, controllerVars
<1>6. CASE HandOver \/ StartLock \/ StartNotify
  BY <1>1, <1>6 DEF HandOver, StartLock, StartNotify, controllerVars
<1>7. CASE UNCHANGED vars
  BY <1>1, <1>7 DEF vars, controllerVars
<1>. QED  BY <1>2, <1>3, <1>4, <1>5, <1>6, <1>7 DEF Next, Arduino

(* The device answers of the run that is the latest when it answers. *)
LEMMA ReplyTells ==
  ASSUME IInv, [Next]_vars, ServeCheckActive \/ ServeStop \/ TouchStart \/ TouchStop \/ TouchClear \/ TouchRead,
         request' = "none"
  PROVE  /\ Reply(request).of = request
         /\ request = "status" => Reply(request).told.run = run /\ run' = run
         /\ request = "start" => Reply(request).told.run = run'
<1>1. request = "start" => Reply(request).of = "start" /\ Reply(request).told.run = run'
  BY DEF Reply, Unknown
<1>2. ASSUME request = "status"
      PROVE  Reply(request).of = "status" /\ Reply(request).told.run = run /\ run' = run
  <2>1. CASE ServeCheckActive
    <3>1. active /\ webPc \in {"serve_idle", "serve_active"} /\ run' = run
      BY <1>2, <2>1 DEF ServeCheckActive, Touch, Respond, controllerVars, IInv, Owners, ArduinoOwns
    <3>2. snapshot = [run |-> run, running |-> TRUE]
      BY <3>1 DEF IInv, Owners, SnapshotIsCurrent
    <3>. QED  BY <1>2, <3>1, <3>2 DEF Reply
  <2>2. CASE TouchRead
    <3>1. webPc \notin {"serve_idle", "serve_active"} /\ run' = run
      BY <2>2 DEF TouchRead, Touching, controllerVars
    <3>. QED  BY <1>2, <3>1 DEF Reply
  <2>. QED  BY <1>2, <2>1, <2>2 DEF ServeStop, TouchStart, TouchStop, TouchClear
<1>3. request \notin {"status", "start"} => Reply(request).of = request
  BY DEF Reply
<1>. QED  BY <1>1, <1>2, <1>3

-----------------------------------------------------------------------------
(* The display. *)

LEMMA NextPage == IInv /\ PageInv /\ [PageNext]_allVars => PageInv'
<1>. SUFFICES ASSUME IInv, PageInv, [PageNext]_allVars PROVE PageInv'  OBVIOUS
<1>. USE DEF frozenVars
<1>r. run \in Nat /\ run' \in Nat /\ run' >= run  BY PageStep, RunsGoOn
(* A step that adds no answer, and after which none counts that did not. *)
<1>u. ASSUME answers' \subseteq answers, frozenRun' = frozenRun,
             displayFrozen' /\ ~stale' =>
               (displayFrozen /\ ~stale) \/ \A a \in answers' : a.of # "status"
      PROVE  PageInv'
  <2>1. frozenRun' \in Nat /\ frozenRun' <= run'  BY <1>r, <1>u DEF PageInv
  <2>2. ASSUME NEW a \in answers' PROVE AnswerInv(a)'
    <3>1. AnswerInv(a)  BY <1>u, <2>2 DEF PageInv
    <3>. QED  BY <1>r, <1>u, <3>1 DEF AnswerInv
  <2>. QED  BY <2>1, <2>2 DEF PageInv
<1>i. ~RefreshInFlight => \A a \in answers : a.of # "status"
  BY DEF RefreshInFlight, Awaited
<1>1. CASE Alone  BY <1>1, <1>u DEF Alone, pageVars, displayVars, networkVars
<1>2. CASE Serve
  <2>1. UNCHANGED <<displayFrozen, stale, frozenRun>>  BY <1>2 DEF Serve, displayVars
  <2>2. CASE mine /\ request' = "none"
    <3>1. PICK reply : reply = Reply(request) /\ answers' = answers \cup {reply}
      BY <1>2, <2>2 DEF Serve
    <3>2. AnswerInv(reply)'
      <4>1. /\ reply.of = request
            /\ request = "status" => reply.told.run = run /\ run' = run
            /\ request = "start" => reply.told.run = run'
        BY <1>2, <2>2, <3>1, PageStep, ReplyTells DEF Serve
      <4>2. frozenRun \in Nat /\ frozenRun <= run  BY DEF PageInv
      <4>. QED  BY <1>r, <2>1, <4>1, <4>2 DEF AnswerInv
    <3>3. ASSUME NEW a \in answers PROVE AnswerInv(a)'
      BY <1>r, <2>1 DEF PageInv, AnswerInv
    <3>. QED  BY <1>r, <2>1, <3>1, <3>2, <3>3 DEF PageInv
  <2>3. CASE ~(mine /\ request' = "none")
    BY <1>2, <1>u, <2>1, <2>3 DEF Serve
  <2>. QED  BY <2>2, <2>3
<1>3. ASSUME NEW r \in Calls, AcceptMine(r) PROVE PageInv'
  BY <1>3, <1>u DEF AcceptMine, displayVars
<1>4. ASSUME NEW r \in Requests, AcceptOther(r) PROVE PageInv'
  BY <1>4, <1>u DEF AcceptOther, pageVars, displayVars, networkVars
<1>5. CASE Refresh  BY <1>5, <1>i, <1>u DEF Refresh
<1>6. CASE RefreshFailed  BY <1>6, <1>u DEF RefreshFailed, Forget
<1>7. CASE StartEnergy  BY <1>7, <1>u DEF StartEnergy
<1>8. CASE StartFailed  BY <1>8, <1>i, <1>u DEF StartFailed
<1>9. CASE PostStop  BY <1>9, <1>u DEF PostStop
<1>10. CASE StopFailed  BY <1>10, <1>u DEF StopFailed, Forget, displayVars
<1>11. CASE BeginDownload  BY <1>11, <1>u DEF BeginDownload, networkVars
<1>12. CASE EndDownload  BY <1>12, <1>i, <1>u DEF EndDownload, RefreshAlso
<1>13. ASSUME NEW a \in answers, RefreshAnswered(a) PROVE PageInv'
  <2>1. answers' \subseteq answers /\ \A b \in answers' : b.of # "status"
    BY <1>13 DEF RefreshAnswered, Forget
  <2>2. frozenRun' = frozenRun \/ frozenRun' = a.told.run
    BY <1>13 DEF RefreshAnswered, ApplyFrozenState
  <2>3. a.told.run \in Nat /\ a.told.run <= run
    BY <1>13 DEF RefreshAnswered, PageInv, AnswerInv
  <2>4. frozenRun' \in Nat /\ frozenRun' <= run'  BY <1>r, <2>2, <2>3 DEF PageInv
  <2>5. ASSUME NEW b \in answers' PROVE AnswerInv(b)'
    <3>1. AnswerInv(b) /\ b.of # "status"  BY <2>1, <2>5 DEF PageInv
    <3>. QED  BY <1>r, <3>1 DEF AnswerInv
  <2>. QED  BY <2>4, <2>5 DEF PageInv
<1>14. ASSUME NEW a \in answers, StartAnswered(a) PROVE PageInv'
  <2>1. answers' \subseteq answers /\ (~stale' => \A b \in answers' : b.of # "status")
    BY <1>14, <1>i DEF StartAnswered
  <2>2. frozenRun' = frozenRun \/ (a.of = "start" /\ a.ok /\ frozenRun' = a.told.run)
    BY <1>14 DEF StartAnswered, ApplyFrozenState
  <2>3. a.of = "start" /\ a.ok => a.told.run \in Nat /\ a.told.run <= run
    BY DEF PageInv, AnswerInv
  <2>4. frozenRun' \in Nat /\ frozenRun' <= run'  BY <1>r, <2>2, <2>3 DEF PageInv
  <2>5. ASSUME NEW b \in answers' PROVE AnswerInv(b)'
    <3>1. AnswerInv(b)  BY <2>1, <2>5 DEF PageInv
    <3>. QED  BY <1>r, <2>1, <3>1 DEF AnswerInv
  <2>. QED  BY <2>4, <2>5 DEF PageInv
<1>15. ASSUME NEW a \in answers, StopAnswered(a) PROVE PageInv'
  BY <1>15, <1>i, <1>u DEF StopAnswered, RefreshAlso
<1>16. CASE UNCHANGED allVars
  BY <1>16, <1>u DEF allVars, pageVars, displayVars, networkVars
<1>. QED  BY <1>1, <1>2, <1>3, <1>4, <1>5, <1>6, <1>7, <1>8, <1>9, <1>10, <1>11, <1>12,
             <1>13, <1>14, <1>15, <1>16 DEF PageNext, Page

(* A display frozen for a run thaws on a stop, or on a status the device gave
   when that run was over (refresh, controlEpoch). *)
THEOREM ThawCorrect == PageSpec => ThawsWhenOver
<1>1. PageInit => PageInv
  BY DEF PageInit, Init, PageInv
<1>2. PageInv /\ [PageNext]_allVars =>
        [displayFrozen /\ ~displayFrozen' =>
           PostStop \/ (lastStatus'.run >= frozenRun /\ ~lastStatus'.on)]_pageVars
  <2>. SUFFICES ASSUME PageInv, [PageNext]_allVars,
                       displayFrozen, ~displayFrozen', ~PostStop
                PROVE  lastStatus'.run >= frozenRun /\ ~lastStatus'.on
    OBVIOUS
  <2>1. ASSUME NEW a \in answers, RefreshAnswered(a)
        PROVE  lastStatus'.run >= frozenRun /\ ~lastStatus'.on
    <3>1. ~stale /\ a.of = "status" /\ lastStatus' = a.told /\ ~a.told.on
      BY <2>1 DEF RefreshAnswered, ApplyFrozenState
    <3>. QED  BY <2>1, <3>1 DEF PageInv, AnswerInv
  <2>2. ~(Refresh \/ RefreshFailed \/ StartEnergy \/ StartFailed \/ StopFailed
            \/ BeginDownload \/ EndDownload)
    BY DEF Refresh, RefreshFailed, StartEnergy, StartFailed, StopFailed,
           BeginDownload, EndDownload, displayVars
  <2>3. ASSUME NEW a \in answers, StartAnswered(a) \/ StopAnswered(a) PROVE FALSE
    BY <2>3 DEF StartAnswered, ApplyFrozenState, StopAnswered
  <2>4. ~Alone /\ ~Serve /\ (\A r \in Calls : ~AcceptMine(r)) /\ (\A r \in Requests : ~AcceptOther(r))
    BY DEF Alone, Serve, AcceptMine, AcceptOther, pageVars, displayVars
  <2>5. ~UNCHANGED allVars  BY DEF allVars, pageVars, displayVars
  <2>. QED  BY <2>1, <2>2, <2>3, <2>4, <2>5 DEF PageNext, Page
<1>3. IInv /\ PageInv /\ [PageNext]_allVars => PageInv'  BY NextPage
<1>. QED  BY <1>1, <1>2, <1>3, PageDevice, PTL DEF PageSpec, ThawsWhenOver
=============================================================================
