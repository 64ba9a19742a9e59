------------------------------ MODULE ControlPage ------------------------------
(***************************************************************************)
(* The control page in a browser, and the network between it and RunControl.*)
(*                                                                         *)
(* The page polls /status.json, sends start and stop, and locks its buttons *)
(* by what it believes.  A request waits for the device, which serves one    *)
(* at a time; its answer comes at any time later, in any order, or is lost  *)
(* (the page also gives a poll up after 1.5 s).  Other browsers, and         *)
(* requests the page gave up, stay RunControl's own.  The clear button is     *)
(* left out: its request is one of those others, and it changes nothing here *)
(* but by the poll that follows.                                             *)
(***************************************************************************)
EXTENDS RunControl

VARIABLES
  startPending, displayFrozen, downloading,
  lastStatus,   \* lastStatus: what the page was last told
  unlocked,     \* the buttons that may be pressed: "start" is #energy
  stale,        \* the poll under way was sent in an older controlEpoch
  sent,         \* the page's requests that wait for the device
  mine,         \* the request being served is the page's
  answers,      \* answers under way to the page
  frozenRun,    \* history: the run the display was frozen for
  pressed       \* history: a download was begun since the display was frozen

displayVars == <<startPending, displayFrozen, downloading, lastStatus, unlocked, stale>>
networkVars == <<sent, mine, answers>>
frozenVars == <<frozenRun, pressed>>
pageVars == <<displayVars, networkVars, frozenVars>>
allVars  == <<vars, pageVars>>

Calls == {"status", "start", "stop"}

(* What a status tells: whether a run is on and which, and whether one may start. *)
Told    == [on : BOOLEAN, ready : BOOLEAN, run : 0 .. MaxRuns]
Unknown == [on |-> FALSE, ready |-> FALSE, run |-> 0]

Awaited == sent \cup {a.of : a \in answers}
             \cup (IF mine THEN {request} ELSE {})
RefreshInFlight == "status" \in Awaited

PageInit ==
  /\ Init
  /\ startPending = FALSE /\ displayFrozen = FALSE /\ downloading = FALSE
  /\ lastStatus = Unknown /\ unlocked = {} /\ stale = FALSE
  /\ sent = {"status"} /\ mine = FALSE /\ answers = {}
  /\ frozenRun = 0 /\ pressed = FALSE

-----------------------------------------------------------------------------
(* The device. *)

(* What the handler of request r answers: active() is asked once, and an owned
   run is told from the snapshot. *)
Reply(r) ==
  LET owned == webPc \in {"serve_idle", "serve_active"}
  IN  CASE r = "status" ->
             [of |-> r, ok |-> TRUE,
              told |-> IF owned THEN [on |-> snapshot.running, ready |-> FALSE, run |-> snapshot.run]
                       ELSE [on |-> Running, ready |-> runState \in {"ready", "finished"}, run |-> run]]
        [] r = "start" -> [of |-> r, ok |-> run' # run, told |-> [Unknown EXCEPT !.run = run']]
        [] OTHER       -> [of |-> r, ok |-> TRUE, told |-> Unknown]

(* A step of the device that neither takes nor answers a request. *)
Alone ==
  /\ Worker \/ LoopCheckActive \/ IdlePass \/ NoRequest \/ HandOver \/ StartLock \/ StartNotify
  /\ UNCHANGED pageVars

AcceptMine(r) ==
  /\ r \in sent /\ Accept(r)
  /\ sent' = sent \ {r} /\ mine' = TRUE
  /\ UNCHANGED <<displayVars, answers, frozenVars>>

AcceptOther(r) == Accept(r) /\ UNCHANGED pageVars

Serve ==
  /\ ServeCheckActive \/ ServeStop \/ TouchStart \/ TouchStop \/ TouchClear \/ TouchRead
  /\ IF mine /\ request' = "none"
       THEN mine' = FALSE /\ answers' = answers \cup {Reply(request)}
       ELSE UNCHANGED <<mine, answers>>
  /\ UNCHANGED <<displayVars, sent, frozenVars>>

-----------------------------------------------------------------------------
(* The page. *)

Forget(r) ==
  /\ sent' = sent \ {r}
  /\ mine' = (mine /\ request # r)
  /\ answers' = {a \in answers : a.of # r}

(* apply: the buttons, by status j, and by whether the page itself is busy. *)
Apply(j, busy) ==
  unlocked' = (IF j.on \/ ~j.ready \/ busy THEN {} ELSE {"start"})
                \cup (IF j.on THEN {"stop"} ELSE {})

(* refresh: a poll unless one is under way; requests: what is sent besides. *)
RefreshAlso(requests) ==
  IF RefreshInFlight
    THEN sent' = sent \cup requests /\ stale' = stale
    ELSE sent' = sent \cup requests \cup {"status"} /\ stale' = FALSE

(* The interval of a second. *)
Refresh ==
  /\ ~RefreshInFlight
  /\ RefreshAlso({})
  /\ UNCHANGED <<vars, startPending, displayFrozen, downloading, lastStatus, unlocked,
                 mine, answers, frozenVars>>

(* The display freezes, for run r: only the stop button may be pressed. *)
ApplyFrozenState(r) ==
  displayFrozen' = TRUE /\ unlocked' = {"stop"} /\ frozenRun' = r /\ pressed' = FALSE

(* A status of an older epoch says nothing. *)
RefreshAnswered(a) ==
  /\ a \in answers /\ a.of = "status"
  /\ Forget("status")
  /\ IF stale
       THEN UNCHANGED <<lastStatus, displayFrozen, unlocked, frozenVars>>
       ELSE /\ lastStatus' = a.told
            /\ IF a.told.on
                 THEN ApplyFrozenState(a.told.run)
                 ELSE /\ displayFrozen' = FALSE /\ Apply(a.told, downloading \/ startPending)
                      /\ pressed' = FALSE /\ UNCHANGED frozenRun
  /\ UNCHANGED <<vars, startPending, downloading, stale>>

(* Mutant: it locks the buttons of a frozen display too. *)
RefreshFailedLocks ==
  /\ RefreshInFlight
  /\ Forget("status")
  /\ unlocked' = {}
  /\ UNCHANGED <<vars, startPending, displayFrozen, downloading, lastStatus, stale, frozenVars>>

(* A poll that fails: of whatever epoch, it locks every button, unless the display
   is frozen. *)
RefreshFailed ==
  /\ RefreshInFlight
  /\ Forget("status")
  /\ unlocked' = IF displayFrozen THEN unlocked ELSE {}
  /\ UNCHANGED <<vars, startPending, displayFrozen, downloading, lastStatus, stale, frozenVars>>

(* Mutant: the buttons stay as they are until the answer. *)
StartEnergyUnlocked ==
  /\ "start" \in unlocked /\ ~startPending
  /\ startPending' = TRUE
  /\ sent' = sent \cup {"start"} /\ stale' = TRUE
  /\ UNCHANGED <<vars, displayFrozen, downloading, lastStatus, unlocked, mine, answers, frozenVars>>

(* startEnergy: a new epoch, and the start button is locked before the request. *)
StartEnergy ==
  /\ "start" \in unlocked /\ ~startPending
  /\ startPending' = TRUE /\ UNCHANGED downloading
  /\ Apply(lastStatus, TRUE)
  /\ sent' = sent \cup {"start"} /\ stale' = TRUE
  /\ UNCHANGED <<vars, displayFrozen, lastStatus, mine, answers, frozenVars>>

(* Mutant: the answer begins no epoch. *)
StartSameEpoch(a) ==
  /\ a \in answers /\ a.of = "start"
  /\ startPending' = FALSE
  /\ IF a.ok
       THEN ApplyFrozenState(a.told.run)
       ELSE UNCHANGED <<displayFrozen, unlocked, frozenVars>>
  /\ answers' = answers \ {a}
  /\ RefreshAlso({})
  /\ UNCHANGED <<vars, downloading, lastStatus, mine>>

(* The answer to a start: another epoch, so a poll under way is stale, and goes on. *)
StartAnswered(a) ==
  /\ a \in answers /\ a.of = "start"
  /\ startPending' = FALSE
  /\ IF a.ok
       THEN ApplyFrozenState(a.told.run)
       ELSE UNCHANGED <<displayFrozen, unlocked, frozenVars>>
  /\ answers' = answers \ {a}
  /\ sent' = IF RefreshInFlight THEN sent ELSE sent \cup {"status"}
  /\ stale' = RefreshInFlight
  /\ UNCHANGED <<vars, downloading, lastStatus, mine>>

StartFailed ==
  /\ "start" \in Awaited
  /\ startPending' = FALSE
  /\ mine' = (mine /\ request # "start")
  /\ answers' = {a \in answers : a.of # "start"}
  /\ sent' = (sent \ {"start"}) \cup (IF RefreshInFlight THEN {} ELSE {"status"})
  /\ stale' = RefreshInFlight
  /\ UNCHANGED <<vars, displayFrozen, downloading, lastStatus, unlocked, frozenVars>>

(* postStop thaws the display first; one more press adds nothing to a stop that
   is still to be sent. *)
PostStop ==
  /\ "stop" \in unlocked
  /\ displayFrozen' = FALSE /\ pressed' = FALSE
  /\ sent' = sent \cup {"stop"}
  /\ UNCHANGED <<vars, startPending, downloading, lastStatus, unlocked, stale, mine, answers, frozenRun>>

StopAnswered(a) ==
  /\ a \in answers /\ a.of = "stop"
  /\ answers' = answers \ {a}
  /\ RefreshAlso({})
  /\ UNCHANGED <<vars, startPending, displayFrozen, downloading, lastStatus, unlocked, mine, frozenVars>>

StopFailed ==
  /\ "stop" \in Awaited
  /\ Forget("stop")
  /\ UNCHANGED <<vars, displayVars, frozenVars>>

(* The link is locked by its style alone, which keeps a pointer from it but not
   the keyboard: a download may be begun at any time, also while another is, and
   shows the last status again, over a display that is frozen. *)
BeginDownload ==
  /\ downloading' = TRUE /\ UNCHANGED startPending
  /\ Apply(lastStatus, TRUE)
  /\ pressed' = displayFrozen
  /\ UNCHANGED <<vars, displayFrozen, lastStatus, stale, networkVars, frozenRun>>

(* Three seconds after one of them. *)
EndDownload ==
  /\ downloading
  /\ downloading' = FALSE
  /\ RefreshAlso({})
  /\ UNCHANGED <<vars, startPending, displayFrozen, lastStatus, unlocked, mine, answers, frozenVars>>

Page ==
  \/ Refresh \/ RefreshFailed
  \/ StartEnergy \/ StartFailed \/ PostStop \/ StopFailed
  \/ BeginDownload \/ EndDownload
  \/ \E a \in answers : RefreshAnswered(a) \/ StartAnswered(a) \/ StopAnswered(a)

PageNext ==
  \/ Alone \/ Serve
  \/ \E r \in Calls : AcceptMine(r)
  \/ \E r \in Requests : AcceptOther(r)
  \/ Page

PageSpec == PageInit /\ [][PageNext]_allVars /\ Fairness

-----------------------------------------------------------------------------
(* A display frozen for a run thaws on a stop, or on a status the device gave
   when that run was over: one given before the run began, and still under way
   when its start was answered, shows nothing. *)
ThawsWhenOver ==
  [][displayFrozen /\ ~displayFrozen' =>
       PostStop \/ (lastStatus'.run >= frozenRun /\ ~lastStatus'.on)]_pageVars

(* A second run cannot be started while the page starts one, shows one or
   downloads; and one it shows can be stopped, whatever order polls, answers,
   timers and presses come in.  The exception: a download that is begun after a
   start was answered, and before a status tells of its run, shows the status of
   before and locks the stop until the next (beginDownload, applyFrozenState). *)
ButtonsSafe ==
  /\ "start" \in unlocked => ~startPending /\ ~displayFrozen /\ ~downloading
  /\ displayFrozen => "stop" \in unlocked \/ (pressed /\ ~lastStatus.on)
=============================================================================
