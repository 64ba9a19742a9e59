-------------------------------- MODULE RunAudit --------------------------------
(***************************************************************************)
(* The audit that RunControlWorker keeps of a run and the log of the run     *)
(* reports: the stops asked for and taken, the last steps in a ring, and     *)
(* whether the samples of the measurement were through in time.  The Arduino *)
(* task counts the requests, the worker the rest, both under the spinlock of *)
(* RunControl; a start zeroes all of it, outside the lock.                   *)
(***************************************************************************)
EXTENDS RunControl

CONSTANT RecentSize  \* slots of Audit::recent

ASSUME RunAuditAssumption == RecentSize \in Nat \ {0}

VARIABLES
  audit,     \* audit_
  measuring  \* the runner's state is RUNNING_BATCH_SWEEP

auditVars    == <<audit, measuring>>
runAuditVars == <<vars, auditVars>>

(* A slot holds which step of which run it is of.  Only the last digits of a step
   count are kept: see Step. *)
NoStep == [run |-> 0, step |-> 0]

NewAudit(epoch) ==
  [epoch |-> epoch, requests |-> 0, consumed |-> 0, steps |-> 0,
   recent |-> [slot \in 0 .. RecentSize - 1 |-> NoStep], completion |-> "none"]

RunAuditInit ==
  /\ Init
  /\ audit = NewAudit(0) /\ measuring = FALSE

(* Bound: the steps are counted up to three turns of the ring, the third time
   as if it were the first full one, which no slot can tell. *)
CountStep(n) == IF n + 1 = 3 * RecentSize THEN RecentSize ELSE n + 1

Step(n) == n % (2 * RecentSize)

(* Mutant: the step is counted before it is put away. *)
RecordStepLate(a) ==
  [a EXCEPT !.recent[CountStep(a.steps) % RecentSize] = [run |-> run, step |-> Step(a.steps)],
            !.steps = CountStep(@)]

RecordStep(a) ==
  [a EXCEPT !.recent[a.steps % RecentSize] = [run |-> run, step |-> Step(a.steps)],
            !.steps = CountStep(@)]

(* Counter::add, of which a log tells whether one of the samples was late. *)
Add(counter, late) ==
  IF late THEN "over" ELSE IF counter = "none" THEN "passed" ELSE counter

(* recordSampleCompletion, of a step that found the run measuring. *)
Completed(a, fresh, late) ==
  IF measuring /\ fresh THEN [a EXCEPT !.completion = Add(@, late)] ELSE a

TakeStop ==
  /\ WorkerTakeStop
  /\ IF stopRequested
       THEN /\ audit' = RecordStep([audit EXCEPT !.consumed = @ + 1])
            /\ measuring' = FALSE
       ELSE UNCHANGED auditVars

(* When a run measures is told by Experiment; here, in any step of a run. *)
Update(fresh, late) ==
  /\ WorkerUpdate
  /\ audit' = RecordStep(Completed(audit, fresh, late))
  /\ measuring' \in (IF Running' THEN BOOLEAN ELSE {FALSE})

(* Bound: a request after the second is not counted. *)
Stop ==
  /\ ServeStop
  /\ audit' = IF active /\ audit.requests < 2 THEN [audit EXCEPT !.requests = @ + 1] ELSE audit
  /\ UNCHANGED measuring

(* Mutant: the audit goes on from the run before. *)
StartOn == StartLock /\ UNCHANGED auditVars

Start ==
  /\ StartLock
  /\ audit' = NewAudit(run)
  /\ UNCHANGED measuring

AuditElsewhere ==
  /\ \/ WorkerWake \/ WorkerCheck \/ WorkerReceive \/ WorkerPublish
     \/ LoopCheckActive \/ IdlePass \/ NoRequest \/ ServeCheckActive
     \/ (\E r \in Requests : Accept(r))
     \/ TouchStart \/ TouchStop \/ TouchClear \/ TouchRead \/ HandOver \/ StartNotify
  /\ UNCHANGED auditVars

RunAuditNext ==
  \/ TakeStop \/ (\E fresh, late \in BOOLEAN : Update(fresh, late))
  \/ Stop \/ Start \/ AuditElsewhere

RunAuditSpec == RunAuditInit /\ [][RunAuditNext]_runAuditVars /\ Fairness

-----------------------------------------------------------------------------
(* What a log lists as recent_steps, oldest first. *)
Count  == IF audit.steps < RecentSize THEN audit.steps ELSE RecentSize
Recent == [i \in 0 .. Count - 1 |-> audit.recent[(audit.steps - Count + i) % RecentSize]]

(* The audit is of the run it began with and of no other, although two tasks
   write it: a stop was taken in that run if and only if it ended the run, none
   was taken that had not been asked for, one that still waits was not taken, and
   the steps listed are the last ones in a row (requestStop, takeStopRequest,
   recordStep, diagnosticsJson). *)
AuditOfOneRun ==
  /\ audit.consumed <= audit.requests
  /\ audit.epoch > 0 => /\ audit.requests > 0 <=> stopRun = audit.epoch
                        /\ audit.consumed = 1 <=> estopBy = audit.epoch
  /\ stopRequested /\ active => audit.requests > 0 /\ audit.consumed = 0
  /\ \A i \in DOMAIN Recent :
       Recent[i] = [run |-> audit.epoch, step |-> Step(audit.steps - Count + i)]
=============================================================================
