----------------------------- MODULE RollerAudit -----------------------------
(***************************************************************************)
(* The current audit of the motor driver: while a pulse is on, the I/O task *)
(* reads the measured current every millisecond, in the same pass that      *)
(* applies commands and polls the status, and sums the charge of the pulse. *)
(* RollerIo's tasks run unchanged underneath; each action here is one of    *)
(* theirs with what it does to the audit.                                   *)
(***************************************************************************)
EXTENDS RollerIo

VARIABLES
  audit,  \* current_audit_active_, current_audit_read_failed_, and of the telemetry
          \* current_audit_sample_count (two stands for more) and
          \* q_meas_observed_valid
  pulse,  \* history: the readings since the motor driver was last given a
          \* nonzero current, whether it held that current for all of them, and
          \* whether a pulse may have been left on before
  leftover  \* history: may a pulse be left that stop() gave up on?

auditVars == <<vars, audit, pulse, leftover>>

Enough == 2

NewAudit == [active |-> FALSE, failed |-> FALSE, count |-> 0, valid |-> FALSE]
NewPulse == [good |-> 0, bad |-> FALSE, held |-> TRUE, mixed |-> FALSE]

(* begin(). *)
AuditInit ==
  /\ Init
  /\ audit = NewAudit /\ pulse = NewPulse /\ leftover = FALSE

More(n) == IF n < Enough THEN n + 1 ELSE n

-----------------------------------------------------------------------------
(* One reading, for the audit if the task believes a current commanded. *)

(* recordFreshCurrent: the charge is valid from the second reading on, unless
   one has failed. *)
RecordFresh(a) ==
  IF command # 0 /\ a.active
    THEN [a EXCEPT !.count = More(a.count), !.valid = More(a.count) = Enough /\ ~a.failed]
    ELSE a

(* recordCurrentReadFailure. *)
RecordFailure(a) ==
  IF command # 0 /\ a.active THEN [a EXCEPT !.failed = TRUE, !.valid = FALSE] ELSE a

(* readCurrentFresh. *)
Read(a, reading) ==
  CASE reading = "ok"     -> RecordFresh(a)
    [] reading = "failed" -> RecordFailure(a)
    [] reading = "none"   -> a

(* What the readings of a pulse were; one that was mixed, or is spoiled, needs no
   more of them. *)
Spoiled(p) == p.mixed \/ p.bad \/ ~p.held

Witness(p, reading) ==
  IF Spoiled(p) \/ command = 0 \/ reading = "none" THEN p
  ELSE IF reading = "failed" THEN [NewPulse EXCEPT !.bad = TRUE]
  ELSE IF device = Registers(command) THEN [p EXCEPT !.good = More(p.good)]
  ELSE [NewPulse EXCEPT !.held = FALSE]

(* The fast reading of a pulse may be due or not. *)
FastReadings == IF command # 0 THEN {"none", "ok", "failed"} ELSE {"none"}

(* The poll reads the current itself, unless the fast reading just succeeded;
   its failure is one of the poll.  IoUpdate says how the poll went. *)
PollReadings(fast) ==
  {r \in {"none", "ok", "failed"} :
     /\ r = "failed" => faults' # faults
     /\ r = "ok" => fast # "ok" /\ (faults' # faults \/ errors' = 0)
     /\ r = "none" => fast = "ok" \/ (faults' = faults /\ errors' = errors /\ outputRaw' = outputRaw)}

(* update(). *)
Update ==
  /\ IoUpdate
  /\ \E fast \in FastReadings : \E poll \in PollReadings(fast) :
       /\ audit' = Read(Read(audit, fast), poll)
       /\ pulse' = Witness(Witness(pulse, fast), poll)
  /\ UNCHANGED leftover

-----------------------------------------------------------------------------
(* A command that was written without an error begins or ends a pulse. *)

(* Mutant: a pulse goes on with the charge of the last. *)
BeginKeepsCharge == [audit EXCEPT !.active = TRUE]

BeginCurrentAuditPulse == [NewAudit EXCEPT !.active = TRUE]
EndCurrentAuditPulse   == [audit EXCEPT !.active = FALSE]

(* applyCurrentMa, for a command the task drained or for a zero of its own. *)
Apply ==
  /\ IoApply \/ IoZero
  /\ IF ioPc' \in {"drain", "wait"}
       THEN CASE command = 0 /\ command' # 0 -> audit' = BeginCurrentAuditPulse
              [] command # 0 /\ command' = 0 -> audit' = EndCurrentAuditPulse
              [] OTHER                       -> UNCHANGED audit
       ELSE UNCHANGED audit
  /\ pulse' = IF ioPc' = "drain" /\ ioCmd # 0 THEN [NewPulse EXCEPT !.mixed = leftover] ELSE pulse
  /\ UNCHANGED leftover

(* stop() gives up on a pulse that was granted, because a recovery has withdrawn
   readiness or the request: the pulse may still be queued, or even on by now,
   until the task is seen with nothing queued and nothing on. *)
StopGivesUp == (At("stop_clear") \/ At("stop_check")) /\ believed # 0 /\ ctl' = Idle

NothingLeft == IoAt("drain") /\ queue = <<>> /\ command = 0

(* Every other step of the two tasks leaves the audit as it is; the top of the
   loop forgets the command without ending its pulse. *)
Elsewhere ==
  /\ \/ \E c \in Currents : SetCheckReady(c)
     \/ SetCurrentMa
     \/ Stop
     \/ IoTop \/ IoTopReset \/ IoInitAbsent \/ IoInitZero \/ IoInitClear \/ IoInitRead
     \/ IoDrain
     \/ IoFailRequest \/ IoFailReset \/ IoFailFlag
     \/ IoKeepZero \/ IoWait
  /\ leftover' = (StopGivesUp \/ (leftover /\ ~NothingLeft))
  /\ UNCHANGED <<audit, pulse>>

AuditNext == Update \/ Apply \/ Elsewhere

AuditSpec == AuditInit /\ [][AuditNext]_auditVars /\ Fairness

-----------------------------------------------------------------------------

(* A measured charge that is declared valid is of two or more readings of the
   motor driver's last pulse alone, each taken while its registers held the
   current of that pulse, and none of them failed, whatever was lost on the bus,
   recovered or stopped in between: update, readCurrentFresh, applyCurrentMa.
   The exception: a stop() that gave up during a recovery can leave a pulse
   queued or on, and if the next is applied on top of it their charges are one. *)
ChargeOfOnePulse ==
  audit.valid /\ ~pulse.mixed => pulse.good = Enough /\ ~pulse.bad /\ pulse.held
=============================================================================
