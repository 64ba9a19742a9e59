------------------------------- MODULE ImuReader -------------------------------
(***************************************************************************)
(* What surrounds the acquisition of ImuAcquisition: how the reader's poll   *)
(* gets its samples out of the sensor, and the audit of a measurement that   *)
(* both tasks write and the run log reports.                                *)
(*                                                                         *)
(* A poll stamps the time, reads the sensor's flags and then the registers   *)
(* of the data that is ready.  While it waits for the bus the sensor may     *)
(* produce and the consumer may run.  What follows the transfer is one step. *)
(***************************************************************************)
EXTENDS ImuAcquisition, FiniteSets

VARIABLES
  unread,      \* the sensor: data it flags as not read yet
  ready,       \* the flags this poll has seen; {} between polls
  stamp,       \* this poll began "before" or "after" the measurement's epoch
  phase,       \* where the runner's run is; RUNNING_BATCH_SWEEP is "measure"
  audit,       \* audit_
  lastBefore,  \* the last sample stamped before audit_.epoch_us
  profiled     \* poll_profile_ is of this measurement

sensorVars == <<unread, ready, stamp>>
auditVars  == <<audit, lastBefore, profiled>>
readerAllVars == <<vars, sensorVars, phase, auditVars>>

Data == {"accel", "gyro"}

Phases == {"idle", "sync", "measure", "end"}
measuring == phase = "measure"

(* A sequence number of an audit is compared with zero, which none has until the
   numbers wrap. *)
NoDelivery == 0

NewAudit == [active |-> FALSE, samples |-> 0, delivered |-> 0, drops |-> 0,
             gaps |-> 0, last |-> NoDelivery]

ReaderInit ==
  /\ unread = {} /\ ready = {} /\ stamp = "after"
  /\ phase = "idle"
  /\ audit = NewAudit /\ lastBefore = 0 /\ profiled = FALSE

-----------------------------------------------------------------------------
(* The sensor and the poll. *)

ReaderIdle == UNCHANGED <<vars, phase, auditVars>>

SensorSample ==
  /\ \E d \in Data \ unread : unread' = unread \cup {d}
  /\ UNCHANGED <<ready, stamp>> /\ ReaderIdle

(* recordPollProfile: the first poll that ends in a measurement starts its
   profile afresh. *)
Profiled == profiled' = audit.active

(* readRaw, STATUS.  With no flag set, or none read, the poll ends here. *)
PollStatus ==
  /\ ready = {}
  /\ stamp' = "after"
  /\ \/ unread # {} /\ ready' = unread /\ UNCHANGED profiled
     \/ UNCHANGED ready /\ Profiled
  /\ UNCHANGED <<unread, vars, phase, audit, lastBefore>>

(* Mutant: every poll reads both sensors' registers. *)
BothRegisters == Data

(* Never touch the registers of data whose flag was clear. *)
Registers == ready

PollEnds == ready' = {} /\ stamp' = "after" /\ Profiled /\ UNCHANGED phase

(* The transfer failed: the data stay unread. *)
PollFails ==
  /\ ready # {}
  /\ PollEnds
  /\ UNCHANGED <<vars, unread, audit, lastBefore>>

PollReads == ready # {} /\ unread' = unread \ Registers /\ PollEnds

(* New acceleration alone waits in capture_ for the next gyro sample. *)
PollAccel ==
  /\ "gyro" \notin ready
  /\ PollReads
  /\ UNCHANGED <<vars, audit, lastBefore>>

PollNonfinite ==
  /\ PollReads
  /\ CaptureNonfinite /\ UNCHANGED started
  /\ UNCHANGED <<audit, lastBefore>>

(* Mutant: a sample counts although it was stamped before the epoch. *)
SampledAlways(a) ==
  IF ~a.active THEN a
  ELSE [a EXCEPT !.samples = @ + 1, !.drops = IF Overflows THEN @ + 1 ELSE @]

(* Audit.sample, and drop for a sample that the full queue refused. *)
Sampled(a) ==
  IF ~a.active THEN a
  ELSE [a EXCEPT !.samples = IF stamp = "before" THEN @ ELSE @ + 1,
                 !.drops   = IF Overflows THEN @ + 1 ELSE @]

PollGyro ==
  /\ "gyro" \in ready
  /\ PollReads
  /\ Capture /\ UNCHANGED started
  /\ audit' = Sampled(audit)
  /\ lastBefore' = IF stamp = "before" THEN Inc(latest) ELSE lastBefore

Poll == SensorSample \/ PollStatus \/ PollFails \/ PollAccel \/ PollNonfinite \/ PollGyro

Silent ==
  /\ Silence /\ UNCHANGED started
  /\ UNCHANGED <<sensorVars, phase, auditVars>>

-----------------------------------------------------------------------------
(* The consumer. *)

(* setAcquisitionContext: a measurement's epoch lies after the stamp of a poll
   under way.  What a finished audit says stays in the log; neither task reads it
   again, and the model forgets it. *)
ContextAudit ==
  /\ Context
  /\ IF measuring = audit.active
       THEN UNCHANGED <<auditVars, stamp>>
       ELSE /\ audit' = [NewAudit EXCEPT !.active = measuring]
            /\ lastBefore' = IF measuring THEN latest ELSE 0
            /\ stamp' = IF measuring /\ ready # {} THEN "before" ELSE "after"
            /\ profiled' = FALSE
  /\ UNCHANGED <<unread, ready, phase>>

AfterEpoch(s) == After(s, lastBefore)

(* Audit.delivery, before the sample's age is judged. *)
Delivered(a, s) ==
  IF ~a.active \/ ~AfterEpoch(s) THEN a
  ELSE [a EXCEPT !.delivered = @ + 1,
                 !.gaps = IF @ = 0 /\ a.last # NoDelivery /\ Ahead(s, a.last) > 1 THEN 1 ELSE @,
                 !.last = s]

DeliverAudit ==
  /\ UpdateLate \/ UpdateDeliver
  /\ audit' = Delivered(audit, next)
  /\ UNCHANGED <<sensorVars, phase, lastBefore, profiled>>

UpdateQuiet ==
  /\ UpdateBegin \/ UpdateTimeout \/ UpdateReceive \/ UpdateDiscard \/ UpdateDrain
  /\ UNCHANGED <<sensorVars, phase, auditVars>>

(* Only a run measures: it goes from its start synchronisation to the measurement
   and on to its end synchronisation, and a stop ends it in any of them. *)
Follows(p) ==
  CASE p = "idle"    -> {"sync"}
    [] p = "sync"    -> {"sync", "measure"}
    [] p = "measure" -> {"measure", "end"}
    [] p = "end"     -> {"end"}

RunnerPhase ==
  /\ CheckHealth \/ Runner
  /\ IF ~running' THEN phase' = "idle"
     ELSE IF At("runner") THEN phase' \in Follows(phase) ELSE UNCHANGED phase
  /\ UNCHANGED <<sensorVars, auditVars>>

Owner == (ContextAudit \/ UpdateQuiet \/ DeliverAudit \/ RunnerPhase) /\ UNCHANGED started

-----------------------------------------------------------------------------
(* Properties. *)

(* A gyro sample that was read out of the sensor reaches the queue or latches the
   fault: data that arrives between the flags and the transfer of a poll stays
   unread for the next (readRaw).  A sample that is not finite passes unnoticed
   only before begin() has noted its start, when no run can be on. *)
NothingReadAway ==
  [][started /\ "gyro" \in unread /\ "gyro" \notin unread'
       => latest' = Inc(latest) \/ fault']_readerAllVars

(* The audit of a measurement balances at every moment: what was captured since
   its epoch was delivered, is on its way or was dropped, and nothing was
   delivered out of order, although the epoch falls between the stamp of a sample
   and its publication, the samples of START_SYNC are still queued when it
   begins, and the two tasks count separately (sample, delivery, drop).  One drop
   may be of a sample that was stamped just before the epoch. *)
AuditBalances ==
  audit.active =>
    /\ LET onTheirWay == Cardinality({i \in DOMAIN Pipeline : AfterEpoch(Pipeline[i])})
           lost       == audit.samples - audit.delivered - onTheirWay
       IN lost >= 0 /\ audit.drops - lost \in {0, 1}
    /\ audit.gaps = 0
    /\ audit.drops > 0 => fault
    /\ audit.samples > 0 => profiled
=============================================================================
