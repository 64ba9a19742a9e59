------------------------------- MODULE RollerIo -------------------------------
(***************************************************************************)
(* The motor driver of the firmware, Roller485Manager.                      *)
(*                                                                         *)
(* Two tasks on two cores share it.  The control core (core 1) calls        *)
(* setCurrentMa and stop, which never touch the I2C bus: they exchange a    *)
(* queue of commands and a few volatile scalars with the I/O task (core 0), *)
(* which owns the bus, applies the commands, polls the device and recovers  *)
(* from bus errors.  Every access to a shared object is a step of its own,  *)
(* because the two cores interleave there; work on private state is folded  *)
(* into the neighbouring shared access.                                     *)
(***************************************************************************)
EXTENDS Integers, Sequences

CONSTANTS
  Currents,        \* nonzero currents a pulse may ask for, in mA
  QueueLen,        \* slots of the command queue (4 in the code)
  ErrorLimit,      \* failed status reads in a row that force a recovery
  MaxFaults,       \* bound: failed bus transactions in a behaviour
  PulseDiscipline  \* TRUE: the caller starts a pulse only when it believes
                   \* the motor off, as ExperimentRunner does; FALSE: any
                   \* sequence of calls

ASSUME RollerAssumption ==
  /\ Currents \subseteq Int \ {0}
  /\ QueueLen \in Nat \ {0}
  /\ ErrorLimit \in Nat \ {0}
  /\ MaxFaults \in Nat
  /\ PulseDiscipline \in BOOLEAN

VARIABLES
  ctl,        \* [pc, cmd]: where the control core is inside an API call
  believed,   \* the current the control core thinks it commanded
  requested,  \* requested_current_mA_, written by both cores
  queue,      \* command_queue_
  ready,      \* io_task_ready_, written by the I/O task, read by the other
  ioPc,       \* where the I/O task is in its loop
  ioCmd,      \* the command it dequeued
  command,    \* command_mA_, its record of what the device was told
  outputRaw,  \* telemetry_.output_raw, its copy of the OUTPUT register
  errors,     \* telemetry_.consecutive_errors, saturated at ErrorLimit
  errorRaw,   \* telemetry_.error_raw # 0 as the last initialisation read it: the
              \* loop never looks at what its own polls read of ERROR_CODE
  device,     \* the CURRENT and OUTPUT registers of the motor driver
  faults,     \* failed transactions so far
  sinceStop   \* history: has a loop pass looked at the request since stop()
              \* returned?  "no" while a pulse has been asked for since

ctlVars    == <<ctl, believed>>
ioVars     == <<ioPc, ioCmd, command, outputRaw, errors, errorRaw>>
busVars    == <<device, faults>>
sharedVars == <<requested, queue, ready>>
vars       == <<ctlVars, ioVars, busVars, sharedVars, sinceStop>>

Commands == Currents \cup {0}

Idle == [pc |-> "idle", cmd |-> 0]

CtlPcs == {"idle", "set_send", "set_store", "stop_ready",
           "stop_clear", "stop_check", "stop_reset", "stop_send", "stop_store"}
IoPcs  == {"top", "top_reset", "init", "init_clear", "init_read", "drain",
           "apply", "update", "fail_request", "fail_reset", "fail_flag",
           "keep_zero", "zero", "wait"}

(* The registers after command c was written without an error. *)
Registers(c) == [current |-> c, output |-> IF c = 0 THEN 0 ELSE 1]

(* The motor turns only when the output stage is on with a current set. *)
Driving == device.output = 1 /\ device.current # 0

TypeOK ==
  /\ ctl \in [pc : CtlPcs, cmd : Commands]
  /\ believed \in Commands
  /\ requested \in Commands
  /\ queue \in Seq(Commands) /\ Len(queue) <= QueueLen
  /\ ready \in BOOLEAN
  /\ ioPc \in IoPcs
  /\ ioCmd \in Commands
  /\ command \in Commands
  /\ outputRaw \in {0, 1}
  /\ errors \in 0 .. ErrorLimit
  /\ errorRaw \in BOOLEAN
  /\ device \in [current : Commands, output : {0, 1}]
  /\ faults \in 0 .. MaxFaults
  /\ sinceStop \in {"no", "stopped", "checked"}

(***************************************************************************)
(* A restart of the firmware does not reset the motor driver, so its        *)
(* registers may hold anything.                                             *)
(***************************************************************************)
Init ==
  /\ ctl = Idle /\ believed = 0
  /\ requested = 0 /\ queue = <<>> /\ ready = FALSE
  /\ ioPc = "top" /\ ioCmd = 0 /\ command = 0 /\ outputRaw = 0 /\ errors = 0
  /\ errorRaw = FALSE
  /\ device \in [current : Commands, output : {0, 1}]
  /\ faults = 0
  /\ sinceStop = "stopped"

-----------------------------------------------------------------------------
(* The control core. *)

(* A call returns to its caller, which now believes c is commanded. *)
Return(c) == ctl' = Idle /\ believed' = c

At(pc) == ctl.pc = pc

GoTo(pc) == ctl' = [ctl EXCEPT !.pc = pc] /\ UNCHANGED believed

(* A refused pulse: the runner answers a false return by calling stop(). *)
Refused == ctl' = [pc |-> "stop_ready", cmd |-> 0] /\ UNCHANGED believed

(* setCurrentMa(c) up to its readiness test. *)
SetCheckReady(c) ==
  /\ At("idle")
  /\ PulseDiscipline => believed = 0
  /\ sinceStop' = "no"
  /\ IF ready
       THEN ctl' = [pc |-> "set_send", cmd |-> c] /\ UNCHANGED believed
       ELSE Refused
  /\ UNCHANGED <<sharedVars, ioVars, busVars>>

(* A current already requested is granted without a command; otherwise the
   command is queued, or the call fails on a full queue. *)
SetSend ==
  /\ At("set_send")
  /\ IF requested = ctl.cmd
       THEN Return(ctl.cmd) /\ UNCHANGED queue
       ELSE IF Len(queue) < QueueLen
              THEN GoTo("set_store") /\ queue' = Append(queue, ctl.cmd)
              ELSE Refused /\ UNCHANGED queue
  /\ UNCHANGED <<requested, ready, ioVars, busVars, sinceStop>>

(* Only after the command is in the queue is the request recorded. *)
SetStore ==
  /\ At("set_store")
  /\ requested' = ctl.cmd
  /\ Return(ctl.cmd)
  /\ UNCHANGED <<queue, ready, ioVars, busVars, sinceStop>>

(* stop() up to its readiness test. *)
StopCheckReady ==
  /\ At("idle") \/ At("stop_ready")
  /\ ctl' = [pc |-> IF ready THEN "stop_check" ELSE "stop_clear", cmd |-> 0]
  /\ UNCHANGED <<believed, sharedVars, ioVars, busVars, sinceStop>>

(* stop() returns to a caller that has asked for no pulse since. *)
Stopped == Return(0) /\ sinceStop' = IF sinceStop = "no" THEN "stopped" ELSE sinceStop

StopClear ==
  /\ At("stop_clear")
  /\ requested' = 0
  /\ Stopped
  /\ UNCHANGED <<queue, ready, ioVars, busVars>>

(* With nothing requested stop() returns at once and leaves the queue alone. *)
StopCheck ==
  /\ At("stop_check")
  /\ IF requested = 0 THEN Stopped ELSE GoTo("stop_reset") /\ UNCHANGED sinceStop
  /\ UNCHANGED <<sharedVars, ioVars, busVars>>

(* Mutant: the old commands stay in front of the zero. *)
StopWithoutReset ==
  /\ At("stop_reset")
  /\ GoTo("stop_send")
  /\ UNCHANGED <<queue, requested, ready, ioVars, busVars, sinceStop>>

StopReset ==
  /\ At("stop_reset")
  /\ queue' = <<>>
  /\ GoTo("stop_send")
  /\ UNCHANGED <<requested, ready, ioVars, busVars, sinceStop>>

(* The queue was just emptied and has no other producer: the send succeeds. *)
StopSend ==
  /\ At("stop_send")
  /\ queue' = Append(queue, 0)
  /\ GoTo("stop_store")
  /\ UNCHANGED <<requested, ready, ioVars, busVars, sinceStop>>

StopStore ==
  /\ At("stop_store")
  /\ requested' = 0
  /\ Stopped
  /\ UNCHANGED <<queue, ready, ioVars, busVars>>

SetCurrentMa == SetSend \/ SetStore
Stop == StopCheckReady \/ StopClear \/ StopCheck \/ StopReset \/ StopSend \/ StopStore

-----------------------------------------------------------------------------
(* The I/O task. *)

IoAt(pc)   == ioPc = pc
IoGoTo(pc) == ioPc' = pc

(* recordIo: errors in a row, saturated where the code compares them. *)
RecordIo(ok) ==
  errors' = IF ok THEN 0 ELSE IF errors < ErrorLimit THEN errors + 1 ELSE errors

(* A transaction fails: the bound keeps the bus from failing for ever. *)
Fault == faults < MaxFaults /\ faults' = faults + 1

(* MODE, CURRENT and OUTPUT are written in turn and all three are attempted.
   If one is reported failed, each register may hold the old or the new
   value: the others may have succeeded, and a lost acknowledgement looks
   like a lost write. *)
WriteSucceeds(c) == device' = Registers(c) /\ UNCHANGED faults

WriteFails(c) ==
  /\ Fault
  /\ device' \in [current : {device.current, Registers(c).current},
                  output  : {device.output, Registers(c).output}]

(* applyCurrentMa: the record of the device follows only a write without
   errors. *)
ApplySucceeds(c) ==
  /\ WriteSucceeds(c)
  /\ RecordIo(TRUE)
  /\ command' = c
  /\ outputRaw' = Registers(c).output

ApplyFails(c) == WriteFails(c) /\ RecordIo(FALSE) /\ UNCHANGED <<command, outputRaw>>

(* Mutant: the task does not initialise the device again. *)
IoTopInitialised ==
  /\ IoAt("top")
  /\ IoGoTo("drain")
  /\ UNCHANGED <<ctlVars, sharedVars, ioCmd, command, outputRaw, errors, errorRaw, busVars, sinceStop>>

(* The top of the loop: an unready task forgets request and record ... *)
IoTop ==
  /\ IoAt("top")
  /\ IF ready
       THEN IoGoTo("drain") /\ UNCHANGED <<requested, command>>
       ELSE IoGoTo("top_reset") /\ requested' = 0 /\ command' = 0
  /\ UNCHANGED <<ctlVars, queue, ready, ioCmd, outputRaw, errors, errorRaw, busVars, sinceStop>>

(* ... and drops what is queued, before it initialises the device. *)
IoTopReset ==
  /\ IoAt("top_reset")
  /\ queue' = <<>>
  /\ IoGoTo("init")
  /\ UNCHANGED <<ctlVars, requested, ready, ioCmd, command, outputRaw, errors, errorRaw,
                 busVars, sinceStop>>

(* initializeIoOwner: the probe, then the three zeroing writes. *)
IoInitAbsent ==
  /\ IoAt("init")
  /\ Fault
  /\ IoGoTo("top")
  /\ UNCHANGED <<ctlVars, sharedVars, ioCmd, command, outputRaw, errors, errorRaw, device, sinceStop>>

IoInitZero ==
  /\ IoAt("init")
  /\ \/ WriteSucceeds(0) /\ RecordIo(TRUE) /\ IoGoTo("init_clear")
     \/ WriteFails(0) /\ RecordIo(FALSE) /\ IoGoTo("top")
  /\ UNCHANGED <<ctlVars, sharedVars, ioCmd, command, outputRaw, errorRaw, sinceStop>>

IoInitClear ==
  /\ IoAt("init_clear")
  /\ command' = 0 /\ requested' = 0 /\ outputRaw' = 0
  /\ IoGoTo("init_read")
  /\ UNCHANGED <<ctlVars, queue, ready, ioCmd, errors, errorRaw, busVars, sinceStop>>

(* One full status read must succeed before the task declares itself ready, and
   find no error in the ERROR_CODE of the device, which may report one at any
   time and for as long as it likes. *)
IoInitRead ==
  /\ IoAt("init_read")
  /\ \/ /\ RecordIo(TRUE) /\ outputRaw' = device.output /\ UNCHANGED faults
        /\ errorRaw' \in BOOLEAN
        /\ IF errorRaw'
             THEN IoGoTo("top") /\ UNCHANGED ready
             ELSE IoGoTo("drain") /\ ready' = TRUE
     \/ /\ Fault /\ RecordIo(FALSE)
        /\ IoGoTo("top") /\ UNCHANGED <<ready, outputRaw, errorRaw>>
  /\ UNCHANGED <<ctlVars, requested, queue, ioCmd, command, device, sinceStop>>

(* Commands are applied one by one until the queue is empty. *)
IoDrain ==
  /\ IoAt("drain")
  /\ IF queue = <<>>
       THEN IoGoTo("update") /\ UNCHANGED <<ioCmd, queue>>
       ELSE IoGoTo("apply") /\ ioCmd' = Head(queue) /\ queue' = Tail(queue)
  /\ UNCHANGED <<ctlVars, requested, ready, command, outputRaw, errors, errorRaw, busVars, sinceStop>>

IoApply ==
  /\ IoAt("apply")
  /\ \/ ApplySucceeds(ioCmd) /\ IoGoTo("drain")
     \/ ApplyFails(ioCmd) /\ IoGoTo("fail_request")
  /\ UNCHANGED <<ctlVars, sharedVars, ioCmd, errorRaw, sinceStop>>

(* update(): the status poll, which may not be due in this pass. *)
IoUpdate ==
  /\ IoAt("update")
  /\ \/ UNCHANGED <<errors, outputRaw, faults>>
     \/ RecordIo(TRUE) /\ outputRaw' = device.output /\ UNCHANGED faults
     \/ RecordIo(FALSE) /\ Fault /\ UNCHANGED outputRaw
  /\ IoGoTo(IF errors' >= ErrorLimit THEN "fail_request" ELSE "keep_zero")
  /\ UNCHANGED <<ctlVars, sharedVars, ioCmd, command, errorRaw, device, sinceStop>>

(* A failed command, or too many failed polls: request, queue and readiness
   are withdrawn one after the other. *)
IoFailRequest ==
  /\ IoAt("fail_request")
  /\ requested' = 0
  /\ IoGoTo("fail_reset")
  /\ UNCHANGED <<ctlVars, queue, ready, ioCmd, command, outputRaw, errors, errorRaw, busVars, sinceStop>>

IoFailReset ==
  /\ IoAt("fail_reset")
  /\ queue' = <<>>
  /\ IoGoTo("fail_flag")
  /\ UNCHANGED <<ctlVars, requested, ready, ioCmd, command, outputRaw, errors, errorRaw,
                 busVars, sinceStop>>

(* Mutant: readiness survives the failure. *)
IoFailStaysReady ==
  /\ IoAt("fail_flag")
  /\ IoGoTo("top")
  /\ UNCHANGED <<ctlVars, sharedVars, ioCmd, command, outputRaw, errors, errorRaw, busVars, sinceStop>>

IoFailFlag ==
  /\ IoAt("fail_flag")
  /\ ready' = FALSE
  /\ IoGoTo("top")
  /\ UNCHANGED <<ctlVars, requested, queue, ioCmd, command, outputRaw, errors, errorRaw,
                 busVars, sinceStop>>

(* Mutant: the task never zeroes on its own. *)
IoKeepsCurrent ==
  /\ IoAt("keep_zero")
  /\ IoGoTo("wait")
  /\ sinceStop' = IF sinceStop = "stopped" THEN "checked" ELSE sinceStop
  /\ UNCHANGED <<ctlVars, sharedVars, ioCmd, command, outputRaw, errors, errorRaw, busVars>>

(* Nothing requested but a current recorded: the task zeroes on its own. *)
IoKeepZero ==
  /\ IoAt("keep_zero")
  /\ IoGoTo(IF requested = 0 /\ (command # 0 \/ outputRaw # 0) THEN "zero" ELSE "wait")
  /\ sinceStop' = IF sinceStop = "stopped" THEN "checked" ELSE sinceStop
  /\ UNCHANGED <<ctlVars, sharedVars, ioCmd, command, outputRaw, errors, errorRaw, busVars>>

IoZero ==
  /\ IoAt("zero")
  /\ \/ ApplySucceeds(0) /\ IoGoTo("wait") /\ UNCHANGED ready
     \/ ApplyFails(0) /\ IoGoTo("top") /\ ready' = FALSE
  /\ UNCHANGED <<ctlVars, requested, queue, ioCmd, errorRaw, sinceStop>>

(* The pass ends with at most one tick of sleep. *)
IoWait ==
  /\ IoAt("wait")
  /\ IoGoTo("top")
  /\ UNCHANGED <<ctlVars, sharedVars, ioCmd, command, outputRaw, errors, errorRaw, busVars, sinceStop>>

IoTask ==
  \/ IoTop \/ IoTopReset \/ IoInitAbsent \/ IoInitZero \/ IoInitClear \/ IoInitRead
  \/ IoDrain \/ IoApply \/ IoUpdate
  \/ IoFailRequest \/ IoFailReset \/ IoFailFlag
  \/ IoKeepZero \/ IoZero \/ IoWait

Next ==
  \/ \E c \in Currents : SetCheckReady(c)
  \/ SetCurrentMa
  \/ Stop
  \/ IoTask

(* Both tasks are scheduled: a call in progress returns, and the I/O task,
   alone on its core's priority, keeps looping.  No call is ever forced. *)
Fairness ==
  /\ WF_vars(~At("idle") /\ (SetCurrentMa \/ Stop))
  /\ WF_vars(IoTask)

Spec == Init /\ [][Next]_vars /\ Fairness

-----------------------------------------------------------------------------
(* Properties. *)

(* While the task runs its loop as ready, its record of the motor driver is
   what the registers hold, whatever mixture of lost and applied writes came
   before: every path that doubts a write gives up readiness first. *)
RecordMatchesDevice ==
  ready /\ ioPc \in {"top", "drain", "update", "keep_zero", "zero", "wait"} =>
    device = Registers(command)

(* After stop() returned, and until the next pulse is asked for, one complete
   pass of a ready I/O task leaves the motor off for good, also when stop()
   returned early or raced a recovery. *)
OffAfterStopPass ==
  sinceStop = "checked" /\ ready /\ ioPc \notin {"zero", "fail_request", "fail_reset", "fail_flag"} =>
    ~Driving

(* A caller that stops one pulse before it starts the next is never refused
   for a full queue, even when a stop() returns early during a recovery and
   leaves old commands queued. *)
QueueHasRoom == PulseDiscipline => Len(queue) < QueueLen

(* A stop that is not followed by another pulse turns the motor off, whatever
   the I/O task was doing. *)
StopTurnsMotorOff == sinceStop # "no" ~> (~Driving \/ sinceStop = "no")

(* Unless the device reports an error again and again, the I/O task becomes ready
   again after every failure, however commands and recoveries meet; with such an
   error it retries for ever, also on a bus that works: initializeIoOwner. *)
Recovers == <>[]~errorRaw => (~ready ~> ready)

(* A pulse the control core was granted on a bus without faults is on the
   motor once the I/O task has taken the command. *)
GrantedPulseDrives ==
  faults = 0 /\ At("idle") /\ believed # 0 /\ ioPc = "wait" /\ queue = <<>> => device.current = believed
=============================================================================
