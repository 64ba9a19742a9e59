---------------------------- MODULE RollerIo_proofs ----------------------------
(***************************************************************************)
(* RollerIo for any set of currents, queue length, error limit, number of   *)
(* bus faults, and with or without the caller's discipline: types, the      *)
(* record of the device, and that a stop leaves the motor off; and, from    *)
(* what is said of the steps that are enabled, that a stop turns it off and *)
(* that the I/O task recovers.  With the discipline: the queue has room,    *)
(* and RollerAudit measures the charge of one pulse.                        *)
(***************************************************************************)
EXTENDS RollerAudit, TLAPS

(* The queue is empty where stop() fills it: it has no other producer. *)
TInv ==
  /\ TypeOK
  /\ ctl.pc \in {"set_send", "set_store"} => ctl.cmd \in Currents
  /\ ctl.pc = "stop_send" => queue = <<>>

(* Where the I/O task is in its loop tells whether it is ready; the record of
   the device is right wherever the task trusts it, and the initialisation makes
   it right. *)
RInv ==
  /\ ioPc \in {"top_reset", "init", "init_clear", "init_read"} => ~ready
  /\ ioPc \notin {"top", "top_reset", "init", "init_clear", "init_read"} => ready
  /\ ready /\ ioPc \notin {"fail_request", "fail_reset", "fail_flag"} =>
       device = Registers(command)
  /\ ioPc \in {"init_clear", "init_read"} => device = Registers(0)
  /\ ioPc = "init_read" => command = 0

(* No pulse is waiting in the queue. *)
OnlyZeros == \A i \in 1 .. Len(queue) : queue[i] = 0

(* After a stop nothing is requested.  A pulse that waits behind the drained
   queue is still known to the control core as requested, so the next stop()
   flushes it; a pass that looks at the request after a stop therefore leaves
   no pulse in the queue, none in hand and none on record. *)
SInv ==
  /\ sinceStop # "no" => requested = 0 /\ ctl.pc \in {"idle", "stop_clear", "stop_check"}
  /\ ioPc \in {"update", "keep_zero"} /\ ~OnlyZeros =>
       /\ sinceStop = "no"
       /\ \/ ctl.pc = "set_store"
          \/ /\ requested # 0
             /\ ctl.pc \in {"idle", "set_send", "stop_ready", "stop_check", "stop_reset"}
  /\ sinceStop = "checked" => OnlyZeros /\ (ioPc = "apply" => ioCmd = 0)
  /\ /\ sinceStop = "checked" /\ ready
     /\ ioPc \notin {"zero", "fail_request", "fail_reset", "fail_flag"}
     => command = 0

(* The next stop() flushes the queue. *)
Covered == requested # 0 \/ ctl.pc = "set_store"

(* How full the queue is.  Between two stops one command is queued behind the
   zero of the first; only where the I/O task has withdrawn the request but not
   yet the queue does a further one come behind a stop() that returned early. *)
QInv ==
  PulseDiscipline =>
    /\ ctl.pc = "set_send" \/ (ctl.pc = "idle" /\ believed = 0) => requested = 0
    /\ ctl.pc = "stop_send" => Len(queue) = 0
    /\ ctl.pc = "stop_store" => Len(queue) <= 1
    /\ ready /\ ctl.pc = "stop_clear" => Len(queue) <= 1
    /\ ready /\ ioPc # "fail_reset" => Len(queue) <= 2 /\ (Covered \/ Len(queue) <= 1)
    /\ ioPc = "fail_reset" => Len(queue) <= 3 /\ (Covered \/ Len(queue) <= 2)
    /\ ~ready => Len(queue) <= 3 /\ (ctl.pc = "set_send" => Len(queue) <= 2)
    /\ ioPc \in {"init", "init_clear", "init_read"} =>
         Len(queue) <= 1 /\ (ctl.pc = "set_send" => Len(queue) = 0)

IInv == TInv /\ RInv /\ SInv

(* Types. *)
LEMMA NextTInv == TInv /\ [Next]_vars => TInv'
<1> SUFFICES ASSUME TInv, [Next]_vars
             PROVE  TInv'
  OBVIOUS
<1> USE RollerAssumption
    DEF TInv, TypeOK, Commands, CtlPcs, IoPcs,
        At, GoTo, IoAt, IoGoTo, Idle, ctlVars, ioVars, busVars, sharedVars
<1>1. ASSUME NEW c \in Currents, SetCheckReady(c)
      PROVE  TInv'
  BY <1>1 DEF SetCheckReady, Refused
<1>2. CASE SetSend
  <2>1. CASE queue' = queue
    BY <1>2, <2>1 DEF SetSend, Return, Refused
  <2>2. CASE queue' # queue
    <3>1. queue' = Append(queue, ctl.cmd) /\ Len(queue) < QueueLen
      BY <1>2, <2>2 DEF SetSend
    <3>2. queue' \in Seq(Commands) /\ Len(queue') <= QueueLen
      BY <3>1
    <3>3. ctl' = [ctl EXCEPT !.pc = "set_store"] /\ UNCHANGED believed
      BY <1>2, <2>2 DEF SetSend
    <3>4. ctl' \in [pc : CtlPcs, cmd : Commands] /\ ctl'.pc = "set_store" /\ ctl'.cmd = ctl.cmd
      BY <3>3
    <3>5. UNCHANGED <<requested, ready, ioPc, ioCmd, command, outputRaw, errors, errorRaw, device,
                    faults, sinceStop>>
      BY <1>2 DEF SetSend
    <3>6. ctl.cmd \in Currents
      BY <1>2 DEF SetSend
    <3> QED
      BY <3>2, <3>3, <3>4, <3>5, <3>6
  <2> QED
    BY <2>1, <2>2
<1>3. CASE SetStore
  BY <1>3 DEF SetStore, Return
<1>4. CASE StopCheckReady
  BY <1>4 DEF StopCheckReady
<1>5. CASE StopClear
  BY <1>5 DEF StopClear, Stopped, Return
<1>6. CASE StopCheck
  BY <1>6 DEF StopCheck, Stopped, Return
<1>7. CASE StopReset
  <2>1. queue' = <<>> /\ ctl' = [ctl EXCEPT !.pc = "stop_send"]
    BY <1>7 DEF StopReset
  <2>2. queue' \in Seq(Commands) /\ Len(queue') <= QueueLen
    BY <2>1
  <2>3. ctl' \in [pc : CtlPcs, cmd : Commands] /\ ctl'.pc = "stop_send"
    BY <2>1
  <2> QED
    BY <1>7, <2>1, <2>2, <2>3 DEF StopReset
<1>8. CASE StopSend
  BY <1>8 DEF StopSend
<1>9. CASE StopStore
  BY <1>9 DEF StopStore, Stopped, Return
<1>10. CASE IoTop
  BY <1>10 DEF IoTop
<1>11. CASE IoTopReset
  BY <1>11 DEF IoTopReset
<1>12. CASE IoInitAbsent
  BY <1>12 DEF IoInitAbsent, Fault
<1>13. CASE IoInitZero
  BY <1>13 DEF IoInitZero, WriteSucceeds, WriteFails, Fault, RecordIo, Registers
<1>14. CASE IoInitClear
  BY <1>14 DEF IoInitClear
<1>15. CASE IoInitRead
  <2>1. ready' \in BOOLEAN
    BY <1>15 DEF IoInitRead
  <2>2. outputRaw' \in {0, 1}
    BY <1>15 DEF IoInitRead
  <2>3. errors' \in 0 .. ErrorLimit
    BY <1>15 DEF IoInitRead, RecordIo
  <2>4. faults' \in 0 .. MaxFaults
    <3>1. UNCHANGED faults \/ Fault
      BY <1>15, Zenon DEF IoInitRead
    <3> QED
      BY <3>1 DEF Fault
  <2>5. ioPc' \in IoPcs
    BY <1>15 DEF IoInitRead
  <2>6. UNCHANGED <<ctl, believed, requested, queue, ioCmd, command, device, sinceStop>>
    BY <1>15 DEF IoInitRead
  <2>7. errorRaw' \in BOOLEAN
    BY <1>15 DEF IoInitRead
  <2> QED
    BY <2>1, <2>2, <2>3, <2>4, <2>5, <2>6, <2>7
<1>16. CASE IoDrain
  <2>1. CASE queue = <<>>
    BY <1>16, <2>1 DEF IoDrain
  <2>2. CASE queue # <<>>
    <3>0. ioCmd' = Head(queue) /\ queue' = Tail(queue)
      BY <1>16, <2>2 DEF IoDrain
    <3>1. ioCmd' \in Commands /\ queue' \in Seq(Commands) /\ Len(queue') <= QueueLen
      BY <2>2, <3>0
    <3>2. ioPc' \in IoPcs /\ ctl.pc # "stop_send"
      BY <1>16, <2>2 DEF IoDrain
    <3>3. UNCHANGED <<ctl, believed, requested, ready, command, outputRaw, errors,
                      errorRaw, device, faults, sinceStop>>
      BY <1>16 DEF IoDrain
    <3> QED
      BY <3>1, <3>2, <3>3
  <2> QED
    BY <2>1, <2>2
<1>17. CASE IoApply
  BY <1>17 DEF IoApply, ApplySucceeds, ApplyFails, WriteSucceeds, WriteFails, Fault, RecordIo, Registers
<1>18. CASE IoUpdate
  BY <1>18 DEF IoUpdate, RecordIo, Fault
<1>19. CASE IoFailRequest
  BY <1>19 DEF IoFailRequest
<1>20. CASE IoFailReset
  BY <1>20 DEF IoFailReset
<1>21. CASE IoFailFlag
  <2>1. ready' \in BOOLEAN /\ ioPc' \in IoPcs
    BY <1>21 DEF IoFailFlag
  <2>2. UNCHANGED <<ctl, believed, requested, queue, ioCmd, command, outputRaw, errors,
                    errorRaw, device, faults, sinceStop>>
    BY <1>21 DEF IoFailFlag
  <2> QED
    BY <2>1, <2>2
<1>22. CASE IoKeepZero
  BY <1>22 DEF IoKeepZero
<1>23. CASE IoZero
  <2>1. ready' \in BOOLEAN /\ ioPc' \in IoPcs
    BY <1>23 DEF IoZero
  <2>2. device' \in [current : Commands, output : {0, 1}]
    <3>1. Registers(0) \in [current : Commands, output : {0, 1}]
      BY DEF Registers
    <3>2. CASE ApplySucceeds(0)
      BY <3>1, <3>2 DEF ApplySucceeds, WriteSucceeds
    <3>3. CASE ApplyFails(0)
      BY <3>1, <3>3 DEF ApplyFails, WriteFails
    <3> QED
      BY <1>23, <3>2, <3>3 DEF IoZero
  <2>3. /\ command' \in Commands /\ outputRaw' \in {0, 1} /\ errors' \in 0 .. ErrorLimit
        /\ faults' \in 0 .. MaxFaults
    BY <1>23 DEF IoZero, ApplySucceeds, ApplyFails, WriteSucceeds, WriteFails, Fault,
                 RecordIo, Registers
  <2>4. UNCHANGED <<ctl, believed, requested, queue, ioCmd, errorRaw, sinceStop>>
    BY <1>23 DEF IoZero
  <2> QED
    BY <2>1, <2>2, <2>3, <2>4
<1>24. CASE IoWait
  BY <1>24 DEF IoWait
<1>25. CASE UNCHANGED vars
  BY <1>25 DEF vars
<1> QED
  BY <1>1, <1>2, <1>3, <1>4, <1>5, <1>6, <1>7, <1>8, <1>9, <1>10, <1>11, <1>12,
     <1>13, <1>14, <1>15, <1>16, <1>17, <1>18, <1>19, <1>20, <1>21, <1>22, <1>23,
     <1>24, <1>25
  DEF Next, SetCurrentMa, Stop, IoTask

(* The record of the device. *)
LEMMA NextRInv == TInv /\ RInv /\ [Next]_vars => RInv'
<1> SUFFICES ASSUME TInv /\ RInv, [Next]_vars
             PROVE  RInv'
  OBVIOUS
<1> USE RollerAssumption
    DEF TInv, TypeOK, RInv,
        At, GoTo, IoAt, IoGoTo, Idle, ctlVars, ioVars, busVars, sharedVars
<1>1. ASSUME NEW c \in Currents, SetCheckReady(c)
      PROVE  RInv'
  BY <1>1 DEF SetCheckReady, Refused
<1>2. CASE SetSend
  BY <1>2 DEF SetSend, Return, Refused
<1>3. CASE SetStore
  BY <1>3 DEF SetStore, Return
<1>4. CASE StopCheckReady
  BY <1>4 DEF StopCheckReady
<1>5. CASE StopClear
  BY <1>5 DEF StopClear, Stopped, Return
<1>6. CASE StopCheck
  BY <1>6 DEF StopCheck, Stopped, Return
<1>7. CASE StopReset
  BY <1>7 DEF StopReset
<1>8. CASE StopSend
  BY <1>8 DEF StopSend
<1>9. CASE StopStore
  BY <1>9 DEF StopStore, Stopped, Return
<1>10. CASE IoTop
  BY <1>10 DEF IoTop
<1>11. CASE IoTopReset
  BY <1>11 DEF IoTopReset
<1>12. CASE IoInitAbsent
  BY <1>12 DEF IoInitAbsent, Fault
<1>13. CASE IoInitZero
  BY <1>13 DEF IoInitZero, WriteSucceeds, WriteFails, Fault, RecordIo, Registers
<1>14. CASE IoInitClear
  BY <1>14 DEF IoInitClear
<1>15. CASE IoInitRead
  BY <1>15 DEF IoInitRead, RecordIo, Fault
<1>16. CASE IoDrain
  BY <1>16 DEF IoDrain
<1>17. CASE IoApply
  BY <1>17 DEF IoApply, ApplySucceeds, ApplyFails, WriteSucceeds, WriteFails, Fault, RecordIo, Registers
<1>18. CASE IoUpdate
  BY <1>18 DEF IoUpdate, RecordIo, Fault
<1>19. CASE IoFailRequest
  BY <1>19 DEF IoFailRequest
<1>20. CASE IoFailReset
  BY <1>20 DEF IoFailReset
<1>21. CASE IoFailFlag
  BY <1>21 DEF IoFailFlag
<1>22. CASE IoKeepZero
  BY <1>22 DEF IoKeepZero
<1>23. CASE IoZero
  BY <1>23 DEF IoZero, ApplySucceeds, ApplyFails, WriteSucceeds, WriteFails, Fault, RecordIo, Registers
<1>24. CASE IoWait
  BY <1>24 DEF IoWait
<1>25. CASE UNCHANGED vars
  BY <1>25 DEF vars
<1> QED
  BY <1>1, <1>2, <1>3, <1>4, <1>5, <1>6, <1>7, <1>8, <1>9, <1>10, <1>11, <1>12,
     <1>13, <1>14, <1>15, <1>16, <1>17, <1>18, <1>19, <1>20, <1>21, <1>22, <1>23,
     <1>24, <1>25
  DEF Next, SetCurrentMa, Stop, IoTask

(* What a stop leaves behind. *)
LEMMA NextSInv == IInv /\ [Next]_vars => SInv'
<1> SUFFICES ASSUME IInv, [Next]_vars
             PROVE  SInv'
  OBVIOUS
<1> USE RollerAssumption
    DEF IInv, TInv, TypeOK, RInv, SInv, OnlyZeros, Commands,
        At, GoTo, IoAt, IoGoTo, Idle, ctlVars, ioVars, busVars, sharedVars
<1>1. ASSUME NEW c \in Currents, SetCheckReady(c)
      PROVE  SInv'
  BY <1>1 DEF SetCheckReady, Refused
<1>2. CASE SetSend
  BY <1>2 DEF SetSend, Return, Refused
<1>3. CASE SetStore
  BY <1>3 DEF SetStore, Return
<1>4. CASE StopCheckReady
  BY <1>4 DEF StopCheckReady
<1>5. CASE StopClear
  BY <1>5 DEF StopClear, Stopped, Return
<1>6. CASE StopCheck
  BY <1>6 DEF StopCheck, Stopped, Return
<1>7. CASE StopReset
  BY <1>7 DEF StopReset
<1>8. CASE StopSend
  BY <1>8 DEF StopSend
<1>9. CASE StopStore
  BY <1>9 DEF StopStore, Stopped, Return
<1>10. CASE IoTop
  BY <1>10 DEF IoTop
<1>11. CASE IoTopReset
  BY <1>11 DEF IoTopReset
<1>12. CASE IoInitAbsent
  BY <1>12 DEF IoInitAbsent, Fault
<1>13. CASE IoInitZero
  BY <1>13 DEF IoInitZero, WriteSucceeds, WriteFails, Fault, RecordIo, Registers
<1>14. CASE IoInitClear
  BY <1>14 DEF IoInitClear
<1>15. CASE IoInitRead
  BY <1>15 DEF IoInitRead, RecordIo, Fault
<1>16. CASE IoDrain
  BY <1>16 DEF IoDrain
<1>17. CASE IoApply
  BY <1>17 DEF IoApply, ApplySucceeds, ApplyFails, WriteSucceeds, WriteFails, Fault, RecordIo, Registers
<1>18. CASE IoUpdate
  BY <1>18 DEF IoUpdate, RecordIo, Fault
<1>19. CASE IoFailRequest
  BY <1>19 DEF IoFailRequest
<1>20. CASE IoFailReset
  BY <1>20 DEF IoFailReset
<1>21. CASE IoFailFlag
  BY <1>21 DEF IoFailFlag
<1>22. CASE IoKeepZero
  BY <1>22 DEF IoKeepZero
<1>23. CASE IoZero
  BY <1>23 DEF IoZero, ApplySucceeds, ApplyFails, WriteSucceeds, WriteFails, Fault, RecordIo, Registers
<1>24. CASE IoWait
  BY <1>24 DEF IoWait
<1>25. CASE UNCHANGED vars
  BY <1>25 DEF vars
<1> QED
  BY <1>1, <1>2, <1>3, <1>4, <1>5, <1>6, <1>7, <1>8, <1>9, <1>10, <1>11, <1>12,
     <1>13, <1>14, <1>15, <1>16, <1>17, <1>18, <1>19, <1>20, <1>21, <1>22, <1>23,
     <1>24, <1>25
  DEF Next, SetCurrentMa, Stop, IoTask

(* How full the queue is. *)
LEMMA NextQInv == IInv /\ QInv /\ [Next]_vars => QInv'
<1> SUFFICES ASSUME IInv, QInv, [Next]_vars
             PROVE  QInv'
  OBVIOUS
<1> USE RollerAssumption
    DEF IInv, TInv, TypeOK, RInv, QInv, Covered, Commands,
        At, GoTo, IoAt, IoGoTo, Idle, ctlVars, ioVars, busVars, sharedVars
<1>1. ASSUME NEW c \in Currents, SetCheckReady(c)
      PROVE  QInv'
  BY <1>1 DEF SetCheckReady, Refused
<1>2. CASE SetSend
  BY <1>2, SMTT(30) DEF SetSend, Return, Refused
<1>3. CASE SetStore
  BY <1>3 DEF SetStore, Return
<1>4. CASE StopCheckReady
  BY <1>4 DEF StopCheckReady
<1>5. CASE StopClear
  BY <1>5 DEF StopClear, Stopped, Return
<1>6. CASE StopCheck
  BY <1>6 DEF StopCheck, Stopped, Return
<1>7. CASE StopReset
  BY <1>7 DEF StopReset
<1>8. CASE StopSend
  BY <1>8 DEF StopSend
<1>9. CASE StopStore
  BY <1>9 DEF StopStore, Stopped, Return
<1>10. CASE IoTop
  BY <1>10 DEF IoTop
<1>11. CASE IoTopReset
  BY <1>11 DEF IoTopReset
<1>12. CASE IoInitAbsent
  BY <1>12 DEF IoInitAbsent, Fault
<1>13. CASE IoInitZero
  BY <1>13 DEF IoInitZero, WriteSucceeds, WriteFails, Fault, RecordIo, Registers
<1>14. CASE IoInitClear
  BY <1>14 DEF IoInitClear
<1>15. CASE IoInitRead
  BY <1>15 DEF IoInitRead, RecordIo, Fault
<1>16. CASE IoDrain
  BY <1>16 DEF IoDrain
<1>17. CASE IoApply
  BY <1>17 DEF IoApply, ApplySucceeds, ApplyFails, WriteSucceeds, WriteFails, Fault, RecordIo, Registers
<1>18. CASE IoUpdate
  BY <1>18 DEF IoUpdate, RecordIo, Fault
<1>19. CASE IoFailRequest
  BY <1>19 DEF IoFailRequest
<1>20. CASE IoFailReset
  BY <1>20 DEF IoFailReset
<1>21. CASE IoFailFlag
  BY <1>21 DEF IoFailFlag
<1>22. CASE IoKeepZero
  BY <1>22 DEF IoKeepZero
<1>23. CASE IoZero
  <2>1. UNCHANGED <<ctl, believed, requested, queue>>
    BY <1>23 DEF IoZero
  <2>2. ready /\ ioPc = "zero" /\ ioPc' \in {"wait", "top"}
    BY <1>23 DEF IoZero
  <2> QED
    BY <2>1, <2>2
<1>24. CASE IoWait
  BY <1>24 DEF IoWait
<1>25. CASE UNCHANGED vars
  BY <1>25 DEF vars
<1> QED
  BY <1>1, <1>2, <1>3, <1>4, <1>5, <1>6, <1>7, <1>8, <1>9, <1>10, <1>11, <1>12,
     <1>13, <1>14, <1>15, <1>16, <1>17, <1>18, <1>19, <1>20, <1>21, <1>22, <1>23,
     <1>24, <1>25
  DEF Next, SetCurrentMa, Stop, IoTask

(* The invariant holds at the start, whatever the registers hold. *)
LEMMA InitIInv == Init => IInv
<1> SUFFICES ASSUME Init
             PROVE  IInv
  OBVIOUS
<1>1. TInv
  <2>1. ctl \in [pc : CtlPcs, cmd : Commands]
    BY DEF Init, Idle, CtlPcs, Commands
  <2>2. queue \in Seq(Commands) /\ Len(queue) <= QueueLen
    BY RollerAssumption DEF Init
  <2>3. /\ believed \in Commands /\ requested \in Commands /\ ioCmd \in Commands
        /\ command \in Commands /\ outputRaw \in {0, 1}
    BY DEF Init, Commands
  <2>4. ready \in BOOLEAN /\ errorRaw \in BOOLEAN
    BY DEF Init
  <2>5. ioPc \in IoPcs /\ sinceStop \in {"no", "stopped", "checked"}
    BY DEF Init, IoPcs
  <2>6. errors \in 0 .. ErrorLimit /\ faults \in 0 .. MaxFaults
    BY RollerAssumption DEF Init
  <2>7. device \in [current : Commands, output : {0, 1}]
    BY DEF Init
  <2>8. ctl.pc = "idle"
    BY DEF Init, Idle
  <2> QED
    BY <2>1, <2>2, <2>3, <2>4, <2>5, <2>6, <2>7, <2>8 DEF TInv, TypeOK
<1>2. RInv
  BY DEF Init, RInv
<1>3. SInv
  BY DEF Init, SInv, Idle
<1> QED
  BY <1>1, <1>2, <1>3 DEF IInv

(* The invariant the three theorems below are read off, for every behaviour of
   the two tasks. *)
THEOREM SpecIInv == Spec => []IInv
<1>1. Init => IInv
  BY InitIInv
<1>2. IInv /\ [Next]_vars => IInv'
  BY NextTInv, NextRInv, NextSInv DEF IInv
<1> QED
  BY <1>1, <1>2, PTL DEF Spec

(* Every variable of Roller485Manager keeps its range: no call and no recovery
   queues more commands than the FreeRTOS queue has slots. *)
THEOREM TypeCorrect == Spec => []TypeOK
<1>1. IInv => TypeOK
  BY DEF IInv, TInv
<1> QED
  BY <1>1, SpecIInv, PTL

(* While the I/O task runs its loop as ready, command_mA_ is what the motor
   driver's registers hold, for any number of failed or half-applied writes. *)
THEOREM RecordCorrect == Spec => []RecordMatchesDevice
<1>1. IInv => RecordMatchesDevice
  BY DEF IInv, RInv, RecordMatchesDevice
<1> QED
  BY <1>1, SpecIInv, PTL

(* Once stop() has returned and no pulse was asked for since, one complete pass
   of a ready I/O task has left the motor off, whatever the calls before it. *)
THEOREM StopLeavesMotorOff == Spec => []OffAfterStopPass
<1>1. IInv => OffAfterStopPass
  <2> SUFFICES ASSUME IInv, sinceStop = "checked", ready,
                      ioPc \notin {"zero", "fail_request", "fail_reset", "fail_flag"}
               PROVE  ~Driving
    BY DEF OffAfterStopPass
  <2>1. command = 0
    BY DEF IInv, SInv
  <2>2. device = Registers(command)
    BY DEF IInv, RInv
  <2>3. device.current = 0
    BY <2>1, <2>2 DEF Registers
  <2> QED
    BY <2>3 DEF Driving
<1> QED
  BY <1>1, SpecIInv, PTL

(* With the firmware's four slots or more the queue always has one left for a
   caller that stops each pulse before it starts the next: setCurrentMa never
   fails on a full queue. *)
THEOREM QueueNeverFull ==
  ASSUME QueueLen >= 4
  PROVE  Spec => []QueueHasRoom
<1>1. Init => QInv
  BY DEF Init, QInv, Covered, Idle
<1>2. IInv /\ QInv /\ [Next]_vars => QInv'
  BY NextQInv
<1>3. IInv /\ QInv => QueueHasRoom
  BY RollerAssumption DEF IInv, TInv, TypeOK, QInv, QueueHasRoom
<1> QED
  BY <1>1, <1>2, <1>3, SpecIInv, PTL DEF Spec

-----------------------------------------------------------------------------
(* Liveness.  ENABLED and induction over the time of a behaviour are out of the
   provers' reach: what the two theorems need of them are their hypotheses. *)

(* A step of the I/O task, each of which changes ioPc, can always be taken. *)
Enabling == ENABLED <<IoTask>>_vars

(* A natural number that falls again and again also rises again and again. *)
Descent(n) == []<><<n' < n>>_vars => []<><<n' > n>>_vars

FaultsLeft == MaxFaults - faults

(* The recovery at p, before the task declares itself ready. *)
Unready(p) == ~ready /\ ioPc = p

(* A recovery goes on, or begins again where a transaction fails or the device
   reports an error. *)
RecoveryMoves ==
  /\ Unready("top") => (~<<IoTask>>_vars /\ Unready("top")') \/ Unready("top_reset")'
  /\ Unready("top_reset") => (~<<IoTask>>_vars /\ Unready("top_reset")') \/ Unready("init")'
  /\ Unready("init") =>
       \/ ~<<IoTask>>_vars /\ Unready("init")'
       \/ Unready("init_clear")'
       \/ Unready("top")' /\ <<FaultsLeft' < FaultsLeft>>_vars
  /\ Unready("init_clear") => (~<<IoTask>>_vars /\ Unready("init_clear")') \/ Unready("init_read")'
  /\ Unready("init_read") =>
       \/ ~<<IoTask>>_vars /\ Unready("init_read")'
       \/ ready'
       \/ Unready("top")' /\ errorRaw'
       \/ Unready("top")' /\ <<FaultsLeft' < FaultsLeft>>_vars

(* The bus only fails, so the faults left never rise. *)
LEMMA FaultsOnlyFall == IInv /\ [Next]_vars => ~<<FaultsLeft' > FaultsLeft>>_vars
<1> SUFFICES ASSUME IInv, [Next]_vars
             PROVE  ~(FaultsLeft' > FaultsLeft)
  OBVIOUS
<1> USE DEF FaultsLeft, vars, busVars
<1>1. faults \in Int /\ MaxFaults \in Int
  BY RollerAssumption DEF IInv, TInv, TypeOK
<1>2. CASE UNCHANGED faults
  BY <1>1, <1>2
<1>3. CASE faults' = faults + 1
  BY <1>1, <1>3
<1>4. (\E c \in Currents : SetCheckReady(c)) \/ SetCurrentMa \/ Stop => UNCHANGED faults
  BY DEF SetCheckReady, SetCurrentMa, SetSend, SetStore, Stop, StopCheckReady, StopClear,
         StopCheck, StopReset, StopSend, StopStore
<1>5. IoTask => UNCHANGED faults \/ faults' = faults + 1
  BY DEF IoTask, IoTop, IoTopReset, IoInitAbsent, IoInitZero, IoInitClear, IoInitRead, IoDrain,
         IoApply, IoUpdate, IoFailRequest, IoFailReset, IoFailFlag, IoKeepZero, IoZero, IoWait,
         ApplySucceeds, ApplyFails, WriteSucceeds, WriteFails, Fault
<1> QED
  BY <1>2, <1>3, <1>4, <1>5 DEF Next

(* The control core leaves the I/O task alone. *)
LEMMA ControlLeavesIo ==
  [Next]_vars => <<IoTask>>_vars \/ UNCHANGED <<ioPc, ready, device, command>>
BY DEF Next, vars, SetCheckReady, SetCurrentMa, SetSend, SetStore, Stop, StopCheckReady, StopClear,
       StopCheck, StopReset, StopSend, StopStore, ioVars, busVars, sharedVars

(* Nothing else moves a recovery. *)
LEMMA RecoveryStages == IInv /\ [Next]_vars => RecoveryMoves
<1> SUFFICES ASSUME IInv, [Next]_vars
             PROVE  RecoveryMoves
  OBVIOUS
<1>1. CASE UNCHANGED <<ioPc, ready, device, command>> /\ ~<<IoTask>>_vars
  BY <1>1 DEF RecoveryMoves, Unready
<1>2. CASE <<IoTask>>_vars
  <2>1. faults \in Int /\ MaxFaults \in Int
    BY RollerAssumption DEF IInv, TInv, TypeOK
  <2>2. Fault => <<FaultsLeft' < FaultsLeft>>_vars
    BY <1>2, <2>1 DEF Fault, FaultsLeft
  <2>3. Unready("top") => Unready("top_reset")'
    BY <1>2 DEF IoTask, Unready, IoAt, IoGoTo, sharedVars, IoTop, IoTopReset, IoInitAbsent,
                IoInitZero, IoInitClear, IoInitRead, IoDrain, IoApply, IoUpdate, IoFailRequest,
                IoFailReset, IoFailFlag, IoKeepZero, IoZero, IoWait
  <2>4. Unready("top_reset") => Unready("init")'
    BY <1>2 DEF IoTask, Unready, IoAt, IoGoTo, sharedVars, IoTop, IoTopReset, IoInitAbsent,
                IoInitZero, IoInitClear, IoInitRead, IoDrain, IoApply, IoUpdate, IoFailRequest,
                IoFailReset, IoFailFlag, IoKeepZero, IoZero, IoWait
  <2>5. Unready("init") => Unready("init_clear")' \/ (Unready("top")' /\ Fault)
    BY <1>2 DEF IoTask, Unready, IoAt, IoGoTo, sharedVars, IoTop, IoTopReset, IoInitAbsent,
                IoInitZero, WriteFails, IoInitClear, IoInitRead, IoDrain, IoApply, IoUpdate,
                IoFailRequest, IoFailReset, IoFailFlag, IoKeepZero, IoZero, IoWait
  <2>6. Unready("init_clear") => Unready("init_read")'
    BY <1>2 DEF IoTask, Unready, IoAt, IoGoTo, sharedVars, IoTop, IoTopReset, IoInitAbsent,
                IoInitZero, IoInitClear, IoInitRead, IoDrain, IoApply, IoUpdate, IoFailRequest,
                IoFailReset, IoFailFlag, IoKeepZero, IoZero, IoWait
  <2>7. Unready("init_read") => ready' \/ (Unready("top")' /\ (errorRaw' \/ Fault))
    BY <1>2 DEF IoTask, Unready, IoAt, IoGoTo, sharedVars, IoTop, IoTopReset, IoInitAbsent,
                IoInitZero, IoInitClear, IoInitRead, IoDrain, IoApply, IoUpdate, IoFailRequest,
                IoFailReset, IoFailFlag, IoKeepZero, IoZero, IoWait
  <2> QED
    BY <2>2, <2>3, <2>4, <2>5, <2>6, <2>7 DEF RecoveryMoves
<1> QED
  BY <1>1, <1>2, ControlLeavesIo

(* The I/O task becomes ready again, for any number of failed transactions and
   whatever is called meanwhile, unless the device reports an error again and
   again; if its steps are enabled as they are said to be and the faults left do
   not fall for ever. *)
THEOREM TaskRecovers == Spec /\ []Enabling /\ Descent(FaultsLeft) => Recovers
<1>1. IInv /\ ~ready =>
        Unready("top") \/ Unready("top_reset") \/ Unready("init") \/ Unready("init_clear")
          \/ Unready("init_read")
  BY DEF IInv, RInv, Unready
<1>2. Enabling => ENABLED <<IoTask>>_vars
  BY DEF Enabling
<1> QED
  BY <1>1, <1>2, SpecIInv, FaultsOnlyFall, RecoveryStages, PTL
  DEF Spec, Fairness, Recovers, Descent, RecoveryMoves

(* A motor that still turns after a stop, and where the I/O task is, ready or not. *)
Stopping == sinceStop # "no" /\ Driving
Turns(p)   == Stopping /\ ready /\ ioPc = p
Recovering(p) == Stopping /\ ~ready /\ ioPc = p

(* A ready task comes to an empty queue, or takes a command from it. *)
DrainMoves ==
  /\ Turns("wait") => (~<<IoTask>>_vars /\ Turns("wait")') \/ Turns("top")' \/ ~Stopping'
  /\ Turns("top") => (~<<IoTask>>_vars /\ Turns("top")') \/ Turns("drain")' \/ ~Stopping'
  /\ Turns("drain") =>
       \/ ~<<IoTask>>_vars /\ Turns("drain")'
       \/ Turns("update")'
       \/ Turns("apply")' /\ <<Len(queue)' < Len(queue)>>_vars
       \/ ~Stopping'
  /\ Turns("apply") =>
       \/ ~<<IoTask>>_vars /\ Turns("apply")'
       \/ Turns("drain")' \/ Turns("fail_request")' \/ ~Stopping'

(* With nothing queued it polls, sees that nothing is requested, and zeroes. *)
ZeroMoves ==
  /\ Turns("update") =>
       \/ ~<<IoTask>>_vars /\ Turns("update")'
       \/ Turns("keep_zero")' \/ Turns("fail_request")' \/ ~Stopping'
  /\ Turns("keep_zero") => (~<<IoTask>>_vars /\ Turns("keep_zero")') \/ Turns("zero")' \/ ~Stopping'
  /\ Turns("zero") => (~<<IoTask>>_vars /\ Turns("zero")') \/ Recovering("top")' \/ ~Stopping'

(* Where it fails it withdraws request, queue and readiness. *)
FailureMoves ==
  /\ Turns("fail_request") =>
       (~<<IoTask>>_vars /\ Turns("fail_request")') \/ Turns("fail_reset")' \/ ~Stopping'
  /\ Turns("fail_reset") =>
       (~<<IoTask>>_vars /\ Turns("fail_reset")') \/ Turns("fail_flag")' \/ ~Stopping'
  /\ Turns("fail_flag") =>
       (~<<IoTask>>_vars /\ Turns("fail_flag")') \/ Recovering("top")' \/ ~Stopping'

(* Then it initialises the device, which writes a zero first. *)
ResetMoves ==
  /\ Recovering("top") =>
       (~<<IoTask>>_vars /\ Recovering("top")') \/ Recovering("top_reset")' \/ ~Stopping'
  /\ Recovering("top_reset") =>
       (~<<IoTask>>_vars /\ Recovering("top_reset")') \/ Recovering("init")' \/ ~Stopping'
  /\ Recovering("init") =>
       \/ ~<<IoTask>>_vars /\ Recovering("init")'
       \/ Recovering("top")' /\ <<FaultsLeft' < FaultsLeft>>_vars
       \/ ~Stopping'

(* Where the I/O task is while the motor turns after a stop. *)
LEMMA StoppingStages ==
  IInv /\ Stopping =>
    \/ Turns("wait") \/ Turns("top") \/ Turns("drain") \/ Turns("apply")
    \/ Turns("update") \/ Turns("keep_zero") \/ Turns("zero")
    \/ Turns("fail_request") \/ Turns("fail_reset") \/ Turns("fail_flag")
    \/ Recovering("top") \/ Recovering("top_reset") \/ Recovering("init")
<1> SUFFICES ASSUME IInv, Stopping, ioPc \in {"init_clear", "init_read"}
             PROVE  FALSE
  BY DEF IInv, TInv, TypeOK, IoPcs, RInv, Turns, Recovering
<1> QED
  BY DEF IInv, RInv, Stopping, Driving, Registers

(* After a stop the control core changes nothing but its own state: it queues no
   command before it asks for a pulse. *)
LEMMA StoppedControl ==
  IInv /\ [Next]_vars /\ Stopping =>
    <<IoTask>>_vars \/ (UNCHANGED <<ioPc, ready, device, queue>>) \/ ~Stopping'
<1> SUFFICES ASSUME IInv, [Next]_vars, Stopping, ~<<IoTask>>_vars, Stopping'
             PROVE  UNCHANGED <<ioPc, ready, device, queue>>
  OBVIOUS
<1>1. ctl.pc \in {"idle", "stop_clear", "stop_check"}
  BY DEF IInv, SInv, Stopping
<1>2. ASSUME NEW c \in Currents
      PROVE  ~SetCheckReady(c)
  BY DEF SetCheckReady, Stopping
<1>3. ~SetCurrentMa /\ ~StopReset /\ ~StopSend /\ ~StopStore
  BY <1>1 DEF SetCurrentMa, SetSend, SetStore, StopReset, StopSend, StopStore, At
<1>4. CASE StopCheckReady \/ StopClear \/ StopCheck
  BY <1>4 DEF StopCheckReady, StopClear, StopCheck, ioVars, busVars, sharedVars
<1> QED
  BY <1>2, <1>3, <1>4 DEF Next, Stop, vars, ioVars, busVars, sharedVars

(* Nor does the queue grow. *)
LEMMA QueueOnlyShrinks ==
  IInv /\ [Next]_vars /\ Stopping => ~<<Len(queue)' > Len(queue)>>_vars \/ ~Stopping'
<1> SUFFICES ASSUME IInv, [Next]_vars, Stopping, Stopping'
             PROVE  ~(Len(queue)' > Len(queue))
  OBVIOUS
<1>1. queue \in Seq(Commands) /\ Len(queue) \in Nat
  BY DEF IInv, TInv, TypeOK
<1>2. CASE UNCHANGED queue
  BY <1>1, <1>2
<1>3. CASE IoTopReset \/ IoFailReset
  BY <1>1, <1>3 DEF IoTopReset, IoFailReset
<1>4. CASE IoDrain
  BY <1>1, <1>4 DEF IoDrain
<1>5. IoTask => UNCHANGED queue \/ IoTopReset \/ IoFailReset \/ IoDrain
  BY DEF IoTask, IoTop, IoInitAbsent, IoInitZero, IoInitClear, IoInitRead, IoApply, IoUpdate,
         IoFailRequest, IoFailFlag, IoKeepZero, IoZero, IoWait, sharedVars
<1> QED
  BY <1>2, <1>3, <1>4, <1>5, StoppedControl

(* A stage is left only for the next, by a step of the I/O task, until the motor is
   off or the next pulse asked for. *)
LEMMA StopStages ==
  IInv /\ [Next]_vars => DrainMoves /\ ZeroMoves /\ FailureMoves /\ ResetMoves
<1> SUFFICES ASSUME IInv, [Next]_vars
             PROVE  DrainMoves /\ ZeroMoves /\ FailureMoves /\ ResetMoves
  OBVIOUS
<1> USE DEF Turns, Recovering
<1>1. CASE ~Stopping \/ ~Stopping'
  BY <1>1 DEF DrainMoves, ZeroMoves, FailureMoves, ResetMoves
<1>2. CASE Stopping /\ Stopping' /\ ~<<IoTask>>_vars
  <2>1. UNCHANGED <<ioPc, ready, device, queue>>
    BY <1>2, StoppedControl
  <2> QED
    BY <1>2, <2>1 DEF DrainMoves, ZeroMoves, FailureMoves, ResetMoves
<1>3. CASE Stopping /\ Stopping' /\ <<IoTask>>_vars
  <2> USE DEF IoAt, IoGoTo, sharedVars, busVars
  <2>1. requested = 0
    BY <1>3 DEF IInv, SInv, Stopping
  <2>2. CASE IoTop
    BY <1>3, <2>2 DEF IoTop, DrainMoves, ZeroMoves, FailureMoves, ResetMoves
  <2>3. CASE IoTopReset \/ IoFailRequest \/ IoFailReset \/ IoFailFlag \/ IoWait
    BY <1>3, <2>3 DEF IoTopReset, IoFailRequest, IoFailReset, IoFailFlag, IoWait,
                      DrainMoves, ZeroMoves, FailureMoves, ResetMoves, IInv, RInv
  <2>4. CASE IoInitAbsent \/ IoInitZero
    <3>1. faults \in Int /\ MaxFaults \in Int
      BY RollerAssumption DEF IInv, TInv, TypeOK
    <3>2. Fault => <<FaultsLeft' < FaultsLeft>>_vars
      BY <1>3, <3>1 DEF Fault, FaultsLeft
    <3>3. ~WriteSucceeds(0)
      BY <1>3 DEF WriteSucceeds, Registers, Stopping, Driving
    <3>4. ioPc = "init" /\ ~ready /\ ioPc' = "top" /\ ready' = ready /\ Fault
      BY <2>4, <3>3 DEF IoInitAbsent, IoInitZero, WriteFails, IInv, RInv
    <3> QED
      BY <1>3, <3>2, <3>4 DEF DrainMoves, ZeroMoves, FailureMoves, ResetMoves
  <2>5. CASE IoInitClear \/ IoInitRead
    BY <2>5 DEF IoInitClear, IoInitRead, DrainMoves, ZeroMoves, FailureMoves, ResetMoves
  <2>6. CASE IoDrain
    <3>1. queue # <<>> => Len(Tail(queue)) < Len(queue)
      BY DEF IInv, TInv, TypeOK
    <3> QED
      BY <1>3, <2>6, <3>1 DEF IoDrain, DrainMoves, ZeroMoves, FailureMoves, ResetMoves
  <2>7. CASE IoApply
    BY <1>3, <2>7 DEF IoApply, DrainMoves, ZeroMoves, FailureMoves, ResetMoves
  <2>8. CASE IoUpdate
    BY <1>3, <2>8 DEF IoUpdate, DrainMoves, ZeroMoves, FailureMoves, ResetMoves
  <2>9. CASE IoKeepZero
    <3>1. Turns("keep_zero") => command # 0
      BY DEF IInv, RInv, Stopping, Driving, Registers
    <3> QED
      BY <1>3, <2>1, <2>9, <3>1 DEF IoKeepZero, DrainMoves, ZeroMoves, FailureMoves, ResetMoves
  <2>10. CASE IoZero
    <3>1. ~WriteSucceeds(0)
      BY <1>3 DEF WriteSucceeds, Registers, Stopping, Driving
    <3> QED
      BY <1>3, <2>10, <3>1 DEF IoZero, ApplySucceeds, DrainMoves, ZeroMoves, FailureMoves, ResetMoves
  <2> QED
    BY <1>3, <2>2, <2>3, <2>4, <2>5, <2>6, <2>7, <2>8, <2>9, <2>10 DEF IoTask
<1> QED
  BY <1>1, <1>2, <1>3

(* A stop that no pulse follows turns the motor off, wherever it met the I/O
   task and for any number of failed transactions, if the steps of the task are
   enabled as they are said to be and neither the faults left nor the commands in
   the queue fall for ever. *)
THEOREM StopTurnsOff ==
  Spec /\ []Enabling /\ Descent(FaultsLeft) /\ Descent(Len(queue)) => StopTurnsMotorOff
<1> DEFINE Hypotheses == Spec /\ []Enabling /\ Descent(FaultsLeft) /\ Descent(Len(queue))
<1>1. Enabling => ENABLED <<IoTask>>_vars
  BY DEF Enabling
<1>2. Hypotheses => (Recovering("top") \/ Recovering("top_reset") \/ Recovering("init") ~> ~Stopping)
  BY <1>1, SpecIInv, FaultsOnlyFall, StopStages, PTL DEF Spec, Fairness, Descent, ResetMoves
<1>3. Hypotheses =>
        (Turns("fail_request") \/ Turns("fail_reset") \/ Turns("fail_flag") ~> ~Stopping)
  BY <1>1, <1>2, SpecIInv, StopStages, PTL DEF Spec, Fairness, FailureMoves
<1>4. Hypotheses => (Turns("update") \/ Turns("keep_zero") \/ Turns("zero") ~> ~Stopping)
  BY <1>1, <1>2, <1>3, SpecIInv, StopStages, PTL DEF Spec, Fairness, ZeroMoves
<1>5. Hypotheses =>
        (Turns("wait") \/ Turns("top") \/ Turns("drain") \/ Turns("apply") ~> ~Stopping)
  BY <1>1, <1>3, <1>4, SpecIInv, QueueOnlyShrinks, StopStages, PTL
  DEF Spec, Fairness, Descent, DrainMoves, Turns
<1>6. ~Stopping => ~Driving \/ sinceStop = "no"
  BY DEF Stopping
<1> QED
  BY <1>2, <1>3, <1>4, <1>5, <1>6, SpecIInv, StoppingStages, PTL DEF StopTurnsMotorOff

-----------------------------------------------------------------------------
(* The audit of the current. *)

(* The I/O task will not forget the command and drop the queue before it applies
   what is queued. *)
Trusted ==
  /\ ioPc \notin {"fail_request", "fail_reset", "fail_flag", "top_reset"}
  /\ ioPc = "top" => ready

(* The last command asked for: queued, in hand or applied. *)
Newest ==
  CASE queue # <<>>                    -> queue[Len(queue)]
    [] queue = <<>> /\ ioPc = "apply"  -> ioCmd
    [] queue = <<>> /\ ioPc # "apply"  -> command

(* Between any two pulses there is a zero. *)
Alternate ==
  /\ \A i \in 1 .. Len(queue) - 1 : queue[i] = 0 \/ queue[i + 1] = 0
  /\ queue # <<>> /\ queue[1] # 0 => IF ioPc = "apply" THEN ioCmd = 0 ELSE command = 0
  /\ ioPc = "apply" /\ ioCmd # 0 => command = 0

(* Where the control core may come to ask for a pulse, the last one has its zero. *)
ZeroLast ==
  \/ believed = 0 /\ ctl.pc \in {"idle", "stop_ready", "stop_clear", "stop_check"}
  \/ ctl.pc \in {"set_send", "stop_store"}
  => Newest = 0

(* Unless a stop() gave up, pulses do not meet. *)
PInv ==
  /\ ioPc \in {"top_reset", "init", "init_clear", "init_read"} => command = 0
  /\ Trusted /\ ~leftover => Alternate /\ ZeroLast

Audits == [active : BOOLEAN, failed : BOOLEAN, count : 0 .. Enough, valid : BOOLEAN]
Pulses == [good : 0 .. Enough, bad : BOOLEAN, held : BOOLEAN, mixed : BOOLEAN]

(* Audit a has counted the readings of pulse p, and has seen each failure. *)
Counts(a, p) ==
  /\ a.valid => a.count = Enough /\ ~a.failed
  /\ ~p.mixed => p.held /\ (p.bad => a.failed) /\ (~p.bad => a.count = p.good)

(* So has the audit that is kept, which is on while a current is commanded. *)
CInv ==
  /\ audit \in Audits /\ pulse \in Pulses /\ leftover \in BOOLEAN
  /\ command # 0 => audit.active
  /\ Counts(audit, pulse)

-----------------------------------------------------------------------------

(* Every step of the audited tasks is one of the tasks. *)
LEMMA AuditedStep == [AuditNext]_auditVars => [Next]_vars
BY DEF AuditNext, auditVars, Update, Apply, Elsewhere, Next, SetCurrentMa, Stop, IoTask

(* The control core or the I/O task takes a step by which no stop() gives up:
   pulses that did not meet do not meet after it. *)
LEMMA NextPulses ==
  ASSUME PulseDiscipline, IInv, QInv, PInv, [Next]_vars,
         Trusted => Alternate /\ ZeroLast, ~StopGivesUp
  PROVE  Trusted' => Alternate' /\ ZeroLast'
<1> USE RollerAssumption
    DEF IInv, TInv, TypeOK, RInv, QInv, PInv, Trusted, Alternate, ZeroLast, Newest, StopGivesUp,
        Commands, At, GoTo, IoAt, IoGoTo, Idle, ctlVars, ioVars, busVars, sharedVars
<1> DEFINE Goal == Trusted' => Alternate' /\ ZeroLast'
<1>1. ASSUME NEW c \in Currents, SetCheckReady(c)
      PROVE  Goal
  BY <1>1 DEF SetCheckReady, Refused
<1>2. CASE SetSend
  <2>1. /\ ctl.pc = "set_send" /\ requested = 0 /\ ctl.cmd # 0
        /\ UNCHANGED <<ready, ioPc, ioCmd, command>>
    BY <1>2 DEF SetSend
  <2>2. CASE queue' = queue
    BY <1>2, <2>1, <2>2 DEF SetSend, Return, Refused
  <2>3. CASE queue' # queue
    <3>1. queue' = Append(queue, ctl.cmd) /\ ctl'.pc = "set_store"
      BY <1>2, <2>1, <2>3 DEF SetSend
    <3>2. ASSUME Trusted, queue = <<>>
          PROVE  Alternate'
      BY <2>1, <3>1, <3>2
    <3>3. ASSUME Trusted, queue # <<>>
          PROVE  Alternate'
      <4>1. /\ Len(queue') = Len(queue) + 1 /\ queue'[1] = queue[1] /\ queue' # <<>>
            /\ \A i \in 1 .. Len(queue) : queue'[i] = queue[i]
        BY <3>1, <3>3
      <4>2. queue[Len(queue)] = 0 /\ Len(queue) \in Nat \ {0}
        BY <2>1, <1>2, <3>3, <3>1 DEF SetSend
      <4>3. \A i \in 1 .. Len(queue') - 1 : queue'[i] = 0 \/ queue'[i + 1] = 0
        BY <3>3, <4>1, <4>2
      <4> QED
        BY <2>1, <3>3, <4>1, <4>3
    <3> QED
      BY <2>1, <3>1, <3>2, <3>3
  <2> QED
    BY <2>2, <2>3
<1>3. CASE SetStore
  BY <1>3 DEF SetStore, Return
<1>4. CASE StopCheckReady
  BY <1>4 DEF StopCheckReady
<1>5. CASE StopClear
  BY <1>5 DEF StopClear, Stopped, Return
<1>6. CASE StopCheck
  BY <1>6 DEF StopCheck, Stopped, Return
<1>7. CASE StopReset
  BY <1>7 DEF StopReset
<1>8. CASE StopSend
  BY <1>8 DEF StopSend
<1>9. CASE StopStore
  BY <1>9 DEF StopStore, Stopped, Return
<1>10. CASE IoTop
  BY <1>10 DEF IoTop
<1>11. CASE IoTopReset
  BY <1>11 DEF IoTopReset
<1>12. CASE IoInitAbsent
  BY <1>12 DEF IoInitAbsent, Fault
<1>13. CASE IoInitZero
  BY <1>13 DEF IoInitZero
<1>14. CASE IoInitClear
  BY <1>14 DEF IoInitClear
<1>15. CASE IoInitRead
  BY <1>15 DEF IoInitRead, RecordIo, Fault
<1>16. CASE IoDrain
  BY <1>16, SMTT(30) DEF IoDrain
<1>17. CASE IoApply
  BY <1>17 DEF IoApply, ApplySucceeds, ApplyFails
<1>18. CASE IoUpdate
  BY <1>18 DEF IoUpdate
<1>19. CASE IoFailRequest
  BY <1>19 DEF IoFailRequest
<1>20. CASE IoFailReset
  BY <1>20 DEF IoFailReset
<1>21. CASE IoFailFlag
  BY <1>21 DEF IoFailFlag
<1>22. CASE IoKeepZero
  BY <1>22 DEF IoKeepZero
<1>23. CASE IoZero
  BY <1>23 DEF IoZero, ApplySucceeds, ApplyFails
<1>24. CASE IoWait
  BY <1>24 DEF IoWait
<1>25. CASE UNCHANGED vars
  BY <1>25 DEF vars
<1> QED
  BY <1>1, <1>2, <1>3, <1>4, <1>5, <1>6, <1>7, <1>8, <1>9, <1>10, <1>11, <1>12, <1>13, <1>14, <1>15, <1>16, <1>17, <1>18, <1>19, <1>20, <1>21, <1>22, <1>23, <1>24, <1>25
  DEF Next, SetCurrentMa, Stop, IoTask

(* The top of the loop forgets the command, and the initialisation does not
   command another. *)
LEMMA NextInitialises ==
  ASSUME IInv, PInv, [Next]_vars, ioPc' \in {"top_reset", "init", "init_clear", "init_read"}
  PROVE  command' = 0
<1> USE DEF PInv, At, GoTo, IoAt, IoGoTo, ctlVars, ioVars, busVars, sharedVars
<1>1. CASE (\E c \in Currents : SetCheckReady(c)) \/ SetCurrentMa \/ UNCHANGED vars
  BY <1>1 DEF SetCheckReady, SetCurrentMa, SetSend, SetStore, vars
<1>2. CASE Stop
  BY <1>2 DEF Stop, StopCheckReady, StopClear, StopCheck, StopReset, StopSend, StopStore
<1>3. CASE IoTask
  BY <1>3 DEF IoTask, IoTop, IoTopReset, IoInitAbsent, IoInitZero, IoInitClear, IoInitRead,
              IoDrain, IoApply, IoUpdate, IoFailRequest, IoFailReset, IoFailFlag,
              IoKeepZero, IoZero, IoWait
<1> QED
  BY <1>1, <1>2, <1>3 DEF Next

(* Pulses do not meet, unless a stop() gave up. *)
LEMMA NextPInv ==
  PulseDiscipline /\ IInv /\ QInv /\ PInv /\ CInv /\ [AuditNext]_auditVars => PInv'
<1> SUFFICES ASSUME PulseDiscipline, IInv, QInv, PInv, CInv, [AuditNext]_auditVars
             PROVE  PInv'
  OBVIOUS
<1>1. [Next]_vars
  BY AuditedStep
<1>2. ioPc' \in {"top_reset", "init", "init_clear", "init_read"} => command' = 0
  BY <1>1, NextInitialises
<1>3. ASSUME ~leftover'
      PROVE  ~StopGivesUp /\ (~leftover \/ NothingLeft)
  <2>1. CASE Elsewhere
    BY <1>3, <2>1 DEF Elsewhere
  <2>2. CASE Update \/ Apply \/ UNCHANGED auditVars
    <3>1. leftover' = leftover /\ ctl' = ctl
      BY <2>2 DEF Update, Apply, IoUpdate, IoApply, IoZero, ctlVars, auditVars, vars
    <3>2. Idle.pc = "idle"
      BY DEF Idle
    <3> QED
      BY <1>3, <3>1, <3>2 DEF StopGivesUp, At
  <2> QED
    BY <2>1, <2>2 DEF AuditNext
<1>4. ASSUME NothingLeft
      PROVE  Alternate /\ ZeroLast
  <2>1. queue = <<>> /\ command = 0 /\ ioPc = "drain"
    BY <1>4 DEF NothingLeft, IoAt
  <2> QED
    BY <2>1 DEF Alternate, ZeroLast, Newest
<1>5. ASSUME Trusted', ~leftover'
      PROVE  Alternate' /\ ZeroLast'
  <2>1. ~StopGivesUp /\ (Trusted => Alternate /\ ZeroLast)
    BY <1>3, <1>4, <1>5 DEF PInv
  <2> QED
    BY <1>1, <1>5, <2>1, NextPulses
<1> QED
  BY <1>2, <1>5 DEF PInv

(* A pulse and its audit begin with no readings. *)
LEMMA NewCounts ==
  /\ NewAudit \in Audits /\ ~NewAudit.active /\ ~NewAudit.valid /\ ~NewAudit.failed /\ NewAudit.count = 0
  /\ NewPulse \in Pulses /\ NewPulse.held /\ ~NewPulse.bad /\ NewPulse.good = 0
<1>1. NewAudit \in Audits
  BY DEF NewAudit, Audits, Enough
<1>2. NewPulse \in Pulses
  BY DEF NewPulse, Pulses, Enough
<1> QED
  BY <1>1, <1>2 DEF NewAudit, NewPulse

(* One reading adds to the audit what it adds to the history of the pulse. *)
LEMMA ReadCounts ==
  ASSUME NEW a \in Audits, NEW p \in Pulses, command # 0 => a.active, Counts(a, p),
         device = Registers(command), NEW r \in {"none", "ok", "failed"}
  PROVE  /\ Read(a, r) \in Audits /\ Witness(p, r) \in Pulses
         /\ command # 0 => Read(a, r).active
         /\ Counts(Read(a, r), Witness(p, r))
<1>1. CASE command = 0 \/ r = "none"
  <2>1. Read(a, r) = a /\ Witness(p, r) = p
    BY <1>1 DEF Read, Witness, RecordFresh, RecordFailure
  <2> QED
    BY <2>1
<1>2. CASE command # 0 /\ r = "ok"
  <2> DEFINE n == More(a.count)
  <2>1. n \in 0 .. Enough /\ n = More(a.count) /\ More(p.good) \in 0 .. Enough
    BY DEF More, Enough, Audits, Pulses
  <2>2. Read(a, r) = [a EXCEPT !.count = n, !.valid = n = Enough /\ ~a.failed]
    BY <1>2 DEF Read, RecordFresh
  <2> HIDE DEF n
  <2>3. /\ Read(a, r) \in Audits /\ Read(a, r).count = n /\ Read(a, r).failed = a.failed
        /\ Read(a, r).active /\ (Read(a, r).valid => n = Enough /\ ~a.failed)
    BY <1>2, <2>1, <2>2 DEF Audits
  <2>4. CASE Spoiled(p)
    <3>1. Witness(p, r) = p /\ (~p.mixed => p.bad)
      BY <2>4 DEF Witness, Spoiled, Counts
    <3> QED
      BY <2>3, <3>1 DEF Counts
  <2>5. CASE ~Spoiled(p)
    <3>1. Witness(p, r) = [p EXCEPT !.good = More(p.good)] /\ ~p.mixed /\ ~p.bad
      BY <1>2, <2>5 DEF Witness, Spoiled
    <3>2. a.count = p.good /\ p.held
      BY <3>1 DEF Counts
    <3>3. /\ Witness(p, r) \in Pulses /\ Witness(p, r).good = n
          /\ Witness(p, r).held /\ ~Witness(p, r).bad
      BY <2>1, <3>1, <3>2 DEF Pulses
    <3> QED
      BY <2>3, <3>3 DEF Counts
  <2> QED
    BY <2>4, <2>5
<1>3. CASE command # 0 /\ r = "failed"
  <2>1. Read(a, r) = [a EXCEPT !.failed = TRUE, !.valid = FALSE]
    BY <1>3 DEF Read, RecordFailure
  <2>2. Read(a, r) \in Audits /\ Read(a, r).failed /\ Read(a, r).active /\ ~Read(a, r).valid
    BY <1>3, <2>1 DEF Audits
  <2>3. Witness(p, r) = IF Spoiled(p) THEN p ELSE [NewPulse EXCEPT !.bad = TRUE]
    BY <1>3 DEF Witness
  <2>4. CASE Spoiled(p)
    BY <2>2, <2>3, <2>4 DEF Spoiled, Counts
  <2>5. CASE ~Spoiled(p)
    <3>1. Witness(p, r) = [NewPulse EXCEPT !.bad = TRUE]
      BY <2>3, <2>5
    <3>2. Witness(p, r) \in Pulses /\ Witness(p, r).held /\ Witness(p, r).bad
      BY <3>1, NewCounts DEF Pulses
    <3> QED
      BY <2>2, <3>2 DEF Counts
  <2> QED
    BY <2>2, <2>4, <2>5 DEF Counts
<1> QED
  BY <1>1, <1>2, <1>3

(* The audit counts the readings of the pulse that is on. *)
LEMMA NextCInv == IInv /\ PInv /\ CInv /\ [AuditNext]_auditVars => CInv'
<1> SUFFICES ASSUME IInv, PInv, CInv, [AuditNext]_auditVars
             PROVE  CInv'
  OBVIOUS
<1>1. CASE Elsewhere
  <2>1. audit' = audit /\ pulse' = pulse /\ leftover' \in BOOLEAN
    BY <1>1 DEF Elsewhere
  <2>2. command' \in {command, 0}
    BY <1>1
    DEF Elsewhere, SetCheckReady, SetCurrentMa, SetSend, SetStore, Stop, StopCheckReady, StopClear,
        StopCheck, StopReset, StopSend, StopStore, IoTop, IoTopReset, IoInitAbsent, IoInitZero,
        IoInitClear, IoInitRead, IoDrain, IoFailRequest, IoFailReset, IoFailFlag, IoKeepZero, IoWait,
        ioVars
  <2> QED
    BY <2>1, <2>2 DEF CInv
<1>2. CASE Update
  <2>1. device = Registers(command) /\ command' = command /\ leftover' = leftover
    BY <1>2 DEF Update, IoUpdate, IoAt, IInv, RInv
  <2>2. PICK fast \in {"none", "ok", "failed"}, poll \in {"none", "ok", "failed"} :
          /\ audit' = Read(Read(audit, fast), poll)
          /\ pulse' = Witness(Witness(pulse, fast), poll)
    BY <1>2 DEF Update, FastReadings, PollReadings
  <2> DEFINE a == Read(audit, fast)
             p == Witness(pulse, fast)
  <2>3. a \in Audits /\ p \in Pulses /\ (command # 0 => a.active) /\ Counts(a, p)
    BY <2>1, ReadCounts DEF CInv
  <2>4. audit' = Read(a, poll) /\ pulse' = Witness(p, poll)
    BY <2>2
  <2> HIDE DEF a, p
  <2>5. audit' \in Audits /\ pulse' \in Pulses /\ (command # 0 => audit'.active) /\ Counts(audit', pulse')
    BY <2>1, <2>3, <2>4, ReadCounts
  <2> QED
    BY <2>1, <2>5 DEF CInv
<1>3. CASE Apply
  <2>1. leftover' = leftover
    BY <1>3 DEF Apply
  <2>2. CASE IoApply /\ ApplySucceeds(ioCmd) /\ ioPc' = "drain"
    <3>1. command' = ioCmd /\ ioPc = "apply"
      BY <2>2 DEF IoApply, ApplySucceeds, IoAt
    <3>2. ioCmd # 0 /\ ~leftover => command = 0
      BY <3>1 DEF PInv, Trusted, Alternate
    <3>3. audit' = CASE command = 0 /\ ioCmd # 0 -> BeginCurrentAuditPulse
                     [] command # 0 /\ ioCmd = 0 -> EndCurrentAuditPulse
                     [] OTHER                    -> audit
      BY <1>3, <2>2, <3>1 DEF Apply
    <3>4. pulse' = IF ioCmd # 0 THEN [NewPulse EXCEPT !.mixed = leftover] ELSE pulse
      BY <1>3, <2>2 DEF Apply
    <3>5. CASE ioCmd # 0
      <4>1. pulse' = [good |-> 0, bad |-> FALSE, held |-> TRUE, mixed |-> leftover]
        BY <3>4, <3>5 DEF NewPulse
      <4>2. pulse' \in Pulses /\ pulse'.good = 0 /\ pulse'.held /\ ~pulse'.bad /\ (pulse'.mixed <=> leftover)
        BY <4>1 DEF CInv, Pulses, Enough
      <4>3. CASE command = 0
        <5>1. audit' = [NewAudit EXCEPT !.active = TRUE]
          BY <3>3, <3>5, <4>3 DEF BeginCurrentAuditPulse
        <5>2. audit' \in Audits /\ audit'.active /\ ~audit'.valid /\ audit'.count = 0
          BY <5>1, NewCounts DEF Audits
        <5> QED
          BY <2>1, <4>2, <5>2 DEF CInv, Counts
      <4>4. CASE command # 0
        <5>1. audit' = audit /\ leftover
          BY <3>2, <3>3, <3>5, <4>4
        <5> QED
          BY <2>1, <4>2, <4>4, <5>1 DEF CInv, Counts
      <4> QED
        BY <4>3, <4>4
    <3>7. CASE ioCmd = 0
      BY <2>1, <3>1, <3>3, <3>4, <3>7 DEF CInv, Counts, Audits, EndCurrentAuditPulse
    <3> QED
      BY <3>5, <3>7
  <2>3. CASE IoZero /\ ApplySucceeds(0) /\ ioPc' = "wait"
    <3>1. command' = 0 /\ pulse' = pulse
      BY <1>3, <2>3 DEF Apply, ApplySucceeds
    <3>2. audit' = IF command # 0 THEN EndCurrentAuditPulse ELSE audit
      BY <1>3, <2>3, <3>1 DEF Apply
    <3> QED
      BY <2>1, <3>1, <3>2 DEF CInv, Counts, Audits, EndCurrentAuditPulse
  <2>4. CASE (ApplyFails(ioCmd) /\ ioPc' = "fail_request") \/ (ApplyFails(0) /\ ioPc' = "top")
    <3>1. command' = command /\ audit' = audit /\ pulse' = pulse
      BY <1>3, <2>4 DEF Apply, ApplyFails
    <3> QED
      BY <2>1, <3>1 DEF CInv
  <2> QED
    BY <1>3, <2>2, <2>3, <2>4 DEF Apply, IoApply, IoZero, IoGoTo
<1>4. CASE UNCHANGED auditVars
  BY <1>4 DEF auditVars, vars, ioVars, CInv
<1> QED
  BY <1>1, <1>2, <1>3, <1>4 DEF AuditNext

(* A charge the log declares valid was measured in one pulse: two or more readings,
   all of them while the motor driver held the current of that pulse and none
   failed, for a caller that stops each pulse, any currents, and any number of
   bus faults and recoveries; but for the pulse a stop() gave up on. *)
THEOREM ChargeCorrect ==
  ASSUME PulseDiscipline
  PROVE  AuditSpec => []ChargeOfOnePulse
<1>1. AuditInit => IInv /\ QInv /\ PInv /\ CInv
  <2> SUFFICES ASSUME AuditInit
               PROVE  IInv /\ QInv /\ PInv /\ CInv
    OBVIOUS
  <2>1. IInv
    BY InitIInv DEF AuditInit
  <2>2. QInv /\ PInv
    BY DEF AuditInit, Init, QInv, PInv, Covered, Idle, Trusted
  <2>3. CInv
    <3>1. audit = NewAudit /\ pulse = NewPulse /\ leftover = FALSE /\ command = 0
      BY DEF AuditInit, Init
    <3> QED
      BY <3>1, NewCounts DEF CInv, Counts
  <2> QED
    BY <2>1, <2>2, <2>3
<1>2. IInv /\ QInv /\ PInv /\ CInv /\ [AuditNext]_auditVars => IInv' /\ QInv' /\ PInv' /\ CInv'
  BY AuditedStep, NextTInv, NextRInv, NextSInv, NextQInv, NextPInv, NextCInv DEF IInv
<1>3. CInv => ChargeOfOnePulse
  BY DEF CInv, Counts, ChargeOfOnePulse
<1> QED
  BY <1>1, <1>2, <1>3, PTL DEF AuditSpec
=============================================================================
