------------------------------- MODULE Recorder -------------------------------
(***************************************************************************)
(* What a run leaves behind: the rows, the event tables, the solver-audit   *)
(* ring and the timing probes of PsramLogger, as ExperimentRunner fills     *)
(* them, and the download that streams them to a browser.                   *)
(*                                                                         *)
(* One update() is four actions, marked by pc: the sample (sense), what the *)
(* controller does with it (motion), the state's own work with a pulse that *)
(* ends (act), the row and the end of the run (log); then the loop of a run *)
(* reports its timing (loop).  EnergyControl and Experiment say when peaks, *)
(* crossings, pulses and the parts of a run come; here they may come        *)
(* whenever their spacing allows.                                           *)
(***************************************************************************)
EXTENDS Integers, Sequences, FiniteSets

CONSTANTS
  Widths, KickWidth,  \* widths of the pulses, of the kick
  SyncTime,           \* length of the start and of the end pattern
  Duration,           \* DURATION_MS
  MaxGap,             \* bound: ticks between two updates, and to a sample from its delivery
  MinHalfCycle,       \* MIN_HALF_CYCLE_MS
  AuditPeriod,        \* CURRENT_AUDIT_LOG_PERIOD_US: a row's period in a pulse
  LogPeriod,          \* LOG_PERIOD_MS: a row's period otherwise
  Capacity,           \* sample_capacity_
  MaxEvents,          \* ENERGY_CONTROL_AUTONOMOUS_MAX_EVENTS
  RingSize,           \* slots of solver_audit::Buffer
  MaxRuns             \* bound: runs in a behaviour

(* The sizes are those of a run: so many crossings, MinHalfCycle apart, and so
   many rows, AuditPeriod apart but for the four of their own, fit in it. *)
ASSUME RecorderAssumption ==
  /\ Widths \subseteq Nat \ {0} /\ KickWidth \in Nat \ {0}
  /\ SyncTime \in Nat /\ Duration \in Nat \ {0} /\ MaxGap \in Nat \ {0}
  /\ MinHalfCycle \in Nat \ {0} /\ MaxRuns \in Nat
  /\ AuditPeriod \in Nat \ {0} /\ LogPeriod \in Nat /\ AuditPeriod <= LogPeriod
  /\ Capacity \in Nat /\ MaxEvents \in Nat /\ RingSize \in Nat
  /\ Capacity * AuditPeriod >= 2 * SyncTime + Duration + 3 * MaxGap + 5 * AuditPeriod
  /\ (RingSize - 1) * MinHalfCycle > Duration + MaxGap
  /\ MaxEvents > RingSize + 1

VARIABLES
  state,       \* status_.state: between runs, or the part of a run
  pc,          \* where the update is
  run,         \* status_.run_id
  age,         \* time since the start pattern, or the measurement, began
  ended,       \* age when the end pattern began
  fresh,       \* the sample of this update is a new one, not yet used
  pulse,       \* status_.pulse_id, pulse_active, start and width
  last,        \* the last accepted crossing, the last motion sample, and
               \* whether a peak waits for its crossing
  logAge,      \* time since last_log_us_, up to LogPeriod
  log,         \* current_run_id_, sample_count_, and what the rows show
  crosses,     \* the zero-cross table
  peaks,       \* size of the peak table
  overflow,    \* energy_control_autonomous_event_overflow_, timing_probe_event_overflow_
  ring,        \* solver_audit_
  probe,       \* timing_probe_event_ and its flags
  probes,      \* timing_probe_events_
  downloading, \* downloading_
  file         \* the download: the part that is next, and what its header,
               \* metadata and checksum tell of

runVars   == <<state, pc, run, age, ended, fresh>>
tableVars == <<crosses, peaks, overflow, ring, probes>>
fileVars  == <<downloading, file>>
vars == <<runVars, pulse, last, logAge, log, tableVars, probe, fileVars>>

Parts   == {"start_sync", "measure", "end_sync"}
Running == state \in Parts

NoProbe == [pending |-> FALSE, run |-> 0, pulse |-> 0, start |-> 0, width |-> 0,
            loop |-> FALSE, imu |-> FALSE, row |-> FALSE, sample |-> 0, rowAt |-> 0]
NoPulse == [id |-> 0, active |-> FALSE, start |-> 0, width |-> 0]
NoRows  == [run |-> 0, rows |-> 0, of |-> {}, pulses |-> {}]
NoFile  == [part |-> "none"]
NoCross == [cross |-> 0 - MinHalfCycle, motion |-> 0, peak |-> FALSE]

Init ==
  /\ state = "idle" /\ pc = "sense" /\ run = 0 /\ age = 0 /\ ended = 0 /\ fresh = FALSE
  /\ pulse = NoPulse /\ last = NoCross
  /\ logAge = 0 /\ log = NoRows
  /\ crosses = <<>> /\ peaks = 0 /\ overflow = {}
  /\ ring \in [available : BOOLEAN, total : {0}, kept : {<<>>}]
  /\ probe = NoProbe /\ probes = <<>>
  /\ downloading = FALSE /\ file = NoFile

-----------------------------------------------------------------------------
(* The tables of PsramLogger. *)

(* What clear() and startRun() do to them. *)
ClearTables ==
  /\ crosses' = <<>> /\ peaks' = 0 /\ overflow' = {}
  /\ ring' = [ring EXCEPT !.total = 0, !.kept = <<>>]
  /\ probes' = <<>>

(* The peak and the zero-cross table share one limit and one flag. *)
EventsFull == peaks >= MaxEvents \/ Len(crosses) >= MaxEvents

AddCross(event) ==
  /\ crosses' = IF Len(crosses) < MaxEvents THEN Append(crosses, event) ELSE crosses
  /\ overflow' = IF EventsFull THEN overflow \cup {"events"} ELSE overflow

AddPeak ==
  /\ peaks' = IF peaks < MaxEvents THEN peaks + 1 ELSE peaks
  /\ overflow' = IF EventsFull THEN overflow \cup {"events"} ELSE overflow

(* One decision, from its entry to its return. *)
Audit(before, after, executed) == [before |-> before, after |-> after, executed |-> executed]

(* Mutant: only a crossing that drives the motor is audited. *)
PushExecuted(record) ==
  ring' = IF ~ring.available \/ ~record.executed THEN ring
          ELSE [ring EXCEPT !.total = @ + 1,
                            !.kept = Append(IF Len(@) < RingSize THEN @ ELSE Tail(@), record)]

(* Buffer::push: the oldest record makes room, and the total goes on. *)
Push(record) ==
  ring' = IF ~ring.available THEN ring
          ELSE [ring EXCEPT !.total = @ + 1,
                            !.kept = Append(IF Len(@) < RingSize THEN @ ELSE Tail(@), record)]

(* addSample, n times: a download refuses a row without a word. *)
Rows(n) ==
  IF downloading THEN log
  ELSE [log EXCEPT !.rows = @ + n,
                   !.of = IF n > 0 THEN @ \cup {run} ELSE @,
                   !.pulses = IF n > 0 /\ pulse.active THEN @ \cup {pulse.id} ELSE @]

-----------------------------------------------------------------------------
(* The timing probe. *)

(* A probe is stored once complete, or without its row if its sample or its loop
   comes when the measurement is over: what captures nothing stores nothing. *)
Stored(p) ==
  p # probe /\ p.pending /\ p.loop /\ p.imu /\ (p.row \/ state # "measure")

(* maybeFinalizeTimingProbe, of probe p. *)
Finalize(p) ==
  IF Stored(p)
    THEN /\ probe' = [p EXCEPT !.pending = FALSE]
         /\ IF Len(probes) < MaxEvents
              THEN probes' = Append(probes, p) /\ UNCHANGED overflow
              ELSE overflow' = overflow \cup {"probes"} /\ UNCHANGED probes
    ELSE probe' = p /\ UNCHANGED <<probes, overflow>>

(* startTimingProbe: a probe under way is left alone. *)
StartProbe(p) ==
  IF probe.pending THEN probe
  ELSE [NoProbe EXCEPT !.pending = TRUE, !.run = run, !.pulse = p.id,
                       !.start = p.start, !.width = p.width]

(* A new sample, taken at this time. *)
ProbeSample(time) ==
  IF probe.pending /\ ~probe.imu /\ time >= probe.start
    THEN [probe EXCEPT !.imu = TRUE, !.sample = time]
    ELSE probe

(* Mutant: a row of any pulse will do. *)
ProbeAnyRow ==
  IF probe.pending /\ ~probe.row /\ pulse.active
    THEN [probe EXCEPT !.row = TRUE, !.rowAt = age]
    ELSE probe

(* The row of this update is one the probe waits for. *)
ProbeRow ==
  IF probe.pending /\ ~probe.row /\ pulse.active /\ pulse.id = probe.pulse
    THEN [probe EXCEPT !.row = TRUE, !.rowAt = age]
    ELSE probe

StartPulse(width) ==
  LET p == [id |-> pulse.id + 1, active |-> TRUE, start |-> age', width |-> width]
  IN  pulse' = p /\ probe' = StartProbe(p)

StopMotor == pulse' = [pulse EXCEPT !.active = FALSE]

-----------------------------------------------------------------------------
(* One update of a run. *)

Sense(gap, isNew, time) ==
  /\ Running /\ pc = "sense" /\ pc' = "motion"
  /\ age' = age + gap /\ fresh' = isNew
  /\ logAge' = IF logAge + gap < LogPeriod THEN logAge + gap ELSE LogPeriod
  /\ IF isNew THEN Finalize(ProbeSample(time))
     ELSE UNCHANGED <<probe, probes, overflow>>
  /\ UNCHANGED <<state, run, ended, pulse, last, log, crosses, peaks, ring, fileVars>>

(* The controller runs in a measurement whose kick was given. *)
Controlled == state = "measure" /\ pulse.id > 0 /\ fresh

NoEvent ==
  /\ Running /\ pc = "motion" /\ pc' = "act"
  /\ last' = IF Controlled THEN [last EXCEPT !.motion = age] ELSE last
  /\ fresh' = FALSE
  /\ UNCHANGED <<state, run, age, ended, pulse, logAge, log, tableVars, probe, fileVars>>

(* recordEnergyControlAutonomousPeak: its sample may still be a crossing. *)
Peak ==
  /\ pc = "motion" /\ Controlled /\ ~pulse.active /\ ~last.peak
  /\ last' = [last EXCEPT !.peak = TRUE]
  /\ AddPeak
  /\ UNCHANGED <<runVars, pulse, logAge, log, crosses, ring, probes, probe, fileVars>>

(* updateEnergyControlAutonomousAtZeroCross at time c, whose decision is width
   0 for no pulse: one event and one audit record, whatever it decides. *)
ZeroCross(c, width) ==
  /\ pc = "motion" /\ pc' = "act"
  /\ Controlled /\ ~pulse.active /\ last.peak
  /\ c >= last.motion /\ c - last.cross >= MinHalfCycle
  /\ last' = [cross |-> c, motion |-> age, peak |-> FALSE]
  /\ fresh' = FALSE
  /\ UNCHANGED <<state, run, age, ended>>
  /\ IF width > 0 THEN StartPulse(width) ELSE UNCHANGED <<pulse, probe>>
  /\ AddCross([kick |-> FALSE, executed |-> width > 0, pulse |-> pulse'.id,
               start |-> age, width |-> width])
  /\ Push(Audit(pulse.id, pulse'.id, width > 0))
  /\ UNCHANGED <<logAge, log, peaks, probes, fileVars>>

(* beginMeasurementRun: its own row, the reset of the controller, the kick.
   The detector's first sample has no crossing before it. *)
BeginMeasurement(granted) ==
  /\ pc = "act" /\ pc' = "log" /\ state = "start_sync" /\ age >= SyncTime
  /\ state' = "measure" /\ age' = 0
  /\ log' = Rows(1) /\ logAge' = 0
  /\ last' = NoCross
  /\ IF granted
       THEN pulse' = [id |-> pulse.id + 1, active |-> TRUE, start |-> 0, width |-> KickWidth]
            /\ probe' = [NoProbe EXCEPT !.pending = TRUE, !.run = run, !.pulse = pulse.id + 1,
                                        !.width = KickWidth]
       ELSE StopMotor /\ probe' = NoProbe
  /\ AddCross([kick |-> TRUE, executed |-> granted, pulse |-> pulse'.id, start |-> 0,
               width |-> IF granted THEN KickWidth ELSE 0])
  /\ UNCHANGED <<run, ended, fresh, peaks, ring, probes, fileVars>>

(* updateEnergyControlAutonomousPulse, or updateEndSync and its end, or what else
   the state does. *)
Act ==
  /\ pc = "act" /\ pc' = "log" /\ ~(state = "start_sync" /\ age >= SyncTime)
  /\ IF state = "measure" /\ age - pulse.start < pulse.width THEN UNCHANGED pulse ELSE StopMotor
  /\ state' = IF state = "end_sync" /\ age - ended >= SyncTime THEN "finished" ELSE state
  /\ UNCHANGED <<run, age, ended, fresh, last, logAge, log, tableVars, probe, fileVars>>

(* Mutant: a row at every update. *)
DueAlways == logAge >= 0

(* Mutant: rows come no faster in a pulse. *)
DueSlow == logAge >= LogPeriod

(* logSampleIfDue. *)
Due == logAge >= (IF pulse.active THEN AuditPeriod ELSE LogPeriod)

LogRow ==
  /\ pc = "log" /\ pc' = "end"
  /\ IF ~Due
       THEN UNCHANGED <<state, pulse, log, logAge, probe, probes, overflow>>
       ELSE /\ Finalize(ProbeRow)
            /\ IF log.rows >= Capacity
                 THEN state' = "estop" /\ StopMotor /\ UNCHANGED <<log, logAge>>
                 ELSE log' = Rows(1) /\ logAge' = 0 /\ UNCHANGED <<state, pulse>>
  /\ UNCHANGED <<run, age, ended, fresh, last, crosses, peaks, ring, fileVars>>

(* finishRun and beginEndSync, with a row each as far as there is room. *)
EndOfPart ==
  /\ pc = "end" /\ pc' = "loop"
  /\ IF state = "measure" /\ age >= Duration
       THEN LET rows == IF log.rows + 2 <= Capacity THEN 2 ELSE Capacity - log.rows
            IN  /\ StopMotor
                /\ state' = (IF rows = 2 THEN "end_sync" ELSE "estop") /\ ended' = age
                /\ log' = [Rows(rows) EXCEPT !.pulses = log.pulses] /\ logAge' = 0
       ELSE UNCHANGED <<state, ended, pulse, log, logAge>>
  /\ UNCHANGED <<run, age, fresh, last, tableVars, probe, fileVars>>

(* recordTimingProbeLoop, after the update of a step that began in a run. *)
Loop ==
  /\ pc = "loop" /\ pc' = "sense"
  /\ Finalize(IF probe.pending THEN [probe EXCEPT !.loop = TRUE] ELSE probe)
  /\ UNCHANGED <<state, run, age, ended, fresh, pulse, last, logAge, log, crosses, peaks, ring, fileVars>>

(* A stop request ends the step; after an IMU fault, or a state that is no
   number, the loop still reports; a pose that is not upright stops a run before
   its row. *)
EmergencyStop ==
  /\ Running
  /\ \/ pc = "sense" /\ pc' \in {"sense", "loop"}
     \/ pc = "motion" /\ pc' = "loop"
     \/ pc = "act" /\ state = "start_sync" /\ pc' = "log"
  /\ state' = "estop" /\ StopMotor /\ fresh' = FALSE
  /\ UNCHANGED <<run, age, ended, last, logAge, log, tableVars, probe, fileVars>>

-----------------------------------------------------------------------------
(* Between runs, on the task that also serves HTTP. *)

Resting == ~Running /\ pc = "sense" /\ file.part = "none"

(* update() with a sample, which may still be the probe's: it was taken after all
   of the run. *)
Rest ==
  /\ Resting
  /\ Finalize(ProbeSample(age))
  /\ UNCHANGED <<runVars, pulse, last, logAge, log, crosses, peaks, ring, fileVars>>

Clear ==
  /\ Resting
  /\ state' = "idle"
  /\ IF downloading THEN UNCHANGED <<log, tableVars>> ELSE log' = NoRows /\ ClearTables
  /\ UNCHANGED <<pc, run, age, ended, fresh, pulse, last, logAge, probe, fileVars>>

(* startEnergyControlAutonomousCapture, beginStartSync and its row; a download
   makes startRun return without a word. *)
Start ==
  /\ Resting /\ state \in {"idle", "finished"} /\ run < MaxRuns
  /\ run' = run + 1
  /\ state' = "start_sync" /\ age' = 0 /\ ended' = 0
  /\ pulse' = NoPulse /\ last' = NoCross /\ probe' = NoProbe
  /\ logAge' = 0
  /\ IF downloading THEN UNCHANGED <<log, tableVars>>
     ELSE log' = [run |-> run', rows |-> 1, of |-> {run'}, pulses |-> {}] /\ ClearTables
  /\ UNCHANGED <<pc, fresh, fileVars>>

(* rwlogDownloadable, in a state handleRwLog accepts. *)
Downloadable == ~Running /\ pc = "sense" /\ log.run # 0 /\ log.rows > 0

(* buildHeader; what of the log the checksum covers, the metadata included. *)
Header   == [run |-> log.run, rows |-> log.rows]
Contents == [header |-> Header, events |-> peaks + Len(crosses),
             audit |-> ring.total, probes |-> Len(probes)]

(* The four parts of a file, each sent whole unless a write is short. *)
FileParts == <<"header", "metadata", "rows", "checksum">>
After(p)  == IF p = "checksum" THEN "none"
            ELSE FileParts[1 + CHOOSE i \in 1 .. 3 : FileParts[i] = p]

(* handleRwLog and streamRwLog: metadata, header and checksum are computed first. *)
BeginDownload ==
  /\ file.part = "none" /\ Downloadable
  /\ downloading' = TRUE
  /\ file' = [part |-> "header", told |-> Contents]
  /\ UNCHANGED <<runVars, pulse, last, logAge, log, tableVars, probe>>

(* Mutant: a failed write returns at once. *)
SendOrReturn(ok) ==
  /\ file.part # "none"
  /\ file' = IF ok /\ file.part # "checksum" THEN [file EXCEPT !.part = After(@)] ELSE NoFile
  /\ downloading' = (file'.part # "none" \/ ~ok)
  /\ UNCHANGED <<runVars, pulse, last, logAge, log, tableVars, probe>>

(* writeBytes of the part that is next: a short write ends the file, and either
   end ends the download. *)
Send(ok) ==
  /\ file.part # "none"
  /\ file' = IF ok /\ file.part # "checksum" THEN [file EXCEPT !.part = After(@)] ELSE NoFile
  /\ downloading' = (file'.part # "none")
  /\ UNCHANGED <<runVars, pulse, last, logAge, log, tableVars, probe>>

Next ==
  \/ \E gap \in 1 .. MaxGap, isNew \in BOOLEAN :
       \E time \in (age + gap - MaxGap) .. (age + gap) : Sense(gap, isNew, time)
  \/ NoEvent \/ Peak
  \/ \E c \in last.motion .. age, width \in Widths \cup {0} : ZeroCross(c, width)
  \/ \E granted \in BOOLEAN : BeginMeasurement(granted)
  \/ Act \/ LogRow \/ EndOfPart \/ Loop \/ EmergencyStop
  \/ Rest \/ Clear \/ Start \/ BeginDownload
  \/ \E ok \in BOOLEAN : Send(ok)

Spec == Init /\ [][Next]_vars

-----------------------------------------------------------------------------
(* Nothing a run logs is ever dropped: no table or ring is full, and the row
   buffer has room whenever a row is due. *)
RoomForEvery ==
  /\ overflow = {} /\ ring.total <= RingSize /\ Len(ring.kept) = ring.total
  /\ pc = "log" => log.rows < Capacity
  /\ pc = "end" => log.rows + 2 <= Capacity

(* Every decision at a crossing left one audit record, beside its event: they
   agree on whether a pulse began, and the pulse ids chain from the kick on. *)
AuditMatchesEvents ==
  ring.available /\ crosses # <<>> =>
    /\ Len(crosses) = ring.total + 1
    /\ \A i \in DOMAIN ring.kept :
         ring.kept[i] = Audit(crosses[i].pulse, crosses[i + 1].pulse, crosses[i + 1].executed)

(* The rows and probes of a run are its own, whatever was stopped, cleared or
   downloaded before it, and the file a browser gets is of one run: nothing is
   logged after its header was made and its checksum taken. *)
LogOfOneRun ==
  /\ Running => log.run = run /\ log.of = {run}
                /\ \A i \in DOMAIN probes : probes[i].run = run
  /\ file.part # "none" => file.told = Contents

(* A pulse too long to end before its first row. *)
Long(width) == width >= AuditPeriod + MaxGap

(* A pulse that ended, and not by the end of the measurement. *)
Over(event) ==
  /\ event.executed /\ ~(pulse.active /\ pulse.id = event.pulse)
  /\ event.start + event.width <= Duration

(* The probe of a shorter pulse kept a pulse from its own: its row never came, or
   its sample came only after that pulse began. *)
KeptBy(event, p) ==
  /\ p.pulse < event.pulse /\ ~Long(p.width)
  /\ ~p.row \/ ~p.imu \/ p.sample > event.start - MaxGap

(* The rows show every such pulse, and it has its timing probe, or would have it
   with the next sample, unless the probe of an earlier, shorter pulse kept it
   from one. *)
LongPulsesTold ==
  state \in Parts \cup {"finished"} =>
    \A i \in DOMAIN crosses :
      Over(crosses[i]) /\ Long(crosses[i].width) =>
        /\ crosses[i].pulse \in log.pulses
        /\ \/ \E k \in DOMAIN probes :
                 probes[k].pulse = crosses[i].pulse \/ KeptBy(crosses[i], probes[k])
           \/ /\ probe.pending
              /\ \/ probe.pulse = crosses[i].pulse /\ ~probe.imu
                 \/ KeptBy(crosses[i], probe)

(* A stored probe tells of one pulse: its row was written in that pulse, its
   sample was taken since it began, and no pulse has two.  One that has no row was
   stored after the measurement. *)
ProbesOfOnePulse ==
  \A k \in DOMAIN probes :
    /\ probes[k].sample >= probes[k].start
    /\ probes[k].row => probes[k].rowAt - probes[k].start \in 0 .. probes[k].width - 1
    /\ ~probes[k].row => state # "measure"
    /\ \A j \in 1 .. k - 1 : probes[j].pulse < probes[k].pulse

(* What the log tells of the pulses is complete, and of one pulse at a time. *)
PulsesTold == LongPulsesTold /\ ProbesOfOnePulse
=============================================================================
