---------------------------- MODULE Recorder_proofs ----------------------------
(***************************************************************************)
(* Recorder for any widths, periods, capacities and gaps of its assumption: *)
(* nothing is dropped, the audit agrees with the events, a log and a file   *)
(* are of one run, and what they tell of the pulses is complete.  Metadata   *)
(* for any sizes of its own: a download's text tells its own length.         *)
(***************************************************************************)
EXTENDS Metadata, NaturalsInduction, WellFoundedInduction, TLAPS

States == Parts \cup {"idle", "finished", "estop"}
Places == {"sense", "motion", "act", "log", "end", "loop"}

Events == [kick : BOOLEAN, executed : BOOLEAN, pulse : Nat, start : Nat, width : Nat]
Audits == [before : Nat, after : Nat, executed : BOOLEAN]
Probes == [pending : BOOLEAN, run : Nat, pulse : Nat, start : Nat, width : Nat,
           loop : BOOLEAN, imu : BOOLEAN, row : BOOLEAN, sample : Int, rowAt : Nat]
Pulses == [id : Nat, active : BOOLEAN, start : Nat, width : Nat]
Lasts  == [cross : Int, motion : Nat, peak : BOOLEAN]
Logs   == [run : Nat, rows : Nat, of : SUBSET Nat, pulses : SUBSET Nat]
Rings  == [available : BOOLEAN, total : Nat, kept : Seq(Audits)]

TypeOK ==
  /\ state \in States /\ pc \in Places
  /\ run \in Nat /\ age \in Nat /\ ended \in Nat /\ fresh \in BOOLEAN
  /\ pulse \in Pulses
  /\ last \in Lasts
  /\ logAge \in Nat
  /\ log \in Logs
  /\ crosses \in Seq(Events) /\ peaks \in Nat
  /\ overflow \in SUBSET {"events", "probes"}
  /\ ring \in Rings
  /\ probe \in Probes /\ probes \in Seq(Probes)
  /\ downloading \in BOOLEAN

(* A download is under way where a file is, and no run then: what the file tells
   is what the tables hold. *)
FInv ==
  /\ downloading <=> file.part # "none"
  /\ file.part # "none" => /\ ~Running /\ pc = "sense"
                           /\ file = [part |-> file.part, told |-> Contents]
  /\ pc \in {"motion", "act"} => Running

(* The rows and the probes, and the probe under way, are of the run. *)
LInv ==
  /\ probe.pending => probe.run = run
  /\ Running => log.run = run /\ log.of = {run}
                /\ \A i \in 1 .. Len(probes) : probes[i].run = run

(* How long each part has lasted.  A part is left by the first update after its
   time is over. *)
DInv ==
  /\ state = "start_sync" =>
       /\ age <= SyncTime + MaxGap
       /\ pc \notin {"motion", "act"} => age < SyncTime \/ age = 0
  /\ state = "measure" =>
       /\ age <= Duration + MaxGap - 1
       /\ pc \in {"loop", "sense"} => age < Duration
  /\ state = "end_sync" =>
       /\ ended \in Duration .. Duration + MaxGap - 1 /\ ended <= age
       /\ age - ended <= SyncTime + MaxGap
       /\ pc \notin {"motion", "act"} => age - ended < SyncTime \/ age = ended
  /\ state = "finished" => age >= Duration
  /\ pc \in {"log", "end"} => age <= SyncTime + Duration + 2 * MaxGap - 1

(* What the parts before this one may have added to the time the rows took, and
   the rows that were written off their period. *)
Before ==
  IF state = "start_sync" THEN AuditPeriod
  ELSE SyncTime + MaxGap + (IF state = "measure" THEN 2 * AuditPeriod ELSE 4 * AuditPeriod)

(* Every row but those took its period. *)
RInv ==
  Running \/ pc \in {"log", "end"} => AuditPeriod * log.rows + logAge <= age + Before

Waiting == IF probe.pending THEN 1 ELSE 0

(* How full the tables are: a crossing takes a half cycle, a peak its crossing
   and a probe its pulse. *)
EInv ==
  /\ overflow = {}
  /\ Len(crosses) <= RingSize /\ peaks <= RingSize /\ Len(probes) + Waiting <= RingSize + 1
  /\ Len(ring.kept) = ring.total
  /\ ~ring.available \/ crosses = <<>> => ring.total = 0
  /\ ring.available /\ crosses # <<>> => Len(crosses) = ring.total + 1
  /\ state = "start_sync" =>
       /\ crosses = <<>> /\ peaks = 0 /\ probes = <<>> /\ ~probe.pending
       /\ pulse.id = 0 /\ ~pulse.active
  /\ state = "measure" =>
       /\ Len(crosses) >= 1 /\ Len(probes) + Waiting <= Len(crosses)
       /\ peaks <= Len(crosses) - (IF last.peak THEN 0 ELSE 1)
       /\ last.cross >= (Len(crosses) - 2) * MinHalfCycle

(* The audit chains the events, and the last of them tells the pulse id. *)
AInv ==
  /\ state = "measure" => crosses[Len(crosses)].pulse = pulse.id
  /\ ring.available =>
       \A i \in 1 .. Len(ring.kept) :
         ring.kept[i] = Audit(crosses[i].pulse, crosses[i + 1].pulse, crosses[i + 1].executed)

(* The pulse: it is active in the measurement alone, and in time after each
   update; its event tells of it. *)
Told == state \in Parts \cup {"finished"}

PulseInv ==
  pulse.active =>
    /\ state = "measure" /\ pulse.start <= age /\ pulse.width > 0
    /\ pc \notin {"motion", "act"} => age - pulse.start < pulse.width

LinkInv ==
  probe.pending =>
    /\ probe.pulse <= pulse.id /\ probe.start <= age /\ probe.width > 0
    /\ probe.pulse = pulse.id => probe.start = pulse.start /\ probe.width = pulse.width

EventOf(event) ==
  /\ event.pulse <= pulse.id /\ event.start <= age
  /\ event.executed =>
       /\ event.width > 0
       /\ event.pulse = pulse.id => event.start = pulse.start /\ event.width = pulse.width
       /\ probe.pending /\ probe.pulse = event.pulse =>
            probe.start = event.start /\ probe.width = event.width

VInv ==
  /\ PulseInv /\ LinkInv
  /\ Told => \A i \in 1 .. Len(crosses) : EventOf(crosses[i])

(* The probe under way and those that are stored. *)
PInv ==
  /\ probe.pending =>
       /\ probe.imu => probe.sample >= probe.start
       /\ probe.row => probe.rowAt - probe.start \in 0 .. probe.width - 1
       /\ probe.loop \/ (pc \in {"act", "log", "end", "loop"} /\ age = probe.start)
       /\ ~(probe.loop /\ probe.imu /\ probe.row)
       /\ \A j \in 1 .. Len(probes) : probes[j].pulse < probe.pulse
       /\ state = "measure" /\ ~(pulse.active /\ pulse.id = probe.pulse) =>
            age >= probe.start + probe.width
  /\ \A k \in 1 .. Len(probes) : probes[k].pulse <= pulse.id
  /\ ProbesOfOnePulse

(* The rows show a long pulse before it is over: if no row has, the last was
   written before it began. *)
UnshownInv ==
  pulse.active /\ pulse.id \notin log.pulses =>
    /\ logAge >= AuditPeriod \/ logAge >= age - pulse.start
    /\ pc \in {"end", "loop", "sense"} => age - pulse.start < AuditPeriod
    /\ pc \in {"motion", "act"} => age - pulse.start < AuditPeriod + MaxGap

LongProbeInv ==
  state = "measure" /\ probe.pending /\ Long(probe.width) =>
    probe.pulse \in log.pulses \/ (pulse.active /\ pulse.id = probe.pulse)

ShownInv(event) ==
  event.executed /\ Long(event.width) =>
    \/ event.pulse \in log.pulses
    \/ pulse.active /\ pulse.id = event.pulse
    \/ state # "measure" /\ event.start + event.width > Duration

WInv ==
  Told =>
    /\ \A id \in log.pulses : id <= pulse.id
    /\ probe.pending /\ probe.pulse \in log.pulses => probe.row
    /\ UnshownInv /\ LongProbeInv
    /\ \A i \in 1 .. Len(crosses) : ShownInv(crosses[i])

(* A long pulse has a sample before the next crossing, and every pulse a probe,
   or is kept from one by the probe of an earlier, shorter pulse. *)
ProbeOf(event, p) == p.pulse = event.pulse \/ KeptBy(event, p)

Covered(event) ==
  event.executed =>
    \/ \E k \in 1 .. Len(probes) : ProbeOf(event, probes[k])
    \/ probe.pending /\ ProbeOf(event, probe)

SampledInv ==
  state = "measure" /\ pc = "motion" /\ fresh /\ ~pulse.active /\ probe.pending /\ Long(probe.width)
    => probe.imu

SInv == SampledInv /\ (Told => \A i \in 1 .. Len(crosses) : Covered(crosses[i]))

-----------------------------------------------------------------------------
(* Types. *)

LEMMA RecorderFacts ==
  /\ Widths \subseteq Nat /\ KickWidth \in Nat /\ KickWidth > 0
  /\ \A w \in Widths : w > 0
  /\ SyncTime \in Nat /\ Duration \in Nat /\ Duration > 0 /\ MaxGap \in Nat /\ MaxGap > 0
  /\ MinHalfCycle \in Nat /\ MinHalfCycle > 0 /\ MaxRuns \in Nat
  /\ AuditPeriod \in Nat /\ AuditPeriod > 0 /\ LogPeriod \in Nat /\ AuditPeriod <= LogPeriod
  /\ Capacity \in Nat /\ MaxEvents \in Nat /\ RingSize \in Nat
  /\ MaxEvents > RingSize + 1 /\ RingSize > 1
<1>1. (RingSize - 1) * MinHalfCycle > 0  BY RecorderAssumption
<1>2. RingSize > 1  BY <1>1, RecorderAssumption
<1>. QED  BY <1>2, RecorderAssumption

(* A stored probe, or one left under way, is a probe; no table but theirs is touched. *)
LEMMA FinalizeTyped ==
  ASSUME TypeOK, NEW p \in Probes, Finalize(p)
  PROVE  probe' \in Probes /\ probes' \in Seq(Probes) /\ overflow' \in SUBSET {"events", "probes"}
<1>1. [p EXCEPT !.pending = FALSE] \in Probes
  BY DEF Probes
<1>2. probes \in Seq(Probes)  BY DEF TypeOK
<1>3. Append(probes, p) \in Seq(Probes)  BY <1>2
<1>. QED  BY <1>1, <1>2, <1>3 DEF Finalize, TypeOK

LEMMA NewTyped ==
  /\ NoPulse \in Pulses /\ NoProbe \in Probes
  /\ NoRows \in Logs
  /\ NoCross \in Lasts
BY RecorderFacts DEF NoPulse, NoProbe, NoRows, NoCross, Pulses, Probes, Logs, Lasts

LEMMA StoppedTyped ==
  ASSUME TypeOK
  PROVE  /\ [pulse EXCEPT !.active = FALSE] \in Pulses
         /\ [ring EXCEPT !.total = 0, !.kept = <<>>] \in Rings
         /\ [last EXCEPT !.peak = TRUE] \in Lasts
         /\ [last EXCEPT !.motion = age] \in Lasts
<1>1. [pulse EXCEPT !.active = FALSE] \in Pulses  BY DEF TypeOK, Pulses
<1>2. [ring EXCEPT !.total = 0, !.kept = <<>>] \in Rings
  <2>1. <<>> \in Seq(Audits)  OBVIOUS
  <2>. QED  BY <2>1 DEF TypeOK, Rings
<1>3. /\ [last EXCEPT !.peak = TRUE] \in Lasts
      /\ [last EXCEPT !.motion = age] \in Lasts
  BY DEF TypeOK, Lasts
<1>. QED  BY <1>1, <1>2, <1>3

LEMMA CapturedTyped ==
  ASSUME TypeOK
  PROVE  /\ \A time \in Int : ProbeSample(time) \in Probes
         /\ ProbeRow \in Probes
         /\ (IF probe.pending THEN [probe EXCEPT !.loop = TRUE] ELSE probe) \in Probes
BY DEF TypeOK, ProbeSample, ProbeRow, Probes

LEMMA RowsTyped ==
  ASSUME TypeOK, NEW n \in Int, log.rows + n \in Nat
  PROVE  Rows(n) \in Logs
BY DEF TypeOK, Rows, Pulses, Logs

LEMMA EventTyped ==
  ASSUME NEW kick \in BOOLEAN, NEW executed \in BOOLEAN, NEW id \in Nat, NEW start \in Nat,
         NEW width \in Nat
  PROVE  [kick |-> kick, executed |-> executed, pulse |-> id, start |-> start, width |-> width]
           \in Events
BY DEF Events

LEMMA AddTyped ==
  ASSUME TypeOK, NEW event \in Events, AddCross(event)
  PROVE  crosses' \in Seq(Events) /\ overflow' \in SUBSET {"events", "probes"}
BY DEF TypeOK, AddCross

LEMMA PushTyped ==
  ASSUME TypeOK, NEW record \in Audits, Push(record)
  PROVE  ring' \in Rings
<1>1. ring.kept \in Seq(Audits)  BY DEF TypeOK, Rings
<1>2. RingSize \in Nat /\ RingSize > 1  BY RecorderFacts
<1>3. ~(Len(ring.kept) < RingSize) => Tail(ring.kept) \in Seq(Audits)
  BY <1>1, <1>2
<1>. DEFINE room == IF Len(ring.kept) < RingSize THEN ring.kept ELSE Tail(ring.kept)
<1>4. Append(room, record) \in Seq(Audits)  BY <1>1, <1>3
<1>5. ring' = ring \/ ring' = [ring EXCEPT !.total = ring.total + 1, !.kept = Append(room, record)]
  BY DEF Push
<1>. HIDE DEF room
<1>6. ring.total + 1 \in Nat  BY DEF TypeOK, Rings
<1>. QED  BY <1>4, <1>5, <1>6 DEF TypeOK, Rings

(* Every variable of the recorder keeps its type, so the counts of rows and pulses
   stay numbers and the rings hold rows and audits only. *)
THEOREM TypeCorrect == Spec => []TypeOK
<1>1. Init => TypeOK
  <2>1. <<>> \in Seq(Audits) /\ <<>> \in Seq(Events) /\ <<>> \in Seq(Probes)  OBVIOUS
  <2>2. ASSUME Init PROVE ring \in Rings
    <3>1. ring.available \in BOOLEAN /\ ring.total = 0 /\ ring.kept = <<>>
          /\ ring = [available |-> ring.available, total |-> ring.total, kept |-> ring.kept]
      BY <2>2 DEF Init
    <3>2. ring.available \in BOOLEAN /\ ring.total \in Nat /\ ring.kept \in Seq(Audits)
      BY <2>1, <3>1
    <3>. QED  BY <3>1, <3>2 DEF Rings
  <2>3. ASSUME Init PROVE crosses \in Seq(Events) /\ probes \in Seq(Probes)
    BY <2>1, <2>3 DEF Init
  <2>4. ASSUME Init PROVE overflow \in SUBSET {"events", "probes"} /\ state \in States /\ pc \in Places
    BY <2>4 DEF Init, States, Places
  <2>5. ASSUME Init PROVE pulse \in Pulses /\ last \in Lasts /\ log \in Logs /\ probe \in Probes
    BY <2>5, NewTyped DEF Init
  <2>6. ASSUME Init PROVE run \in Nat /\ age \in Nat /\ ended \in Nat /\ fresh \in BOOLEAN
                         /\ logAge \in Nat /\ peaks \in Nat /\ downloading \in BOOLEAN
    BY <2>6 DEF Init
  <2>. QED  BY <2>2, <2>3, <2>4, <2>5, <2>6 DEF TypeOK
<1>2. ASSUME TypeOK, [Next]_vars PROVE TypeOK'
  <2>. USE <1>2, RecorderFacts DEF States, Places, Parts
  <2>1. ASSUME NEW gap \in 1 .. MaxGap, NEW isNew \in BOOLEAN,
               NEW time \in (age + gap - MaxGap) .. (age + gap), Sense(gap, isNew, time)
        PROVE  TypeOK'
    <3>1. probe' \in Probes /\ probes' \in Seq(Probes) /\ overflow' \in SUBSET {"events", "probes"}
      <4>1. age + gap - MaxGap \in Int /\ age + gap \in Int  BY DEF TypeOK
      <4>2. ProbeSample(time) \in Probes  BY <4>1, CapturedTyped
      <4>. QED  BY <2>1, <4>2, FinalizeTyped DEF Sense, TypeOK
    <3>. QED  BY <2>1, <3>1 DEF Sense, TypeOK, fileVars
  <2>2. CASE NoEvent
    BY <2>2, StoppedTyped DEF NoEvent, TypeOK, tableVars, fileVars
  <2>3. CASE Peak
    <3>1. peaks' \in Nat /\ overflow' \in SUBSET {"events", "probes"}
      <4>1. peaks' = peaks + 1 \/ peaks' = peaks  BY <2>3 DEF Peak, AddPeak
      <4>2. overflow' = overflow \cup {"events"} \/ overflow' = overflow
        BY <2>3 DEF Peak, AddPeak
      <4>3. peaks' \in Nat  BY <4>1 DEF TypeOK
      <4>4. overflow' \in SUBSET {"events", "probes"}  BY <4>2 DEF TypeOK
      <4>. QED  BY <4>3, <4>4
    <3>. QED  BY <2>3, <3>1, StoppedTyped DEF Peak, TypeOK, runVars, fileVars
  <2>4. ASSUME NEW c \in last.motion .. age, NEW width \in Widths \cup {0}, ZeroCross(c, width)
        PROVE  TypeOK'
    <3>1. pulse' \in Pulses /\ probe' \in Probes
      <4>1. CASE width > 0
        <5>. DEFINE p == [id |-> pulse.id + 1, active |-> TRUE, start |-> age, width |-> width]
        <5>1. p \in Pulses /\ p.id = pulse.id + 1 /\ p.start = age /\ p.width = width
          BY DEF TypeOK, Pulses
        <5>2. pulse' = p /\ probe' = StartProbe(p)
          BY <2>4, <4>1 DEF ZeroCross, StartPulse
        <5>. HIDE DEF p
        <5>3. [NoProbe EXCEPT !.pending = TRUE, !.run = run, !.pulse = p.id,
                              !.start = p.start, !.width = p.width] \in Probes
          BY <5>1, NewTyped DEF Probes, Pulses, TypeOK
        <5>. QED  BY <5>1, <5>2, <5>3 DEF StartProbe, TypeOK
      <4>2. CASE ~(width > 0)
        BY <2>4, <4>2 DEF ZeroCross, TypeOK
      <4>. QED  BY <4>1, <4>2
    <3>2. crosses' \in Seq(Events) /\ overflow' \in SUBSET {"events", "probes"}
      <4>1. (width > 0) \in BOOLEAN /\ pulse'.id \in Nat /\ age \in Nat /\ width \in Nat
        BY <3>1 DEF Pulses, TypeOK
      <4>2. [kick |-> FALSE, executed |-> width > 0, pulse |-> pulse'.id,
             start |-> age, width |-> width] \in Events
        BY <4>1, EventTyped
      <4>. QED  BY <2>4, <4>2, AddTyped DEF ZeroCross
    <3>3. ring' \in Rings
      <4>1. Audit(pulse.id, pulse'.id, width > 0) \in Audits
        BY <3>1 DEF Audit, Audits, Pulses, TypeOK
      <4>. QED  BY <2>4, <4>1, PushTyped DEF ZeroCross
    <3>4. [cross |-> c, motion |-> age, peak |-> FALSE] \in Lasts  BY DEF TypeOK, Lasts
    <3>. QED  BY <2>4, <3>1, <3>2, <3>3, <3>4 DEF ZeroCross, TypeOK, fileVars
  <2>5. ASSUME NEW granted \in BOOLEAN, BeginMeasurement(granted) PROVE TypeOK'
    <3>1. pulse' \in Pulses /\ probe' \in Probes
      <4>1. [id |-> pulse.id + 1, active |-> TRUE, start |-> 0, width |-> KickWidth] \in Pulses
        BY DEF TypeOK, Pulses
      <4>2. [NoProbe EXCEPT !.pending = TRUE, !.run = run, !.pulse = pulse.id + 1,
                            !.width = KickWidth] \in Probes
        <5>1. pulse.id + 1 \in Nat /\ run \in Nat  BY DEF TypeOK, Pulses
        <5>. QED  BY <5>1, NewTyped DEF Probes
      <4>. QED  BY <2>5, <4>1, <4>2, NewTyped, StoppedTyped DEF BeginMeasurement, StopMotor
    <3>2. crosses' \in Seq(Events) /\ overflow' \in SUBSET {"events", "probes"}
      <4>1. [kick |-> TRUE, executed |-> granted, pulse |-> pulse'.id, start |-> 0,
             width |-> IF granted THEN KickWidth ELSE 0] \in Events
        BY <3>1 DEF Events, Pulses
      <4>. QED  BY <2>5, <4>1, AddTyped DEF BeginMeasurement
    <3>3. log' \in Logs
      <4>1. log.rows + 1 \in Nat  BY DEF TypeOK, Logs
      <4>. QED  BY <2>5, <4>1, RowsTyped DEF BeginMeasurement
    <3>. QED  BY <2>5, <3>1, <3>2, <3>3, NewTyped DEF BeginMeasurement, TypeOK, fileVars
  <2>6. CASE Act
    BY <2>6, StoppedTyped DEF Act, StopMotor, TypeOK, tableVars, fileVars
  <2>7. CASE LogRow
    <3>1. probe' \in Probes /\ probes' \in Seq(Probes) /\ overflow' \in SUBSET {"events", "probes"}
      <4>1. CASE Due  BY <2>7, <4>1, FinalizeTyped, CapturedTyped DEF LogRow
      <4>2. CASE ~Due  BY <2>7, <4>2 DEF LogRow, TypeOK
      <4>. QED  BY <4>1, <4>2
    <3>2. log' \in Logs
      <4>1. log.rows + 1 \in Nat  BY DEF TypeOK, Logs
      <4>2. log' = log \/ log' = Rows(1)  BY <2>7 DEF LogRow
      <4>. QED  BY <4>1, <4>2, RowsTyped DEF TypeOK
    <3>3. pulse' \in Pulses
      BY <2>7, StoppedTyped DEF LogRow, StopMotor, TypeOK
    <3>4. state' \in States /\ logAge' \in Nat
      BY <2>7 DEF LogRow, TypeOK
    <3>. QED  BY <2>7, <3>1, <3>2, <3>3, <3>4 DEF LogRow, TypeOK, fileVars
  <2>8. CASE EndOfPart
    <3>. DEFINE n == IF log.rows + 2 <= Capacity THEN 2 ELSE Capacity - log.rows
    <3>1. log' \in Logs
      <4>1. n \in Int /\ log.rows + n \in Nat  BY DEF TypeOK, Logs
      <4>2. Rows(n) \in Logs
        BY <4>1, RowsTyped
      <4>. HIDE DEF n
      <4>3. log' = log \/ log' = [Rows(n) EXCEPT !.pulses = log.pulses]
        BY <2>8 DEF EndOfPart, n
      <4>. QED  BY <4>2, <4>3 DEF TypeOK, Logs
    <3>2. pulse' \in Pulses
      BY <2>8, StoppedTyped DEF EndOfPart, StopMotor, TypeOK
    <3>3. state' \in States
      <4>1. state' \in {state, "end_sync", "estop"}  BY <2>8 DEF EndOfPart
      <4>. QED  BY <4>1 DEF TypeOK
    <3>4. ended' \in Nat /\ logAge' \in Nat  
      <4>1. (ended' = age \/ ended' = ended) /\ (logAge' = 0 \/ logAge' = logAge)
        BY <2>8 DEF EndOfPart
      <4>. QED  BY <4>1 DEF TypeOK
    <3>. QED  BY <2>8, <3>1, <3>2, <3>3, <3>4 DEF EndOfPart, TypeOK, tableVars, fileVars
  <2>9. CASE Loop
    <3>1. probe' \in Probes /\ probes' \in Seq(Probes) /\ overflow' \in SUBSET {"events", "probes"}
      BY <2>9, FinalizeTyped, CapturedTyped DEF Loop
    <3>. QED  BY <2>9, <3>1 DEF Loop, TypeOK, fileVars
  <2>10. CASE EmergencyStop
    BY <2>10, StoppedTyped DEF EmergencyStop, StopMotor, TypeOK, tableVars, fileVars
  <2>11. CASE Rest
    <3>1. probe' \in Probes /\ probes' \in Seq(Probes) /\ overflow' \in SUBSET {"events", "probes"}
      <4>1. age \in Int  BY DEF TypeOK
      <4>2. ProbeSample(age) \in Probes  BY <4>1, CapturedTyped
      <4>. QED  BY <2>11, <4>2, FinalizeTyped DEF Rest
    <3>. QED  BY <2>11, <3>1 DEF Rest, TypeOK, runVars, fileVars
  <2>12. CASE Clear
    <3>1. <<>> \in Seq(Events) /\ <<>> \in Seq(Probes)  OBVIOUS
    <3>4. crosses' \in Seq(Events) /\ probes' \in Seq(Probes) /\ ring' \in Rings /\ peaks' \in Nat
          /\ overflow' \in SUBSET {"events", "probes"}
      <4>1. UNCHANGED tableVars \/ ClearTables  BY <2>12 DEF Clear
      <4>2. CASE UNCHANGED tableVars  BY <4>2 DEF tableVars, TypeOK
      <4>3. CASE ClearTables  BY <4>3, <3>1, StoppedTyped DEF ClearTables
      <4>. QED  BY <4>1, <4>2, <4>3
    <3>. QED  BY <2>12, <3>4, NewTyped, StoppedTyped DEF Clear, TypeOK, fileVars
  <2>13. CASE Start
    <3>1. run + 1 \in Nat /\ [run |-> run + 1, rows |-> 1, of |-> {run + 1}, pulses |-> {}] \in Logs
      BY DEF TypeOK, Logs
    <3>2. log' \in Logs /\ run' \in Nat  BY <2>13, <3>1 DEF Start, TypeOK
    <3>3. <<>> \in Seq(Events) /\ <<>> \in Seq(Probes)  OBVIOUS
    <3>4. crosses' \in Seq(Events) /\ probes' \in Seq(Probes) /\ ring' \in Rings /\ peaks' \in Nat
          /\ overflow' \in SUBSET {"events", "probes"}
      <4>1. UNCHANGED tableVars \/ ClearTables  BY <2>13 DEF Start
      <4>2. CASE UNCHANGED tableVars  BY <4>2 DEF tableVars, TypeOK
      <4>3. CASE ClearTables  BY <4>3, <3>3, StoppedTyped DEF ClearTables
      <4>. QED  BY <4>1, <4>2, <4>3
    <3>. QED  BY <2>13, <3>2, <3>4, NewTyped, StoppedTyped DEF Start, TypeOK, fileVars
  <2>14. CASE BeginDownload
    BY <2>14 DEF BeginDownload, TypeOK, runVars, tableVars
  <2>15. ASSUME NEW ok \in BOOLEAN, Send(ok) PROVE TypeOK'
    BY <2>15 DEF Send, TypeOK, runVars, tableVars
  <2>16. CASE UNCHANGED vars
    BY <2>16 DEF TypeOK, vars, runVars, tableVars, fileVars
  <2>. QED  BY <1>2, <2>1, <2>2, <2>3, <2>4, <2>5, <2>6, <2>7, <2>8, <2>9, <2>10, <2>11,
               <2>12, <2>13, <2>14, <2>15, <2>16 DEF Next
<1>. QED  BY <1>1, <1>2, PTL DEF Spec
-----------------------------------------------------------------------------
(* A log of one run. *)

(* What is captured or stored is of the probe's run, and is stored once. *)
LEMMA FinalizeKeeps ==
  ASSUME TypeOK, NEW p \in Probes, Finalize(p)
  PROVE  /\ probe'.pending => p.pending /\ probe' = p
         /\ \/ probes' = probes
            \/ p.pending /\ ~probe'.pending /\ probes' = Append(probes, p)
         /\ \A i \in 1 .. Len(probes') :
              \/ i \in 1 .. Len(probes) /\ probes'[i] = probes[i]
              \/ /\ i = Len(probes) + 1 /\ Len(probes') = Len(probes) + 1
                 /\ probes'[i] = p /\ p.pending
<1>1. probes \in Seq(Probes)  BY DEF TypeOK
<1>2. /\ probe'.pending => p.pending /\ probe' = p
      /\ \/ probes' = probes
         \/ p.pending /\ ~probe'.pending /\ probes' = Append(probes, p)
  BY DEF Finalize, Stored, Probes
<1>3. ASSUME NEW i \in 1 .. Len(probes')
      PROVE  \/ i \in 1 .. Len(probes) /\ probes'[i] = probes[i]
             \/ /\ i = Len(probes) + 1 /\ Len(probes') = Len(probes) + 1
                /\ probes'[i] = p /\ p.pending
  <2>1. CASE probes' = probes  BY <1>3, <2>1
  <2>2. CASE p.pending /\ probes' = Append(probes, p)
    <3>1. Len(probes') = Len(probes) + 1 /\ Len(probes) \in Nat  BY <1>1, <2>2
    <3>2. CASE i = Len(probes) + 1  BY <1>1, <2>2, <3>1, <3>2
    <3>3. CASE i \in 1 .. Len(probes)  BY <1>1, <2>2, <3>1, <3>3
    <3>. QED  BY <1>3, <3>1, <3>2, <3>3
  <2>. QED  BY <1>2, <2>1, <2>2
<1>. QED  BY <1>2, <1>3

LEMMA CapturedRun ==
  ASSUME TypeOK
  PROVE  /\ \A time \in Int : /\ ProbeSample(time).run = probe.run
                              /\ ProbeSample(time).pending = probe.pending
         /\ ProbeRow.run = probe.run /\ ProbeRow.pending = probe.pending
         /\ LET p == IF probe.pending THEN [probe EXCEPT !.loop = TRUE] ELSE probe
            IN  p.run = probe.run /\ p.pending = probe.pending
BY DEF TypeOK, ProbeSample, ProbeRow, Probes

(* A step of Finalize keeps the probes of the run. *)
LEMMA FinalizeRun ==
  ASSUME TypeOK, LInv, NEW p \in Probes, Finalize(p), p.run = probe.run, p.pending = probe.pending
  PROVE  /\ probe'.pending => probe'.run = run
         /\ Running => \A i \in 1 .. Len(probes') : probes'[i].run = run
BY FinalizeKeeps DEF LInv

LEMMA NextLog ==
  ASSUME TypeOK, FInv, LInv, [Next]_vars
  PROVE  FInv' /\ LInv'
<1>. USE RecorderFacts
<1>1. ASSUME NEW gap \in 1 .. MaxGap, NEW isNew \in BOOLEAN,
             NEW time \in (age + gap - MaxGap) .. (age + gap), Sense(gap, isNew, time)
      PROVE  FInv' /\ LInv'
  <2>1. FInv'
    BY <1>1 DEF Sense, FInv, Running, Parts, fileVars, Contents, Header
  <2>2. time \in Int  BY DEF TypeOK
  <2>3. CASE isNew
    <3>1. Finalize(ProbeSample(time)) /\ UNCHANGED <<state, run, log>>
      BY <1>1, <2>3 DEF Sense
    <3>. QED  BY <2>1, <2>2, <3>1, FinalizeRun, CapturedTyped, CapturedRun DEF LInv, Running
  <2>4. CASE ~isNew
    BY <1>1, <2>1, <2>4 DEF Sense, LInv, Running
  <2>. QED  BY <2>3, <2>4
<1>2. CASE NoEvent
  BY <1>2 DEF NoEvent, FInv, LInv, Running, Parts, tableVars, fileVars, Contents, Header
<1>3. CASE Peak
  BY <1>3 DEF Peak, Controlled, FInv, LInv, Running, Parts, runVars, fileVars, Contents, Header
<1>4. ASSUME NEW c \in last.motion .. age, NEW width \in Widths \cup {0}, ZeroCross(c, width)
      PROVE  FInv' /\ LInv'
  <2>1. FInv'
    BY <1>4 DEF ZeroCross, Controlled, FInv, Running, Parts, fileVars, Contents, Header
  <2>2. probe'.pending => probe'.run = run
    BY <1>4 DEF ZeroCross, StartPulse, StartProbe, LInv, NoProbe
  <2>. QED  BY <1>4, <2>1, <2>2 DEF ZeroCross, LInv, Running
<1>5. ASSUME NEW granted \in BOOLEAN, BeginMeasurement(granted) PROVE FInv' /\ LInv'
  <2>1. FInv'
    BY <1>5 DEF BeginMeasurement, FInv, Running, Parts, fileVars, Contents, Header
  <2>2. probe'.pending => probe'.run = run
    <3>1. CASE granted
      <4>1. [NoProbe EXCEPT !.pending = TRUE, !.run = run, !.pulse = pulse.id + 1,
                            !.width = KickWidth].run = run
        BY DEF NoProbe
      <4>. QED  BY <1>5, <3>1, <4>1 DEF BeginMeasurement
    <3>2. CASE ~granted
      BY <1>5, <3>2 DEF BeginMeasurement, NoProbe
    <3>. QED  BY <3>1, <3>2
  <2>3. log' = Rows(1) /\ Running /\ ~downloading
    BY <1>5 DEF BeginMeasurement, FInv, Running, Parts
  <2>4. log'.run = run /\ log'.of = {run}
    BY <2>3 DEF Rows, LInv, TypeOK, Logs
  <2>. QED  BY <1>5, <2>1, <2>2, <2>3, <2>4 DEF BeginMeasurement, LInv
<1>6. CASE Act
  BY <1>6 DEF Act, FInv, LInv, Running, Parts, tableVars, fileVars, Contents, Header
<1>7. CASE LogRow
  <2>1. FInv'
    BY <1>7 DEF LogRow, FInv, Running, Parts, fileVars, Contents, Header
  <2>2. /\ probe'.pending => probe'.run = run
        /\ Running => \A i \in 1 .. Len(probes') : probes'[i].run = run
    <3>1. CASE Due  BY <1>7, <3>1, FinalizeRun, CapturedTyped, CapturedRun DEF LogRow
    <3>2. CASE ~Due  BY <1>7, <3>2 DEF LogRow, LInv
    <3>. QED  BY <3>1, <3>2
  <2>3. Running' => Running /\ ~downloading /\ run' = run
    BY <1>7 DEF LogRow, FInv, Running, Parts
  <2>4. log' = log \/ log' = Rows(1)  BY <1>7 DEF LogRow
  <2>5. Running' => log'.run = run /\ log'.of = {run}
    BY <2>3, <2>4 DEF Rows, LInv, TypeOK, Logs
  <2>. QED  BY <1>7, <2>1, <2>2, <2>3, <2>5 DEF LogRow, LInv
<1>8. CASE EndOfPart
  <2>1. FInv'
    BY <1>8 DEF EndOfPart, FInv, Running, Parts, fileVars, Contents, Header
  <2>. DEFINE n == IF log.rows + 2 <= Capacity THEN 2 ELSE Capacity - log.rows
  <2>2. log' = log \/ log' = [Rows(n) EXCEPT !.pulses = log.pulses]
    BY <1>8 DEF EndOfPart
  <2>. HIDE DEF n
  <2>3. Running' => Running /\ ~downloading
    BY <1>8 DEF EndOfPart, FInv, Running, Parts
  <2>4. Running' => log'.run = run /\ log'.of = {run}
    <3>. DEFINE r == [Rows(n) EXCEPT !.pulses = log.pulses]
    <3>1. log.run = run /\ log.of = {run} => r.run = run /\ r.of = {run}
      BY <2>3 DEF Rows, TypeOK, Logs
    <3>2. log' = log \/ log' = r  BY <2>2
    <3>. HIDE DEF r
    <3>. QED  BY <2>3, <3>1, <3>2 DEF LInv
  <2>. QED  BY <1>8, <2>1, <2>3, <2>4 DEF EndOfPart, LInv, tableVars
<1>9. CASE Loop
  <2>1. FInv'
    BY <1>9 DEF Loop, FInv, Running, Parts, fileVars, Contents, Header
  <2>. QED  BY <1>9, <2>1, FinalizeRun, CapturedTyped, CapturedRun DEF Loop, LInv, Running
<1>10. CASE EmergencyStop
  BY <1>10 DEF EmergencyStop, FInv, LInv, Running, Parts, tableVars, fileVars, Contents, Header
<1>11. CASE Rest
  <2>1. FInv'
    BY <1>11 DEF Rest, Resting, FInv, Running, Parts, runVars, fileVars, Contents, Header
  <2>2. age \in Int  BY DEF TypeOK
  <2>. QED  BY <1>11, <2>1, <2>2, FinalizeRun, CapturedTyped, CapturedRun
            DEF Rest, LInv, Running, runVars
<1>12. CASE Clear
  BY <1>12 DEF Clear, Resting, FInv, LInv, Running, Parts, fileVars, Contents, Header
<1>13. CASE Start
  BY <1>13 DEF Start, Resting, ClearTables, FInv, LInv, Running, Parts, fileVars, Contents, Header,
               NoProbe
<1>14. CASE BeginDownload
  BY <1>14 DEF BeginDownload, Downloadable, FInv, LInv, Running, Parts, runVars, tableVars,
               Contents, Header
<1>15. ASSUME NEW ok \in BOOLEAN, Send(ok) PROVE FInv' /\ LInv'
  <2>1. UNCHANGED <<state, pc, Contents>> /\ file.part # "none"
    BY <1>15 DEF Send, runVars, tableVars, Contents, Header
  <2>2. file = [part |-> file.part, told |-> Contents] /\ ~Running /\ pc = "sense"
    BY <2>1 DEF FInv
  <2>3. \/ file' = NoFile
        \/ file' = [part |-> After(file.part), told |-> Contents]
    <3>1. file' = NoFile \/ file' = [file EXCEPT !.part = After(file.part)]
      BY <1>15 DEF Send
    <3>2. [file EXCEPT !.part = After(file.part)] = [part |-> After(file.part), told |-> Contents]
      BY <2>2
    <3>. QED  BY <3>1, <3>2
  <2>4. FInv'
    <3>1. downloading' <=> file'.part # "none"  BY <1>15 DEF Send
    <3>2. file'.part # "none" => file' = [part |-> file'.part, told |-> Contents']
      BY <2>1, <2>3 DEF NoFile
    <3>. QED  BY <2>1, <2>2, <3>1, <3>2 DEF FInv, Running
  <2>. QED  BY <1>15, <2>1, <2>2, <2>4 DEF Send, LInv, Running, runVars, tableVars
<1>16. CASE UNCHANGED vars
  BY <1>16 DEF FInv, LInv, Running, Parts, vars, runVars, tableVars, fileVars, Contents, Header
<1>. QED  BY <1>1, <1>2, <1>3, <1>4, <1>5, <1>6, <1>7, <1>8, <1>9, <1>10, <1>11,
             <1>12, <1>13, <1>14, <1>15, <1>16 DEF Next

(* The rows and probes of a run are its own, and a downloaded file is of one run,
   whatever starts, stops and clears come between. *)
THEOREM OneRun == Spec => []LogOfOneRun
<1>1. Init => FInv /\ LInv
  BY DEF Init, FInv, LInv, NoFile, NoProbe, Running, Parts
<1>2. TypeOK /\ FInv /\ LInv /\ [Next]_vars => FInv' /\ LInv'
  BY NextLog
<1>3. TypeOK /\ FInv /\ LInv => LogOfOneRun
  BY DEF TypeOK, FInv, LInv, LogOfOneRun
<1>. QED  BY <1>1, <1>2, <1>3, TypeCorrect, PTL DEF Spec
-----------------------------------------------------------------------------
(* Nothing is dropped. *)

(* How long each part lasts. *)
LEMMA Durations ==
  ASSUME TypeOK, FInv, DInv, [Next]_vars
  PROVE  DInv'
<1>. USE RecorderFacts DEF Running, Parts, TypeOK
<1>1. ASSUME NEW gap \in 1 .. MaxGap, NEW isNew \in BOOLEAN,
             NEW time \in (age + gap - MaxGap) .. (age + gap), Sense(gap, isNew, time)
      PROVE  DInv'
  BY <1>1 DEF Sense, DInv
<1>2. CASE NoEvent
  BY <1>2 DEF NoEvent, DInv
<1>3. CASE Peak
  BY <1>3 DEF Peak, DInv, runVars
<1>4. ASSUME NEW c \in last.motion .. age, NEW width \in Widths \cup {0}, ZeroCross(c, width)
      PROVE  DInv'
  BY <1>4 DEF ZeroCross, DInv
<1>5. ASSUME NEW granted \in BOOLEAN, BeginMeasurement(granted) PROVE DInv'
  <2>1. state' = "measure" /\ age' = 0 /\ pc' = "log"  BY <1>5 DEF BeginMeasurement
  <2>. QED  BY <2>1 DEF DInv
<1>6. CASE Act
  <2>1. pc = "act" /\ pc' = "log" /\ UNCHANGED <<age, ended>> /\ state \in Parts
    BY <1>6 DEF Act, FInv
  <2>2. CASE state = "start_sync"
    BY <1>6, <2>1, <2>2 DEF Act, DInv
  <2>3. CASE state = "measure"
    BY <1>6, <2>1, <2>3 DEF Act, DInv
  <2>4. CASE state = "end_sync"
    <3>1. age - ended >= SyncTime => state' = "finished"  BY <1>6, <2>4 DEF Act
    <3>2. ~(age - ended >= SyncTime) => state' = "end_sync"  BY <1>6, <2>4 DEF Act
    <3>. QED  BY <2>1, <2>4, <3>1, <3>2 DEF DInv
  <2>. QED  BY <2>1, <2>2, <2>3, <2>4
<1>7. CASE LogRow
  BY <1>7 DEF LogRow, DInv
<1>8. CASE EndOfPart
  <2>1. CASE state = "measure" /\ age >= Duration
    <3>1. pc = "end" /\ pc' = "loop" /\ state' \in {"end_sync", "estop"}
          /\ ended' = age /\ age' = age
      BY <1>8, <2>1 DEF EndOfPart
    <3>. QED  BY <2>1, <3>1 DEF DInv
  <2>2. CASE ~(state = "measure" /\ age >= Duration)
    <3>1. pc = "end" /\ pc' = "loop" /\ UNCHANGED <<state, age, ended>>
      BY <1>8, <2>2 DEF EndOfPart
    <3>. QED  BY <2>2, <3>1 DEF DInv
  <2>. QED  BY <2>1, <2>2
<1>9. CASE Loop
  BY <1>9 DEF Loop, DInv
<1>10. CASE EmergencyStop
  BY <1>10 DEF EmergencyStop, DInv
<1>11. CASE Rest
  BY <1>11 DEF Rest, DInv, runVars
<1>12. CASE Clear
  BY <1>12 DEF Clear, Resting, DInv
<1>13. CASE Start
  BY <1>13 DEF Start, Resting, DInv
<1>14. CASE BeginDownload
  BY <1>14 DEF BeginDownload, DInv, runVars
<1>15. ASSUME NEW ok \in BOOLEAN, Send(ok) PROVE DInv'
  BY <1>15 DEF Send, DInv, runVars
<1>16. CASE UNCHANGED vars
  BY <1>16 DEF DInv, vars, runVars
<1>. QED  BY <1>1, <1>2, <1>3, <1>4, <1>5, <1>6, <1>7, <1>8, <1>9, <1>10, <1>11,
             <1>12, <1>13, <1>14, <1>15, <1>16 DEF Next

(* A row takes its period, but for those of the parts. *)
LEMMA RowsFit ==
  ASSUME TypeOK, DInv, RInv, pc \in {"log", "end"}
  PROVE  log.rows + 2 <= Capacity
<1>. USE RecorderFacts
<1>1. AuditPeriod * log.rows <= 2 * SyncTime + Duration + 3 * MaxGap - 1 + 4 * AuditPeriod
  <2>1. AuditPeriod * log.rows + logAge <= age + Before  BY DEF RInv
  <2>2. Before <= SyncTime + MaxGap + 4 * AuditPeriod  BY DEF Before
  <2>3. age <= SyncTime + Duration + 2 * MaxGap - 1  BY DEF DInv
  <2>4. AuditPeriod * log.rows \in Int /\ logAge \in Nat /\ age \in Nat
    BY DEF TypeOK, Logs
  <2>5. Before \in Int  BY DEF Before
  <2>. QED  BY <2>1, <2>2, <2>3, <2>4, <2>5
<1>2. AuditPeriod * log.rows < Capacity * AuditPeriod - AuditPeriod
  <2>1. AuditPeriod * log.rows \in Int /\ Capacity * AuditPeriod \in Int  BY DEF TypeOK, Logs
  <2>2. Capacity * AuditPeriod >= 2 * SyncTime + Duration + 3 * MaxGap + 5 * AuditPeriod
    BY RecorderAssumption
  <2>. QED  BY <1>1, <2>1, <2>2
<1>3. ASSUME NEW a \in Nat, NEW r \in Nat, NEW n \in Nat, a > 0, a * r < n * a - a
      PROVE  r + 2 <= n
  <2>1. a * r < a * (n - 1)  BY <1>3
  <2>2. r < n - 1
    <3>1. SUFFICES ASSUME n - 1 <= r PROVE FALSE  OBVIOUS
    <3>2. r - (n - 1) \in Nat /\ a * (r - (n - 1)) >= 0  BY <1>3, <3>1
    <3>. QED  BY <1>3, <2>1, <3>2
  <2>. QED  BY <2>2
<1>4. log.rows \in Nat  BY DEF TypeOK, Logs
<1>. QED  BY <1>2, <1>3, <1>4

LEMMA RowsTake ==
  ASSUME TypeOK, FInv, DInv, RInv, [Next]_vars
  PROVE  RInv'
<1>. USE RecorderFacts DEF Running, Parts, TypeOK
<1>. DEFINE took == AuditPeriod * log.rows
<1>a. /\ took \in Nat /\ log.rows \in Nat
      /\ AuditPeriod * (log.rows + 1) = took + AuditPeriod
      /\ AuditPeriod * (log.rows + 2) = took + 2 * AuditPeriod
  BY DEF Logs
<1>b. RInv <=> (Running \/ pc \in {"log", "end"} => took + logAge <= age + Before)
  BY DEF RInv
<1>c. ASSUME log'.rows = log.rows
      PROVE  RInv' <=> (Running' \/ pc' \in {"log", "end"} => took + logAge' <= age' + Before')
  BY <1>c DEF RInv
<1>d. /\ Before \in Int /\ Before' \in Int
      /\ Before = IF state = "start_sync" THEN AuditPeriod
                  ELSE SyncTime + MaxGap + (IF state = "measure" THEN 2 * AuditPeriod ELSE 4 * AuditPeriod)
      /\ Before' = IF state' = "start_sync" THEN AuditPeriod
                   ELSE SyncTime + MaxGap + (IF state' = "measure" THEN 2 * AuditPeriod ELSE 4 * AuditPeriod)
  BY DEF Before
<1>. HIDE DEF took
<1>1. ASSUME NEW gap \in 1 .. MaxGap, NEW isNew \in BOOLEAN,
             NEW time \in (age + gap - MaxGap) .. (age + gap), Sense(gap, isNew, time)
      PROVE  RInv'
  BY <1>1, <1>a, <1>b, <1>c, <1>d DEF Sense
<1>2. CASE NoEvent
  BY <1>2, <1>a, <1>b, <1>c, <1>d DEF NoEvent
<1>3. CASE Peak
  BY <1>3, <1>a, <1>b, <1>c, <1>d DEF Peak, runVars
<1>4. ASSUME NEW c \in last.motion .. age, NEW width \in Widths \cup {0}, ZeroCross(c, width)
      PROVE  RInv'
  BY <1>4, <1>a, <1>b, <1>c, <1>d DEF ZeroCross
<1>5. ASSUME NEW granted \in BOOLEAN, BeginMeasurement(granted) PROVE RInv'
  <2>1. log'.rows = log.rows + 1
    BY <1>5 DEF BeginMeasurement, FInv, Rows, Logs
  <2>2. /\ state = "start_sync" /\ state' = "measure" /\ age' = 0 /\ logAge' = 0
    BY <1>5 DEF BeginMeasurement
  <2>3. took <= SyncTime + MaxGap + AuditPeriod
    BY <2>2, <1>a, <1>b, <1>d DEF DInv
  <2>4. AuditPeriod * log'.rows = took + AuditPeriod  BY <1>a, <2>1
  <2>. QED  BY <1>a, <1>d, <2>2, <2>3, <2>4 DEF RInv
<1>6. CASE Act
  <2>1. state \in Parts /\ Before' = Before /\ UNCHANGED <<age, log, logAge>>
    BY <1>6, <1>d DEF Act, FInv
  <2>. QED  BY <2>1, <1>b, <1>c
<1>7. CASE LogRow
  <2>1. CASE ~Due
    BY <1>7, <2>1, <1>a, <1>b, <1>c, <1>d DEF LogRow
  <2>2. CASE Due
    <3>1. log.rows < Capacity  BY <1>7, RowsFit, <1>a DEF LogRow
    <3>2. log' = Rows(1) /\ logAge' = 0 /\ UNCHANGED <<state, age>> /\ pc = "log"
      BY <1>7, <2>2, <3>1, <1>a DEF LogRow
    <3>3. log'.rows = log.rows + 1
      BY <3>2 DEF FInv, Rows, Logs
    <3>4. logAge >= AuditPeriod  BY <2>2 DEF Due
    <3>. QED  BY <1>a, <1>b, <3>2, <3>3, <3>4, <1>d, SMTT(30) DEF RInv
  <2>. QED  BY <2>1, <2>2
<1>8. CASE EndOfPart
  <2>1. CASE state = "measure" /\ age >= Duration
    <3>1. pc = "end" /\ log.rows + 2 <= Capacity  BY <1>8, RowsFit DEF EndOfPart
    <3>2. /\ state' = "end_sync" /\ UNCHANGED age /\ logAge' = 0
          /\ log' = [Rows(2) EXCEPT !.pulses = log.pulses]
      BY <1>8, <2>1, <3>1 DEF EndOfPart
    <3>3. log'.rows = log.rows + 2
      BY <2>1, <3>2 DEF FInv, Rows, Logs
    <3>4. AuditPeriod * log'.rows = took + 2 * AuditPeriod  BY <1>a, <3>3
    <3>5. took + logAge <= age + SyncTime + MaxGap + 2 * AuditPeriod  BY <1>b, <1>d, <2>1
    <3>6. Before' = SyncTime + MaxGap + 4 * AuditPeriod  BY <1>d, <3>2
    <3>7. \A a, l, t, b \in Nat : t + l <= a + SyncTime + MaxGap + b
                                 => t + b + 0 <= a + (SyncTime + MaxGap + 2 * b)
      OBVIOUS
    <3>8. took + 2 * AuditPeriod + 0 <= age + (SyncTime + MaxGap + 2 * (2 * AuditPeriod))
      BY <1>a, <3>5, <3>7
    <3>9. AuditPeriod * log'.rows + logAge' <= age' + Before'
      <4>1. 2 * (2 * AuditPeriod) = 4 * AuditPeriod  OBVIOUS
      <4>2. age' = age /\ logAge' = 0  BY <3>2
      <4>. QED  BY <3>4, <3>6, <3>8, <4>1, <4>2
    <3>. QED  BY <3>9 DEF RInv
  <2>2. CASE ~(state = "measure" /\ age >= Duration)
    <3>1. UNCHANGED <<state, age, log, logAge>> /\ pc = "end"
      BY <1>8, <2>2 DEF EndOfPart
    <3>. QED  BY <3>1, <1>b, <1>c, <1>d
  <2>. QED  BY <2>1, <2>2
<1>9. CASE Loop
  BY <1>9, <1>a, <1>b, <1>c, <1>d DEF Loop
<1>10. CASE EmergencyStop
  BY <1>10, <1>a, <1>b, <1>c, <1>d DEF EmergencyStop
<1>11. CASE Rest
  BY <1>11, <1>a, <1>b, <1>c, <1>d DEF Rest, runVars
<1>12. CASE Clear
  BY <1>12 DEF Clear, Resting, RInv
<1>13. CASE Start
  <2>1. /\ state' = "start_sync" /\ age' = 0 /\ logAge' = 0 /\ log'.rows = 1
    BY <1>13 DEF Start, Resting, FInv
  <2>. QED  BY <2>1, <1>d DEF RInv
<1>14. CASE BeginDownload
  BY <1>14, <1>a, <1>b, <1>c, <1>d DEF BeginDownload, runVars
<1>15. ASSUME NEW ok \in BOOLEAN, Send(ok) PROVE RInv'
  BY <1>15, <1>a, <1>b, <1>c, <1>d DEF Send, runVars
<1>16. CASE UNCHANGED vars
  BY <1>16, <1>a, <1>b, <1>c, <1>d DEF vars, runVars
<1>. QED  BY <1>1, <1>2, <1>3, <1>4, <1>5, <1>6, <1>7, <1>8, <1>9, <1>10, <1>11,
             <1>12, <1>13, <1>14, <1>15, <1>16 DEF Next

(* So many crossings, a half cycle apart, happen in a measurement. *)
LEMMA CrossingsFit ==
  ASSUME NEW n \in Nat, (n - 1) * MinHalfCycle <= Duration + MaxGap - 1
  PROVE  n < RingSize
<1>. USE RecorderFacts
<1>1. (n - 1) * MinHalfCycle < (RingSize - 1) * MinHalfCycle
  <2>1. (n - 1) * MinHalfCycle \in Int /\ (RingSize - 1) * MinHalfCycle \in Int  OBVIOUS
  <2>. QED  BY <2>1, RecorderAssumption
<1>2. ASSUME RingSize <= n PROVE FALSE
  <2>1. n - RingSize \in Nat /\ (n - RingSize) * MinHalfCycle >= 0  BY <1>2
  <2>2. (n - RingSize) * MinHalfCycle = (n - 1) * MinHalfCycle - (RingSize - 1) * MinHalfCycle
    OBVIOUS
  <2>. QED  BY <1>1, <2>1, <2>2
<1>. QED  BY <1>2

(* What is stored was waiting. *)
LEMMA FinalizeFits ==
  ASSUME TypeOK, EInv, NEW p \in Probes, Finalize(p), p.pending = probe.pending
  PROVE  /\ overflow' = {}
         /\ Len(probes') + Waiting' = Len(probes) + Waiting
         /\ ~probe.pending => probes' = probes /\ ~probe'.pending
<1>. USE RecorderFacts
<1>1. probes \in Seq(Probes) /\ Len(probes) \in Nat  BY DEF TypeOK
<1>2. probe.pending \in BOOLEAN  BY DEF TypeOK, Probes
<1>3. CASE Stored(p)
  <2>1. p.pending /\ Len(probes) < MaxEvents  BY <1>1, <1>3 DEF Stored, EInv, Waiting
  <2>2. probe' = [p EXCEPT !.pending = FALSE] /\ probes' = Append(probes, p) /\ overflow' = overflow
    BY <1>3, <2>1 DEF Finalize
  <2>3. ~probe'.pending  BY <2>2 DEF Probes
  <2>4. Len(probes') = Len(probes) + 1  BY <1>1, <2>2
  <2>. QED  BY <1>1, <1>2, <2>1, <2>2, <2>3, <2>4 DEF Waiting, EInv
<1>4. CASE ~Stored(p)
  BY <1>2, <1>4 DEF Finalize, Waiting, EInv
<1>. QED  BY <1>3, <1>4

(* Every decision at a crossing leaves its event and its record: there is room. *)
NewEvent(width) == [kick |-> FALSE, executed |-> width > 0, pulse |-> pulse'.id,
                    start |-> age, width |-> width]
NewRecord(width) == Audit(pulse.id, pulse'.id, width > 0)

LEMMA Crossing ==
  ASSUME TypeOK, DInv, EInv,
         NEW c \in last.motion .. age, NEW width \in Widths \cup {0}, ZeroCross(c, width)
  PROVE  /\ Len(crosses) \in 1 .. RingSize - 1 /\ (Len(crosses) - 1) * MinHalfCycle <= c
         /\ crosses' = Append(crosses, NewEvent(width)) /\ overflow' = {}
         /\ ring'.available = ring.available
         /\ ~ring.available => ring' = ring
         /\ ring.available => /\ ring'.kept = Append(ring.kept, NewRecord(width))
                              /\ ring'.total = ring.total + 1
                              /\ Len(ring'.kept) = ring.total + 1
<1>. USE RecorderFacts
<1>t. /\ crosses \in Seq(Events) /\ Len(crosses) \in Nat /\ peaks \in Nat
      /\ probes \in Seq(Probes) /\ Len(probes) \in Nat
      /\ ring.total \in Nat /\ ring.kept \in Seq(Audits) /\ Len(ring.kept) \in Nat
      /\ probe.pending \in BOOLEAN /\ Waiting \in 0 .. 1 /\ age \in Nat
      /\ last.cross \in Int /\ last.peak \in BOOLEAN /\ pulse.id \in Nat /\ pulse.active \in BOOLEAN
  BY SMTT(30) DEF TypeOK, Rings, Probes, Lasts, Pulses, Waiting
<1>. DEFINE record == NewRecord(width)
           event == NewEvent(width)
<1>1. /\ state = "measure" /\ last.peak /\ last' = [cross |-> c, motion |-> age, peak |-> FALSE]
      /\ c >= last.cross + MinHalfCycle /\ c <= age /\ c \in Int
      /\ UNCHANGED <<state, peaks, probes>> /\ AddCross(event) /\ Push(record)
      /\ IF width > 0 THEN StartPulse(width) ELSE UNCHANGED <<pulse, probe>>
  BY <1>t DEF NewRecord, NewEvent, ZeroCross, Controlled, TypeOK, Lasts
<1>. HIDE DEF record, event
<1>2. (Len(crosses) - 1) * MinHalfCycle <= c
  <2>1. (Len(crosses) - 1) * MinHalfCycle = (Len(crosses) - 2) * MinHalfCycle + MinHalfCycle
    BY <1>t
  <2>. QED  BY <1>t, <1>1, <2>1 DEF EInv
<1>3. Len(crosses) < RingSize
  <2>1. age <= Duration + MaxGap - 1  BY <1>1 DEF DInv
  <2>2. (Len(crosses) - 1) * MinHalfCycle \in Int  BY <1>t
  <2>. QED  BY <1>t, <1>1, <1>2, <2>1, <2>2, CrossingsFit
<1>4. peaks <= Len(crosses) /\ Len(crosses) >= 1 /\ overflow = {}  BY <1>t, <1>1 DEF EInv
<1>5. ~EventsFull /\ Len(crosses) < MaxEvents  BY <1>t, <1>3, <1>4 DEF EventsFull
<1>6. crosses' = Append(crosses, event) /\ overflow' = {}
  BY <1>1, <1>4, <1>5 DEF AddCross
<1>8. /\ ~ring.available => ring' = ring
      /\ ring.available => /\ Len(ring.kept) < RingSize
                           /\ ring' = [ring EXCEPT !.total = ring.total + 1,
                                                   !.kept = Append(ring.kept, record)]
  <2>1. ring.available => Len(ring.kept) < RingSize
    BY <1>t, <1>3, <1>4, SMTT(30) DEF EInv
  <2>. QED  BY <1>1, <2>1 DEF Push
<1>9. /\ ring'.available = ring.available
      /\ ring.available => /\ ring'.kept = Append(ring.kept, record)
                           /\ ring'.total = ring.total + 1 /\ Len(ring'.kept) = ring.total + 1
  <2>1. ring.available => ring'.kept = Append(ring.kept, record) /\ ring'.total = ring.total + 1
    BY <1>8 DEF TypeOK, Rings
  <2>2. ring'.available = ring.available  BY <1>8 DEF TypeOK, Rings
  <2>3. Len(ring.kept) = ring.total  BY DEF EInv
  <2>4. Len(Append(ring.kept, record)) = Len(ring.kept) + 1  BY <1>t
  <2>. QED  BY <2>1, <2>2, <2>3, <2>4
<1>10. Len(crosses) \in 1 .. RingSize - 1  BY <1>t, <1>3, <1>4
<1>. QED  BY <1>2, <1>6, <1>8, <1>9, <1>10 DEF record, event

LEMMA TablesFit ==
  ASSUME TypeOK, FInv, DInv, EInv, [Next]_vars
  PROVE  EInv'
<1>. USE RecorderFacts
<1>t. /\ crosses \in Seq(Events) /\ Len(crosses) \in Nat /\ peaks \in Nat
      /\ probes \in Seq(Probes) /\ Len(probes) \in Nat
      /\ ring.total \in Nat /\ ring.kept \in Seq(Audits) /\ Len(ring.kept) \in Nat
      /\ probe.pending \in BOOLEAN /\ Waiting \in 0 .. 1 /\ age \in Nat
      /\ last.cross \in Int /\ last.peak \in BOOLEAN /\ pulse.id \in Nat /\ pulse.active \in BOOLEAN
  BY SMTT(30) DEF TypeOK, Rings, Probes, Lasts, Pulses, Waiting
(* A step of the probe alone. *)
<1>f. ASSUME NEW p \in Probes, Finalize(p), p.pending = probe.pending,
             UNCHANGED <<state, pulse, last, crosses, peaks, ring>>
      PROVE  EInv'
  <2>1. /\ overflow' = {} /\ Len(probes') + Waiting' = Len(probes) + Waiting
        /\ ~probe.pending => probes' = probes /\ ~probe'.pending
    BY <1>f, FinalizeFits
  <2>. QED  BY <1>f, <2>1 DEF EInv
<1>1. ASSUME NEW gap \in 1 .. MaxGap, NEW isNew \in BOOLEAN,
             NEW time \in (age + gap - MaxGap) .. (age + gap), Sense(gap, isNew, time)
      PROVE  EInv'
  <2>1. time \in Int  BY DEF TypeOK
  <2>2. CASE isNew
    BY <1>1, <1>f, <2>1, <2>2, CapturedTyped, CapturedRun DEF Sense
  <2>3. CASE ~isNew
    BY <1>1, <2>3 DEF Sense, EInv, Waiting
  <2>. QED  BY <2>2, <2>3
<1>2. CASE NoEvent
  BY <1>2 DEF NoEvent, EInv, Waiting, tableVars, TypeOK, Lasts
<1>3. CASE Peak
  <2>1. /\ state = "measure" /\ ~last.peak /\ last'.peak /\ last'.cross = last.cross
        /\ UNCHANGED <<state, crosses, ring, probes, probe, pulse>>
    BY <1>3 DEF Peak, Controlled, runVars, TypeOK, Lasts
  <2>2. Len(crosses) <= RingSize /\ peaks <= Len(crosses) - 1 /\ overflow = {}
    BY <1>t, <2>1 DEF EInv
  <2>3. ~EventsFull /\ peaks < MaxEvents  BY <1>t, <2>2 DEF EventsFull
  <2>4. peaks' = peaks + 1 /\ overflow' = {}  BY <1>3, <2>2, <2>3 DEF Peak, AddPeak
  <2>. QED  BY <1>t, <2>1, <2>2, <2>4 DEF EInv, Waiting
<1>4. ASSUME NEW c \in last.motion .. age, NEW width \in Widths \cup {0}, ZeroCross(c, width)
      PROVE  EInv'
  <2>1. /\ state = "measure" /\ last' = [cross |-> c, motion |-> age, peak |-> FALSE]
        /\ c \in Int /\ UNCHANGED <<state, peaks, probes>>
        /\ IF width > 0 THEN StartPulse(width) ELSE UNCHANGED <<pulse, probe>>
    BY <1>4, <1>t DEF ZeroCross, Controlled, TypeOK, Lasts
  <2>2. /\ Len(crosses) \in 1 .. RingSize - 1 /\ (Len(crosses) - 1) * MinHalfCycle <= c
        /\ crosses' = Append(crosses, NewEvent(width)) /\ overflow' = {}
        /\ ring'.available = ring.available
        /\ ~ring.available => ring' = ring
        /\ ring.available => ring'.total = ring.total + 1 /\ Len(ring'.kept) = ring.total + 1
    BY <1>4, Crossing
  <2>3. Len(crosses) < RingSize  BY <1>t, <2>2
  <2>4. peaks <= Len(crosses) /\ Len(crosses) >= 1  BY <1>t, <2>1 DEF EInv
  <2>6. crosses' = Append(crosses, NewEvent(width)) /\ overflow' = {}  BY <2>2
  <2>7. Len(crosses') = Len(crosses) + 1 /\ crosses' # <<>>  BY <1>t, <2>6
  <2>8. ~ring.available => ring' = ring  BY <2>2
  <2>9. /\ ring'.available = ring.available
        /\ ring.available => ring'.total = ring.total + 1 /\ Len(ring'.kept) = ring.total + 1
    BY <2>2
  <2>10. Waiting' <= Waiting + 1 /\ Waiting' \in 0 .. 1  BY <1>t DEF Waiting
  <2>11. last'.cross = c /\ last'.peak = FALSE  BY <2>1
  <2>12. peaks' <= Len(crosses') - 1 /\ Len(probes') + Waiting' <= Len(crosses')
    <3>1. peaks <= Len(crosses) /\ Len(probes) + Waiting <= Len(crosses)
      BY <1>t, <2>1 DEF EInv
    <3>. QED  BY <1>t, <2>1, <2>7, <2>10, <3>1
  <2>13. last'.cross >= (Len(crosses') - 2) * MinHalfCycle
    BY <1>t, <2>2, <2>7, <2>11
  <2>14. /\ Len(crosses') <= RingSize /\ peaks' <= RingSize
         /\ Len(probes') + Waiting' <= RingSize + 1
    <3>1. Len(crosses') \in Nat /\ Len(crosses') <= RingSize  BY <1>t, <2>3, <2>7
    <3>2. peaks' \in Nat /\ peaks' <= RingSize  BY <1>t, <2>1, <2>12, <3>1
    <3>3. Len(probes') \in Nat /\ Waiting' \in Nat  BY <1>t, <2>1, <2>10
    <3>. QED  BY <2>12, <3>1, <3>2, <3>3
  <2>15. /\ Len(ring'.kept) = ring'.total
         /\ ~ring'.available => ring'.total = 0
         /\ ring'.available => Len(crosses') = ring'.total + 1
    <3>1. CASE ring.available
      BY <1>t, <2>4, <2>7, <2>9, <3>1 DEF EInv
    <3>2. CASE ~ring.available
      BY <2>8, <2>9, <3>2 DEF EInv
    <3>. QED  BY <3>1, <3>2
  <2>16. state' = "measure" /\ overflow' = {}  BY <2>1, <2>6
  <2>17. (IF last'.peak THEN 0 ELSE 1) = 1 /\ Len(crosses') >= 1
    BY <1>t, <2>7, <2>11
  <2>. QED  BY <2>7, <2>12, <2>13, <2>14, <2>15, <2>16, <2>17 DEF EInv
<1>5. ASSUME NEW granted \in BOOLEAN, BeginMeasurement(granted) PROVE EInv'
  <2>1. /\ state = "start_sync" /\ state' = "measure" /\ last' = NoCross
        /\ UNCHANGED <<peaks, ring, probes>> /\ crosses = <<>> /\ peaks = 0 /\ probes = <<>>
        /\ ring.total = 0 /\ Len(ring.kept) = 0 /\ overflow = {}
    BY <1>5 DEF BeginMeasurement, EInv
  <2>2. ~EventsFull  BY <2>1 DEF EventsFull
  <2>3. PICK event : crosses' = Append(crosses, event) /\ overflow' = {}
    BY <1>5, <2>1, <2>2 DEF BeginMeasurement, AddCross
  <2>4. Len(crosses') = 1 /\ crosses' # <<>>  BY <2>1, <2>3
  <2>5. Waiting' \in 0 .. 1 /\ Len(probes') = 0  BY <2>1 DEF Waiting
  <2>6. last'.cross = 0 - MinHalfCycle /\ last'.peak = FALSE  BY <2>1 DEF NoCross
  <2>7. (1 - 2) * MinHalfCycle = 0 - MinHalfCycle  OBVIOUS
  <2>8. last'.cross >= (Len(crosses') - 2) * MinHalfCycle  BY <2>4, <2>6, <2>7
  <2>9. (IF last'.peak THEN 0 ELSE 1) = 1  BY <2>6
  <2>10. ring' = ring /\ peaks' = 0 /\ state' = "measure" /\ overflow' = {}  BY <2>1, <2>3
  <2>11. Len(probes') + Waiting' \in 0 .. 1
    <3>1. Waiting' = 0 \/ Waiting' = 1  BY DEF Waiting
    <3>2. Len(probes') = 0  BY <2>5
    <3>3. Len(probes') + Waiting' = 0 \/ Len(probes') + Waiting' = 1  BY <3>1, <3>2
    <3>. QED  BY <3>3
  <2>12. /\ Len(crosses') <= RingSize /\ peaks' <= RingSize
         /\ Len(probes') + Waiting' <= RingSize + 1 /\ Len(probes') + Waiting' <= Len(crosses')
    BY <2>4, <2>10, <2>11
  <2>. QED  BY <2>1, <2>4, <2>8, <2>9, <2>10, <2>12 DEF EInv
<1>6. CASE Act
  <2>1. state' \in {state, "finished"} /\ (state' = "finished" => state # "start_sync")
    BY <1>6 DEF Act
  <2>2. pulse'.id = pulse.id /\ (pulse'.active => pulse.active)
    BY <1>6 DEF Act, StopMotor, TypeOK, Pulses
  <2>. QED  BY <1>6, <2>1, <2>2 DEF Act, EInv, Waiting, tableVars
<1>7. CASE LogRow
  <2>1. CASE Due
    <3>2. /\ overflow' = {} /\ Len(probes') + Waiting' = Len(probes) + Waiting
          /\ ~probe.pending => probes' = probes /\ ~probe'.pending
      BY <1>7, <2>1, FinalizeFits, CapturedTyped, CapturedRun DEF LogRow
    <3>3. state' \in {state, "estop"} /\ (state' = "estop" \/ pulse' = pulse)
      BY <1>7, <2>1 DEF LogRow
    <3>4. UNCHANGED <<last, crosses, peaks, ring>>  BY <1>7 DEF LogRow
    <3>. QED  BY <3>2, <3>3, <3>4 DEF EInv
  <2>2. CASE ~Due
    BY <1>7, <2>2 DEF LogRow, EInv, Waiting
  <2>. QED  BY <2>1, <2>2
<1>8. CASE EndOfPart
  <2>1. UNCHANGED <<state, pulse>> \/ state' \in {"end_sync", "estop"}
    BY <1>8 DEF EndOfPart
  <2>. QED  BY <1>8, <2>1 DEF EndOfPart, EInv, Waiting, tableVars
<1>9. CASE Loop
  BY <1>9, <1>f, CapturedTyped, CapturedRun DEF Loop
<1>10. CASE EmergencyStop
  BY <1>10 DEF EmergencyStop, EInv, Waiting, tableVars
<1>11. CASE Rest
  <2>1. age \in Int  BY <1>t
  <2>. QED  BY <1>11, <1>f, <2>1, CapturedTyped, CapturedRun DEF Rest, runVars
<1>12. CASE Clear
  <2>1. state' = "idle" /\ UNCHANGED <<probe, pulse, last>>  BY <1>12 DEF Clear
  <2>2. CASE downloading
    BY <1>12, <2>1, <2>2 DEF Clear, EInv, Waiting, tableVars
  <2>3. CASE ~downloading
    <3>1. ClearTables  BY <1>12, <2>3 DEF Clear
    <3>2. crosses' = <<>> /\ peaks' = 0 /\ probes' = <<>> /\ overflow' = {}
          /\ ring'.total = 0 /\ ring'.kept = <<>>
      BY <3>1 DEF ClearTables, TypeOK, Rings
    <3>. QED  BY <1>t, <2>1, <3>2 DEF EInv, Waiting
  <2>. QED  BY <2>2, <2>3
<1>13. CASE Start
  <2>1. state' = "start_sync" /\ pulse' = NoPulse /\ probe' = NoProbe /\ ClearTables
    BY <1>13 DEF Start, Resting, FInv
  <2>2. crosses' = <<>> /\ peaks' = 0 /\ probes' = <<>> /\ overflow' = {}
        /\ ring'.total = 0 /\ ring'.kept = <<>>
    BY <2>1 DEF ClearTables, TypeOK, Rings
  <2>. QED  BY <2>1, <2>2 DEF EInv, Waiting, NoPulse, NoProbe
<1>14. CASE BeginDownload
  BY <1>14 DEF BeginDownload, EInv, Waiting, runVars, tableVars
<1>15. ASSUME NEW ok \in BOOLEAN, Send(ok) PROVE EInv'
  BY <1>15 DEF Send, EInv, Waiting, runVars, tableVars
<1>16. CASE UNCHANGED vars
  BY <1>16 DEF EInv, Waiting, vars, runVars, tableVars
<1>. QED  BY <1>1, <1>2, <1>3, <1>4, <1>5, <1>6, <1>7, <1>8, <1>9, <1>10, <1>11,
             <1>12, <1>13, <1>14, <1>15, <1>16 DEF Next

DropInv == TypeOK /\ FInv /\ DInv /\ RInv /\ EInv

LEMMA DropInvariant == Spec => []DropInv
<1>1. Init => FInv /\ LInv /\ DInv /\ RInv /\ EInv
  <2>1. Init => FInv /\ LInv
    BY DEF Init, FInv, LInv, NoFile, NoProbe, Running, Parts
  <2>2. Init => DInv /\ RInv
    BY RecorderFacts DEF Init, DInv, RInv, Running, Parts
  <2>3. Init => EInv
    BY RecorderFacts DEF Init, EInv, Waiting, NoProbe
  <2>. QED  BY <2>1, <2>2, <2>3
<1>2. ASSUME TypeOK, FInv, LInv, DInv, RInv, EInv, [Next]_vars PROVE (FInv /\ LInv /\ DInv /\ RInv /\ EInv)'
  BY <1>2, NextLog, Durations, RowsTake, TablesFit
<1>. QED  BY <1>1, <1>2, TypeCorrect, PTL DEF Spec, DropInv

(* No table or ring is ever full, and the row buffer has room whenever a row is due:
   nothing a run logs is dropped. *)
THEOREM NothingDropped == Spec => []RoomForEvery
<1>1. DropInv => RoomForEvery
  <2>. SUFFICES ASSUME DropInv PROVE RoomForEvery  OBVIOUS
  <2>1. pc \in {"log", "end"} => log.rows + 2 <= Capacity /\ log.rows \in Nat
    BY RowsFit DEF DropInv, TypeOK, Logs
  <2>2. Len(crosses) \in Nat /\ ring.total \in Nat  BY DEF DropInv, TypeOK, Rings
  <2>. QED  BY <2>1, <2>2, RecorderFacts DEF DropInv, EInv, RoomForEvery
<1>. QED  BY <1>1, DropInvariant, PTL

(* The audit and the events. *)
LEMMA AuditStep ==
  ASSUME DropInv, AInv, [Next]_vars
  PROVE  AInv'
<1>. USE DEF DropInv
<1>t. /\ crosses \in Seq(Events) /\ Len(crosses) \in Nat /\ ring.kept \in Seq(Audits)
      /\ Len(ring.kept) \in Nat /\ pulse.id \in Nat
  BY DEF TypeOK, Rings, Pulses
(* A step that leaves events, audit and pulse id alone. *)
<1>u. ASSUME UNCHANGED <<crosses, ring>>, pulse'.id = pulse.id, state' = "measure" => state = "measure"
      PROVE  AInv'
  BY <1>u DEF AInv
<1>s. ASSUME StopMotor PROVE pulse'.id = pulse.id
  BY <1>s DEF StopMotor, TypeOK, Pulses
<1>c. ASSUME ClearTables, state' # "measure" PROVE AInv'
  <2>1. ring'.kept = <<>>  BY <1>c DEF ClearTables, TypeOK, Rings
  <2>. QED  BY <1>c, <2>1 DEF AInv
<1>1. ASSUME NEW gap \in 1 .. MaxGap, NEW isNew \in BOOLEAN,
             NEW time \in (age + gap - MaxGap) .. (age + gap), Sense(gap, isNew, time)
      PROVE  AInv'
  BY <1>1, <1>u DEF Sense
<1>2. CASE NoEvent
  BY <1>2, <1>u DEF NoEvent, tableVars
<1>3. CASE Peak
  BY <1>3, <1>u DEF Peak, runVars
<1>4. ASSUME NEW c \in last.motion .. age, NEW width \in Widths \cup {0}, ZeroCross(c, width)
      PROVE  AInv'
  <2>1. /\ Len(crosses) >= 1 /\ crosses' = Append(crosses, NewEvent(width))
        /\ ring'.available = ring.available
        /\ ~ring.available => ring' = ring
        /\ ring.available => ring'.kept = Append(ring.kept, NewRecord(width))
    BY <1>4, <1>t, Crossing, RecorderFacts
  <2>2. state = "measure" /\ crosses # <<>>  BY <1>4, <1>t, <2>1 DEF ZeroCross, Controlled
  <2>3. Len(crosses') = Len(crosses) + 1 /\ crosses'[Len(crosses) + 1] = NewEvent(width)
        /\ \A i \in 1 .. Len(crosses) : crosses'[i] = crosses[i]
    BY <1>t, <2>1
  <2>4. crosses'[Len(crosses')].pulse = pulse'.id  BY <2>3 DEF NewEvent
  <2>5. ASSUME ring'.available, NEW i \in 1 .. Len(ring'.kept)
        PROVE  ring'.kept[i] = Audit(crosses'[i].pulse, crosses'[i + 1].pulse, crosses'[i + 1].executed)
    <3>1. ring.available /\ Len(crosses) = Len(ring.kept) + 1
      BY <2>1, <2>2, <2>5 DEF EInv
    <3>2. Len(ring'.kept) = Len(crosses)  BY <1>t, <2>1, <3>1
    <3>3. CASE i = Len(crosses)
      <4>1. ring'.kept[i] = NewRecord(width)  BY <1>t, <2>1, <3>1, <3>3
      <4>2. crosses[Len(crosses)].pulse = pulse.id  BY <2>2 DEF AInv
      <4>3. crosses'[i + 1] = NewEvent(width) /\ crosses'[i] = crosses[Len(crosses)]
        BY <1>t, <2>1, <2>3, <3>3
      <4>. QED  BY <4>1, <4>2, <4>3 DEF NewRecord, NewEvent
    <3>4. CASE i # Len(crosses)
      <4>1. i \in 1 .. Len(ring.kept) /\ i + 1 \in 1 .. Len(crosses) /\ i \in 1 .. Len(crosses)
        BY <1>t, <2>5, <3>1, <3>2, <3>4
      <4>2. ring'.kept[i] = ring.kept[i]  BY <1>t, <2>1, <3>1, <4>1
      <4>3. crosses'[i] = crosses[i] /\ crosses'[i + 1] = crosses[i + 1]  BY <2>3, <4>1
      <4>. QED  BY <3>1, <4>1, <4>2, <4>3 DEF AInv
    <3>. QED  BY <3>3, <3>4
  <2>. QED  BY <2>4, <2>5 DEF AInv
<1>5. ASSUME NEW granted \in BOOLEAN, BeginMeasurement(granted) PROVE AInv'
  <2>1. /\ state = "start_sync" /\ crosses = <<>> /\ Len(ring.kept) = 0 /\ ring' = ring
        /\ overflow = {} /\ peaks = 0
    BY <1>5 DEF BeginMeasurement, EInv
  <2>2. ~EventsFull /\ Len(crosses) < MaxEvents  BY <2>1, RecorderFacts DEF EventsFull
  <2>3. crosses' = Append(crosses, [kick |-> TRUE, executed |-> granted, pulse |-> pulse'.id,
                                    start |-> 0, width |-> IF granted THEN KickWidth ELSE 0])
    BY <1>5, <2>2 DEF BeginMeasurement, AddCross
  <2>4. crosses'[Len(crosses')].pulse = pulse'.id  BY <2>1, <2>3
  <2>. QED  BY <2>1, <2>4 DEF AInv
<1>6. CASE Act
  <2>1. state' \in {state, "finished"} /\ (pulse' = pulse \/ StopMotor)  BY <1>6 DEF Act
  <2>. QED  BY <1>6, <1>s, <1>u, <2>1 DEF Act, tableVars
<1>7. CASE LogRow
  <2>1. state' \in {state, "estop"} /\ (pulse' = pulse \/ StopMotor)  BY <1>7 DEF LogRow
  <2>. QED  BY <1>7, <1>s, <1>u, <2>1 DEF LogRow
<1>8. CASE EndOfPart
  <2>1. state' \in {state, "end_sync", "estop"} /\ (pulse' = pulse \/ StopMotor)
    BY <1>8 DEF EndOfPart
  <2>. QED  BY <1>8, <1>s, <1>u, <2>1 DEF EndOfPart, tableVars
<1>9. CASE Loop
  BY <1>9, <1>u DEF Loop
<1>10. CASE EmergencyStop
  BY <1>10, <1>s, <1>u DEF EmergencyStop, tableVars
<1>11. CASE Rest
  BY <1>11, <1>u DEF Rest, runVars
<1>12. CASE Clear
  BY <1>12, <1>u, <1>c DEF Clear, tableVars
<1>13. CASE Start
  BY <1>13, <1>c DEF Start, Resting, FInv
<1>14. CASE BeginDownload
  BY <1>14, <1>u DEF BeginDownload, runVars, tableVars
<1>15. ASSUME NEW ok \in BOOLEAN, Send(ok) PROVE AInv'
  BY <1>15, <1>u DEF Send, runVars, tableVars
<1>16. CASE UNCHANGED vars
  BY <1>16, <1>u DEF vars, runVars, tableVars
<1>. QED  BY <1>1, <1>2, <1>3, <1>4, <1>5, <1>6, <1>7, <1>8, <1>9, <1>10, <1>11,
             <1>12, <1>13, <1>14, <1>15, <1>16 DEF Next

(* Every decision at a crossing left one audit record that agrees with its event, and
   the ids of the pulses chain from the kick on. *)
THEOREM AuditOfEvents == Spec => []AuditMatchesEvents
<1>1. Init => AInv
  BY DEF Init, AInv
<1>2. DropInv /\ AInv => AuditMatchesEvents
  <2>. SUFFICES ASSUME DropInv, AInv PROVE AuditMatchesEvents  OBVIOUS
  <2>1. ring.kept \in Seq(Audits)  BY DEF DropInv, TypeOK, Rings
  <2>2. DOMAIN ring.kept = 1 .. Len(ring.kept)  BY <2>1
  <2>3. ring.available /\ crosses # <<>> => Len(crosses) = ring.total + 1  BY DEF DropInv, EInv
  <2>4. ring.available => \A i \in DOMAIN ring.kept :
          ring.kept[i] = Audit(crosses[i].pulse, crosses[i + 1].pulse, crosses[i + 1].executed)
    BY <2>2 DEF AInv
  <2>. QED  BY <2>3, <2>4 DEF AuditMatchesEvents
<1>3. DropInv /\ AInv /\ [Next]_vars => AInv'
  BY AuditStep
<1>. QED  BY <1>1, <1>2, <1>3, DropInvariant, PTL DEF Spec
-----------------------------------------------------------------------------
(* What the log tells of the pulses. *)

(* The pulse of a probe and when it began. *)
SameProbe(p, q) ==
  p.pending = q.pending /\ p.pulse = q.pulse /\ p.start = q.start /\ p.width = q.width

LEMMA CapturedSame ==
  ASSUME TypeOK
  PROVE  /\ \A time \in Int : SameProbe(ProbeSample(time), probe)
         /\ SameProbe(ProbeRow, probe)
         /\ SameProbe(IF probe.pending THEN [probe EXCEPT !.loop = TRUE] ELSE probe, probe)
BY DEF TypeOK, ProbeSample, ProbeRow, Probes, SameProbe

(* A pulse is stopped, or goes on. *)
LEMMA Stopped ==
  ASSUME TypeOK, StopMotor
  PROVE  ~pulse'.active /\ pulse'.id = pulse.id /\ pulse'.start = pulse.start /\ pulse'.width = pulse.width
BY DEF StopMotor, TypeOK, Pulses

LEMMA Started ==
  ASSUME TypeOK, NEW width \in Nat, StartPulse(width), age' = age
  PROVE  /\ pulse'.active /\ pulse'.id = pulse.id + 1 /\ pulse'.start = age /\ pulse'.width = width
         /\ probe.pending => probe' = probe
         /\ ~probe.pending => /\ probe'.pending /\ probe'.pulse = pulse.id + 1 /\ probe'.start = age
                              /\ probe'.width = width /\ ~probe'.loop /\ ~probe'.imu /\ ~probe'.row
<1>. DEFINE p == [id |-> pulse.id + 1, active |-> TRUE, start |-> age, width |-> width]
<1>1. p.active /\ p.id = pulse.id + 1 /\ p.start = age /\ p.width = width  OBVIOUS
<1>2. pulse' = p /\ probe' = StartProbe(p)  BY DEF StartPulse
<1>. HIDE DEF p
<1>. QED  BY <1>1, <1>2 DEF StartProbe, NoProbe

LEMMA PulsesStep ==
  ASSUME DropInv, VInv, [Next]_vars
  PROVE  VInv'
<1>. USE RecorderFacts DEF DropInv
<1>t. /\ crosses \in Seq(Events) /\ Len(crosses) \in Nat /\ age \in Nat
      /\ \A i \in 1 .. Len(crosses) :
           crosses[i].pulse \in Nat /\ crosses[i].start \in Nat /\ crosses[i].width \in Nat
      /\ pulse.id \in Nat /\ pulse.start \in Nat /\ pulse.width \in Nat /\ pulse.active \in BOOLEAN
      /\ probe.pulse \in Nat /\ probe.start \in Nat /\ probe.width \in Nat
  <2>1. crosses \in Seq(Events) /\ Len(crosses) \in Nat /\ age \in Nat  BY DEF TypeOK
  <2>2. ASSUME NEW i \in 1 .. Len(crosses)
        PROVE  crosses[i].pulse \in Nat /\ crosses[i].start \in Nat /\ crosses[i].width \in Nat
    <3>1. crosses[i] \in Events  BY <2>1
    <3>. QED  BY <3>1 DEF Events
  <2>. QED  BY <2>1, <2>2 DEF TypeOK, Pulses, Probes
(* A step of the probe alone. *)
<1>f. ASSUME NEW p \in Probes, Finalize(p), SameProbe(p, probe),
             UNCHANGED <<state, pulse, crosses, age>>,
             pc' \in {"motion", "act"} \/ pc \notin {"motion", "act"}
      PROVE  VInv'
  <2>1. probe'.pending => probe.pending /\ SameProbe(probe', probe)
    BY <1>f, FinalizeKeeps DEF SameProbe, DropInv
  <2>. QED  BY <1>f, <2>1 DEF VInv, PulseInv, LinkInv, EventOf, Told, SameProbe
(* A step of the pulse alone: at most it stops. *)
<1>p. ASSUME UNCHANGED <<probe, crosses, age>>, Told' => Told,
             pulse' = pulse \/ StopMotor,
             pulse' = pulse => state' = state \/ ~pulse.active,
             pc' \in {"motion", "act"} \/ pc \notin {"motion", "act"} \/ ~pulse'.active
               \/ age - pulse.start < pulse.width
      PROVE  VInv'
  <2>1. /\ pulse'.id = pulse.id /\ pulse'.start = pulse.start /\ pulse'.width = pulse.width
        /\ pulse'.active => pulse.active /\ pulse' = pulse
    BY <1>p, Stopped
  <2>. QED  BY <1>p, <1>t, <2>1 DEF VInv, PulseInv, LinkInv, EventOf
<1>1. ASSUME NEW gap \in 1 .. MaxGap, NEW isNew \in BOOLEAN,
             NEW time \in (age + gap - MaxGap) .. (age + gap), Sense(gap, isNew, time)
      PROVE  VInv'
  <2>1. time \in Int  BY DEF TypeOK
  <2>2. probe'.pending => probe.pending /\ SameProbe(probe', probe)
    <3>1. CASE isNew
      BY <1>1, <2>1, <3>1, FinalizeKeeps, CapturedTyped, CapturedSame DEF Sense, SameProbe
    <3>2. CASE ~isNew
      BY <1>1, <3>2 DEF Sense, SameProbe
    <3>. QED  BY <3>1, <3>2
  <2>3. age' >= age /\ age' \in Nat /\ pc' = "motion" /\ UNCHANGED <<state, pulse, crosses>>
    BY <1>1, <1>t DEF Sense
  <2>. QED  BY <1>t, <2>2, <2>3 DEF VInv, PulseInv, LinkInv, EventOf, Told, SameProbe
<1>2. CASE NoEvent
  BY <1>2, <1>p DEF NoEvent, tableVars, Told
<1>3. CASE Peak
  BY <1>3, <1>p DEF Peak, runVars, Told
<1>4. ASSUME NEW c \in last.motion .. age, NEW width \in Widths \cup {0}, ZeroCross(c, width)
      PROVE  VInv'
  <2>1. /\ state = "measure" /\ ~pulse.active /\ pc' = "act" /\ UNCHANGED <<state, age>>
        /\ IF width > 0 THEN StartPulse(width) ELSE UNCHANGED <<pulse, probe>>
    BY <1>4 DEF ZeroCross, Controlled
  <2>2. crosses' = Append(crosses, NewEvent(width))
    BY <1>4, Crossing
  <2>3. Len(crosses') = Len(crosses) + 1 /\ crosses'[Len(crosses) + 1] = NewEvent(width)
        /\ \A i \in 1 .. Len(crosses) : crosses'[i] = crosses[i]
    BY <1>t, <2>2
  <2>4. /\ NewEvent(width).pulse = pulse'.id /\ NewEvent(width).start = age
        /\ NewEvent(width).width = width /\ (NewEvent(width).executed <=> width > 0)
    BY DEF NewEvent
  <2>5. CASE width > 0
    <3>1. /\ pulse'.active /\ pulse'.id = pulse.id + 1 /\ pulse'.start = age /\ pulse'.width = width
          /\ probe.pending => probe' = probe
          /\ ~probe.pending => /\ probe'.pending /\ probe'.pulse = pulse.id + 1 /\ probe'.start = age
                               /\ probe'.width = width
      BY <2>1, <2>5, Started
    <3>2. PulseInv' /\ LinkInv'
      BY <1>t, <2>1, <2>5, <3>1 DEF VInv, PulseInv, LinkInv
    <3>3. ASSUME NEW i \in 1 .. Len(crosses') PROVE EventOf(crosses[i])'
      <4>1. CASE i = Len(crosses) + 1
        BY <1>t, <2>1, <2>3, <2>4, <2>5, <3>1, <4>1, SMTT(30) DEF VInv, LinkInv, EventOf
      <4>2. CASE i \in 1 .. Len(crosses)
        <5>1. EventOf(crosses[i]) /\ crosses'[i] = crosses[i]
          BY <2>1, <2>3, <4>2 DEF VInv, Told, Parts
        <5>2. crosses[i].pulse \in Nat /\ crosses[i].pulse <= pulse.id /\ crosses[i].pulse # pulse'.id
          BY <1>t, <3>1, <4>2, <5>1 DEF EventOf
        <5>3. CASE probe.pending
          BY <1>t, <2>1, <3>1, <5>1, <5>2, <5>3, SMTT(30) DEF EventOf
        <5>4. CASE ~probe.pending
          BY <1>t, <2>1, <3>1, <5>1, <5>2, <5>4, SMTT(30) DEF EventOf
        <5>. QED  BY <5>3, <5>4
      <4>. QED  BY <1>t, <2>3, <4>1, <4>2, SMTT(30)
    <3>. QED  BY <3>2, <3>3 DEF VInv
  <2>6. CASE ~(width > 0)
    <3>1. UNCHANGED <<pulse, probe>>  BY <2>1, <2>6
    <3>2. PulseInv' /\ LinkInv'
      BY <1>t, <2>1, <3>1 DEF VInv, PulseInv, LinkInv
    <3>3. ASSUME NEW i \in 1 .. Len(crosses') PROVE EventOf(crosses[i])'
      <4>1. CASE i = Len(crosses) + 1
        BY <1>t, <2>1, <2>3, <2>4, <2>6, <3>1, <4>1 DEF EventOf
      <4>2. CASE i \in 1 .. Len(crosses)
        <5>1. EventOf(crosses[i])  BY <2>1, <4>2 DEF VInv, Told, Parts
        <5>. QED  BY <1>t, <2>1, <2>3, <3>1, <4>2, <5>1 DEF EventOf
      <4>. QED  BY <1>t, <2>3, <4>1, <4>2, SMTT(30)
    <3>. QED  BY <3>2, <3>3 DEF VInv
  <2>. QED  BY <2>5, <2>6
<1>5. ASSUME NEW granted \in BOOLEAN, BeginMeasurement(granted) PROVE VInv'
  <2>1. /\ state = "start_sync" /\ state' = "measure" /\ crosses = <<>> /\ overflow = {} /\ peaks = 0
        /\ age' = 0 /\ pc' = "log" /\ pulse.id = 0 /\ ~probe.pending
    BY <1>5 DEF BeginMeasurement, EInv
  <2>2. ~EventsFull /\ Len(crosses) < MaxEvents  BY <2>1 DEF EventsFull
  <2>3. crosses' = Append(crosses, [kick |-> TRUE, executed |-> granted, pulse |-> pulse'.id,
                                    start |-> 0, width |-> IF granted THEN KickWidth ELSE 0])
    BY <1>5, <2>2 DEF BeginMeasurement, AddCross
  <2>4. /\ Len(crosses') = 1 /\ crosses'[1].pulse = pulse'.id /\ crosses'[1].start = 0
        /\ (crosses'[1].executed <=> granted) /\ (granted => crosses'[1].width = KickWidth)
    BY <2>1, <2>3
  <2>5. CASE granted
    <3>1. /\ pulse'.active /\ pulse'.id = 1 /\ pulse'.start = 0 /\ pulse'.width = KickWidth
          /\ probe'.pending /\ probe'.pulse = 1 /\ probe'.start = 0 /\ probe'.width = KickWidth
      <4>. DEFINE new == [NoProbe EXCEPT !.pending = TRUE, !.run = run, !.pulse = pulse.id + 1,
                                         !.width = KickWidth]
                  kick == [id |-> pulse.id + 1, active |-> TRUE, start |-> 0, width |-> KickWidth]
      <4>1. new.pending /\ new.pulse = pulse.id + 1 /\ new.start = 0 /\ new.width = KickWidth
        BY DEF NoProbe
      <4>2. kick.active /\ kick.id = pulse.id + 1 /\ kick.start = 0 /\ kick.width = KickWidth
        OBVIOUS
      <4>3. pulse' = kick /\ probe' = new  BY <1>5, <2>5 DEF BeginMeasurement
      <4>. HIDE DEF new, kick
      <4>. QED  BY <2>1, <4>1, <4>2, <4>3
    <3>. QED  BY <2>1, <2>4, <2>5, <3>1 DEF VInv, PulseInv, LinkInv, EventOf
  <2>6. CASE ~granted
    <3>1. ~pulse'.active /\ ~probe'.pending /\ pulse'.id = 0
      BY <1>5, <2>1, <2>6, Stopped DEF BeginMeasurement, NoProbe
    <3>. QED  BY <2>1, <2>4, <2>6, <3>1 DEF VInv, PulseInv, LinkInv, EventOf
  <2>. QED  BY <2>5, <2>6
<1>6. CASE Act
  <2>1. /\ UNCHANGED <<probe, crosses, age>> /\ (Told' => Told)
        /\ state' \in {state, "finished"}
        /\ \/ pulse' = pulse /\ state = "measure" /\ age - pulse.start < pulse.width
           \/ StopMotor
    BY <1>6 DEF Act, tableVars, Told, Parts
  <2>2. state = "measure" => state' = state  BY <1>6 DEF Act
  <2>3. StopMotor => ~pulse'.active  BY Stopped
  <2>4. pulse' = pulse => state' = state \/ ~pulse.active  BY <2>1, <2>2, <2>3
  <2>. QED  BY <1>p, <2>1, <2>3, <2>4
<1>7. CASE LogRow
  <2>1. UNCHANGED <<state, pulse, crosses, age>> /\ pc = "log"
    <3>1. log.rows < Capacity \/ ~Due
      BY <1>7, RowsFit DEF LogRow, TypeOK, Logs
    <3>. QED  BY <1>7, <3>1 DEF LogRow, TypeOK, Logs
  <2>2. CASE Due
    BY <1>7, <1>f, <2>1, <2>2, CapturedTyped, CapturedSame DEF LogRow
  <2>3. CASE ~Due
    BY <1>7, <1>p, <2>1, <2>3 DEF LogRow, Told
  <2>. QED  BY <2>2, <2>3
<1>8. CASE EndOfPart
  <2>1. /\ UNCHANGED <<probe, crosses, age>> /\ pc = "end" /\ (Told' => Told)
        /\ \/ UNCHANGED <<pulse, state>>
           \/ StopMotor
    BY <1>8 DEF EndOfPart, tableVars, Told, Parts
  <2>2. StopMotor => ~pulse'.active  BY Stopped
  <2>3. pulse' = pulse => state' = state \/ ~pulse.active  BY <2>1, <2>2
  <2>. QED  BY <1>p, <2>1, <2>3
<1>9. CASE Loop
  BY <1>9, <1>f, CapturedTyped, CapturedSame DEF Loop
<1>10. CASE EmergencyStop
  <2>1. UNCHANGED <<probe, crosses, age>> /\ ~Told' /\ StopMotor
    BY <1>10 DEF EmergencyStop, tableVars, Told, Parts
  <2>2. ~pulse'.active  BY <2>1, Stopped
  <2>. QED  BY <1>p, <2>1, <2>2
<1>11. CASE Rest
  <2>1. age \in Int  BY <1>t
  <2>. QED  BY <1>11, <1>f, <2>1, CapturedTyped, CapturedSame DEF Rest, Resting, runVars
<1>12. CASE Clear
  <2>1. ~Told' /\ UNCHANGED <<pulse, probe, age>> /\ ~Running
    BY <1>12 DEF Clear, Resting, Told, Parts
  <2>2. ~pulse.active  BY <2>1 DEF VInv, PulseInv, Running, Parts
  <2>. QED  BY <2>1, <2>2 DEF VInv, PulseInv, LinkInv
<1>13. CASE Start
  <2>1. pulse' = NoPulse /\ probe' = NoProbe /\ crosses' = <<>>
    BY <1>13 DEF Start, Resting, ClearTables, FInv
  <2>2. ~pulse'.active /\ ~probe'.pending /\ Len(crosses') = 0
    BY <2>1 DEF NoPulse, NoProbe
  <2>. QED  BY <2>2 DEF VInv, PulseInv, LinkInv
<1>14. CASE BeginDownload
  BY <1>14, <1>p DEF BeginDownload, runVars, tableVars, Told
<1>15. ASSUME NEW ok \in BOOLEAN, Send(ok) PROVE VInv'
  BY <1>15, <1>p DEF Send, runVars, tableVars, Told
<1>16. CASE UNCHANGED vars
  BY <1>16, <1>p DEF vars, runVars, tableVars, Told
<1>. QED  BY <1>1, <1>2, <1>3, <1>4, <1>5, <1>6, <1>7, <1>8, <1>9, <1>10, <1>11,
             <1>12, <1>13, <1>14, <1>15, <1>16 DEF Next

(* What a step knows of the probe that is under way or stored, and of its pulse. *)
LEMMA ProbeFacts ==
  ASSUME TypeOK
  PROVE  /\ pulse.id \in Nat /\ pulse.start \in Nat /\ pulse.width \in Nat /\ pulse.active \in BOOLEAN
         /\ probe.pulse \in Nat /\ probe.start \in Nat /\ probe.width \in Nat /\ probe.rowAt \in Nat
         /\ probe.sample \in Int /\ age \in Nat
         /\ probes \in Seq(Probes) /\ Len(probes) \in Nat /\ DOMAIN probes = 1 .. Len(probes)
         /\ \A i \in 1 .. Len(probes) : probes[i].pulse \in Nat
<1>1. probes \in Seq(Probes) /\ Len(probes) \in Nat /\ DOMAIN probes = 1 .. Len(probes)
  BY DEF TypeOK
<1>2. ASSUME NEW i \in 1 .. Len(probes) PROVE probes[i].pulse \in Nat
  <2>1. probes[i] \in Probes  BY <1>1
  <2>. QED  BY <2>1 DEF Probes
<1>. QED  BY <1>1, <1>2 DEF TypeOK, Pulses, Probes

(* A step of the probe alone, that captures what is the pulse's own. *)
LEMMA Capture ==
  ASSUME TypeOK, VInv, PInv, NEW p \in Probes, Finalize(p), SameProbe(p, probe),
         UNCHANGED <<state, pulse>>, age' \in Nat, age' >= age,
         p.pending /\ p.imu => p.sample >= p.start,
         p.pending /\ p.row => p.rowAt - p.start \in 0 .. p.width - 1,
         p.pending => p.loop \/ (pc' \in {"act", "log", "end", "loop"} /\ age' = p.start)
  PROVE  PInv'
<1>t. TypeOK  OBVIOUS
<1>a. /\ p.pulse \in Nat /\ p.start \in Nat /\ p.width \in Nat
      /\ p.pending \in BOOLEAN /\ p.loop \in BOOLEAN /\ p.imu \in BOOLEAN /\ p.row \in BOOLEAN
  BY DEF Probes
<1>1. p.pending => /\ \A j \in 1 .. Len(probes) : probes[j].pulse < p.pulse
                   /\ p.pulse <= pulse.id
                   /\ state = "measure" /\ ~(pulse.active /\ pulse.id = p.pulse) =>
                        age >= p.start + p.width
  BY DEF SameProbe, VInv, LinkInv, PInv
<1>2. CASE Stored(p)
  <2>1. probe' = [p EXCEPT !.pending = FALSE]
        /\ (probes' = Append(probes, p) \/ probes' = probes)
    BY <1>2 DEF Finalize
  <2>2. ~probe'.pending  BY <2>1 DEF Probes
  <2>3. p.pending /\ (~p.row => state # "measure") /\ p.imu  BY <1>2 DEF Stored
  <2>4. CASE probes' = probes
    BY <2>2, <2>4 DEF PInv, ProbesOfOnePulse
  <2>5. CASE probes' = Append(probes, p)
    <3>1. Len(probes') = Len(probes) + 1 /\ probes'[Len(probes) + 1] = p
          /\ \A i \in 1 .. Len(probes) : probes'[i] = probes[i]
          /\ DOMAIN probes' = 1 .. Len(probes) + 1
      BY <1>t, <2>5, ProbeFacts
    <3>2. \A k \in 1 .. Len(probes') : probes'[k].pulse <= pulse'.id
      BY <1>t, <1>1, <2>3, <3>1, ProbeFacts, SMTT(30) DEF PInv
    <3>3. ASSUME NEW k \in 1 .. Len(probes) + 1
          PROVE  /\ probes'[k].sample >= probes'[k].start
                 /\ probes'[k].row => probes'[k].rowAt - probes'[k].start \in 0 .. probes'[k].width - 1
                 /\ ~probes'[k].row => state' # "measure"
                 /\ \A j \in 1 .. k - 1 : probes'[j].pulse < probes'[k].pulse
      <4>1. CASE k = Len(probes) + 1
        <5>1. probes'[k] = p  BY <3>1, <4>1
        <5>2. \A j \in 1 .. k - 1 : probes'[j] = probes[j] /\ j \in 1 .. Len(probes)
          BY <1>t, <3>1, <4>1, ProbeFacts
        <5>. QED  BY <1>1, <2>3, <5>1, <5>2
      <4>2. CASE k \in 1 .. Len(probes)
        <5>1. probes'[k] = probes[k] /\ k \in DOMAIN probes  BY <1>t, <3>1, <4>2, ProbeFacts
        <5>2. \A j \in 1 .. k - 1 : probes'[j] = probes[j]  BY <1>t, <3>1, <4>2, ProbeFacts
        <5>. QED  BY <5>1, <5>2 DEF PInv, ProbesOfOnePulse
      <4>3. k = Len(probes) + 1 \/ k \in 1 .. Len(probes)  BY <1>t, ProbeFacts
      <4>. QED  BY <4>1, <4>2, <4>3
    <3>. QED  BY <2>2, <3>1, <3>2, <3>3 DEF PInv, ProbesOfOnePulse
  <2>. QED  BY <2>1, <2>4, <2>5
<1>3. CASE ~Stored(p)
  <2>1. probe' = p /\ probes' = probes  BY <1>3 DEF Finalize
  <2>2. p.pending => ~(p.loop /\ p.imu /\ p.row)
    BY <1>3 DEF Stored, PInv
  <2>3. p.pending => (state = "measure" /\ ~(pulse.active /\ pulse.id = p.pulse) =>
                        age' >= p.start + p.width)
    BY <1>t, <1>a, <1>1, ProbeFacts, SMTT(30)
  <2>. QED  BY <1>1, <2>1, <2>2, <2>3 DEF PInv, ProbesOfOnePulse
<1>. QED  BY <1>2, <1>3

LEMMA ProbeStep ==
  ASSUME DropInv, VInv, PInv, [Next]_vars
  PROVE  PInv'
<1>. USE RecorderFacts DEF DropInv
<1>t. TypeOK  OBVIOUS
(* A step that leaves the probes alone; the pulse goes on, or is over in time. *)
<1>u. ASSUME UNCHANGED <<probe, probes>>, age' \in Nat, age' >= age,
             state' = "measure" => state = "measure",
             pulse' = pulse \/ StopMotor,
             ~(pulse' = pulse) /\ state' = "measure" => age >= pulse.start + pulse.width,
             probe.pending => \/ probe.loop
                              \/ pc' \in {"act", "log", "end", "loop"} /\ age' = probe.start
      PROVE  PInv'
  <2>1. pulse'.id = pulse.id  BY <1>u, Stopped
  <2>2. probe.pending /\ state' = "measure" /\ ~(pulse'.active /\ pulse'.id = probe.pulse) =>
          age' >= probe.start + probe.width
    <3>1. CASE pulse' = pulse
      BY <1>t, <1>u, <3>1, ProbeFacts DEF PInv
    <3>2. CASE ~(pulse' = pulse)
      BY <1>t, <1>u, <3>2, ProbeFacts DEF PInv, VInv, LinkInv
    <3>. QED  BY <3>1, <3>2
  <2>. QED  BY <1>u, <2>1, <2>2 DEF PInv, ProbesOfOnePulse
(* A step that clears the tables. *)
<1>c. ASSUME probes' = <<>>, probe'.pending = FALSE \/ (probe' = probe /\ probe.loop /\ UNCHANGED <<pulse, age>> /\ state' # "measure")
      PROVE  PInv'
  <2>1. Len(probes') = 0 /\ DOMAIN probes' = {}  BY <1>c
  <2>. QED  BY <1>c, <2>1 DEF PInv, ProbesOfOnePulse
<1>1. ASSUME NEW gap \in 1 .. MaxGap, NEW isNew \in BOOLEAN,
             NEW time \in (age + gap - MaxGap) .. (age + gap), Sense(gap, isNew, time)
      PROVE  PInv'
  <2>1. time \in Int /\ age' \in Nat /\ age' >= age /\ UNCHANGED <<state, pulse>>
        /\ pc = "sense"
    BY <1>1 DEF TypeOK, Sense
  <2>2. probe.pending => probe.loop  BY <2>1 DEF PInv
  <2>3. CASE isNew
    <3>. DEFINE p == ProbeSample(time)
    <3>1. p \in Probes /\ SameProbe(p, probe)  BY <2>1, CapturedTyped, CapturedSame
    <3>2. /\ p.pending /\ p.imu => p.sample >= p.start
          /\ p.pending /\ p.row => p.rowAt - p.start \in 0 .. p.width - 1
          /\ p.pending => p.loop
      BY <2>2 DEF ProbeSample, PInv, TypeOK, Probes
    <3>3. Finalize(p)  BY <1>1, <2>3 DEF Sense
    <3>. HIDE DEF p
    <3>. QED  BY <2>1, <3>1, <3>2, <3>3, Capture
  <2>4. CASE ~isNew
    BY <1>1, <1>u, <2>1, <2>2, <2>4 DEF Sense
  <2>. QED  BY <2>3, <2>4
<1>2. CASE NoEvent
  <2>1. probe.pending => probe.loop  BY <1>2 DEF PInv, NoEvent
  <2>2. UNCHANGED <<probe, probes, age, pulse, state>>  BY <1>2 DEF NoEvent, tableVars
  <2>. QED  BY <1>t, <1>u, <2>1, <2>2, ProbeFacts
<1>3. CASE Peak
  <2>1. probe.pending => probe.loop  BY <1>3 DEF PInv, Peak
  <2>. QED  BY <1>3, <1>t, <1>u, <2>1, ProbeFacts DEF Peak, runVars
<1>4. ASSUME NEW c \in last.motion .. age, NEW width \in Widths \cup {0}, ZeroCross(c, width)
      PROVE  PInv'
  <2>1. /\ state = "measure" /\ ~pulse.active /\ pc = "motion" /\ pc' = "act"
        /\ UNCHANGED <<state, age, probes>>
        /\ IF width > 0 THEN StartPulse(width) ELSE UNCHANGED <<pulse, probe>>
    BY <1>4 DEF ZeroCross, Controlled
  <2>2. probe.pending => probe.loop  BY <2>1 DEF PInv
  <2>3. CASE width > 0
    <3>1. /\ pulse'.active /\ pulse'.id = pulse.id + 1 /\ pulse'.start = age /\ pulse'.width = width
          /\ probe.pending => probe' = probe
          /\ ~probe.pending => /\ probe'.pending /\ probe'.pulse = pulse.id + 1 /\ probe'.start = age
                               /\ probe'.width = width /\ ~probe'.loop /\ ~probe'.imu /\ ~probe'.row
      BY <1>t, <2>1, <2>3, Started
    <3>2. \A k \in 1 .. Len(probes) : probes[k].pulse <= pulse'.id /\ probes[k].pulse < pulse.id + 1
      BY <1>t, <3>1, ProbeFacts DEF PInv
    <3>3. ProbesOfOnePulse'  BY <2>1 DEF PInv, ProbesOfOnePulse
    <3>4. CASE probe.pending
      BY <1>t, <2>1, <2>2, <3>1, <3>2, <3>3, <3>4, ProbeFacts DEF PInv
    <3>5. CASE ~probe.pending
      BY <1>t, <2>1, <3>1, <3>2, <3>3, <3>5, ProbeFacts DEF PInv
    <3>. QED  BY <3>4, <3>5
  <2>4. CASE ~(width > 0)
    BY <1>t, <1>u, <2>1, <2>2, <2>4, ProbeFacts
  <2>. QED  BY <2>3, <2>4
<1>5. ASSUME NEW granted \in BOOLEAN, BeginMeasurement(granted) PROVE PInv'
  <2>1. /\ state = "start_sync" /\ state' = "measure" /\ probes' = probes /\ probes = <<>>
        /\ age' = 0 /\ pc' = "log"
    BY <1>5 DEF BeginMeasurement, EInv
  <2>2. Len(probes') = 0 /\ DOMAIN probes' = {}  BY <2>1
  <2>3. CASE granted
    <3>1. pulse'.active /\ pulse'.id = pulse.id + 1 
          /\ probe'.pulse = pulse.id + 1 /\ probe'.start = 0 /\ ~probe'.imu /\ ~probe'.row
      <4>. DEFINE new == [NoProbe EXCEPT !.pending = TRUE, !.run = run, !.pulse = pulse.id + 1,
                                         !.width = KickWidth]
                  kick == [id |-> pulse.id + 1, active |-> TRUE, start |-> 0, width |-> KickWidth]
      <4>1. new.pulse = pulse.id + 1 /\ new.start = 0 /\ ~new.imu /\ ~new.row  BY DEF NoProbe
      <4>2. kick.active /\ kick.id = pulse.id + 1  OBVIOUS
      <4>3. pulse' = kick /\ probe' = new  BY <1>5, <2>3 DEF BeginMeasurement
      <4>. HIDE DEF new, kick
      <4>. QED  BY <4>1, <4>2, <4>3
    <3>. QED  BY <2>1, <2>2, <3>1 DEF PInv, ProbesOfOnePulse
  <2>4. CASE ~granted
    <3>1. probe' = NoProbe  BY <1>5, <2>4 DEF BeginMeasurement
    <3>2. probe'.pending = FALSE  BY <3>1 DEF NoProbe
    <3>. QED  BY <1>c, <2>1, <3>2
  <2>. QED  BY <2>3, <2>4
<1>6. CASE Act
  <2>1. /\ UNCHANGED <<probe, probes, age>> /\ pc = "act" /\ pc' = "log"
        /\ state' \in {state, "finished"}
        /\ IF state = "measure" /\ age - pulse.start < pulse.width THEN UNCHANGED pulse ELSE StopMotor
    BY <1>6 DEF Act, tableVars
  <2>2. ~(pulse' = pulse) /\ state' = "measure" => age >= pulse.start + pulse.width
    BY <1>t, <2>1, ProbeFacts
  <2>. QED  BY <1>t, <1>u, <2>1, <2>2, ProbeFacts DEF PInv
<1>7. CASE LogRow
  <2>1. UNCHANGED <<state, pulse, age>> /\ pc = "log" /\ pc' = "end"
    <3>1. log.rows < Capacity \/ ~Due
      BY <1>7, RowsFit DEF LogRow, TypeOK, Logs
    <3>. QED  BY <1>7, <3>1 DEF LogRow, TypeOK, Logs
  <2>2. CASE Due
    <3>. DEFINE p == ProbeRow
    <3>1. p \in Probes /\ SameProbe(p, probe)  BY CapturedTyped, CapturedSame
    <3>2. pulse.active => pulse.start <= age /\ age - pulse.start < pulse.width
      BY <2>1 DEF VInv, PulseInv
    <3>3. /\ p.pending /\ p.imu => p.sample >= p.start
          /\ p.pending => p.loop \/ age = p.start
      BY <2>1 DEF ProbeRow, PInv, TypeOK, Probes
    <3>4. p.pending /\ p.row => p.rowAt - p.start \in 0 .. p.width - 1
      <4>1. CASE p = probe  BY <4>1 DEF PInv
      <4>2. CASE p # probe
        <5>1. /\ probe.pending /\ pulse.active /\ pulse.id = probe.pulse
              /\ p = [probe EXCEPT !.row = TRUE, !.rowAt = age]
          BY <4>2 DEF ProbeRow
        <5>2. p.rowAt = age /\ p.start = pulse.start /\ p.width = pulse.width
          BY <5>1 DEF TypeOK, Probes, VInv, LinkInv
        <5>3. pulse.start <= age /\ age - pulse.start < pulse.width  BY <3>2, <5>1
        <5>4. age - pulse.start \in 0 .. pulse.width - 1  BY <1>t, <5>3, ProbeFacts
        <5>. QED  BY <5>2, <5>4
      <4>. QED  BY <4>1, <4>2
    <3>5. Finalize(p)  BY <1>7, <2>2 DEF LogRow
    <3>. HIDE DEF p
    <3>. QED  BY <1>t, <2>1, <3>1, <3>3, <3>4, <3>5, Capture, ProbeFacts
  <2>3. CASE ~Due
    BY <1>7, <1>t, <1>u, <2>1, <2>3, ProbeFacts DEF LogRow, PInv
  <2>. QED  BY <2>2, <2>3
<1>8. CASE EndOfPart
  <2>1. /\ UNCHANGED <<probe, probes, age>> /\ pc = "end" /\ pc' = "loop"
        /\ \/ UNCHANGED <<pulse, state>>
           \/ StopMotor /\ state' # "measure"
    BY <1>8 DEF EndOfPart, tableVars
  <2>. QED  BY <1>t, <1>u, <2>1, ProbeFacts DEF PInv
<1>9. CASE Loop
  <2>. DEFINE p == IF probe.pending THEN [probe EXCEPT !.loop = TRUE] ELSE probe
  <2>1. p \in Probes /\ SameProbe(p, probe)  BY CapturedTyped, CapturedSame
  <2>2. /\ p.pending /\ p.imu => p.sample >= p.start
        /\ p.pending /\ p.row => p.rowAt - p.start \in 0 .. p.width - 1
        /\ p.pending => p.loop
    BY DEF PInv, TypeOK, Probes
  <2>3. Finalize(p)  BY <1>9 DEF Loop
  <2>. HIDE DEF p
  <2>4. UNCHANGED <<state, pulse, age>>  BY <1>9 DEF Loop
  <2>. QED  BY <1>t, <2>1, <2>2, <2>3, <2>4, Capture, ProbeFacts
<1>10. CASE EmergencyStop
  <2>1. /\ UNCHANGED <<probe, probes, age>> /\ state' # "measure" /\ StopMotor
        /\ pc \in {"sense", "motion"} \/ state = "start_sync"
    BY <1>10 DEF EmergencyStop, tableVars
  <2>2. probe.pending => probe.loop  BY <2>1 DEF PInv, EInv
  <2>. QED  BY <1>t, <1>u, <2>1, <2>2, ProbeFacts
<1>11. CASE Rest
  <2>. DEFINE p == ProbeSample(age)
  <2>1. p \in Probes /\ SameProbe(p, probe) /\ pc = "sense"
        /\ UNCHANGED <<state, pulse, age>> /\ Finalize(p)
    BY <1>11, <1>t, ProbeFacts, CapturedTyped, CapturedSame DEF Rest, Resting, runVars
  <2>2. probe.pending => probe.loop  BY <2>1 DEF PInv
  <2>3. /\ p.pending /\ p.imu => p.sample >= p.start
        /\ p.pending /\ p.row => p.rowAt - p.start \in 0 .. p.width - 1
        /\ p.pending => p.loop
    BY <2>2 DEF ProbeSample, PInv, TypeOK, Probes
  <2>. HIDE DEF p
  <2>. QED  BY <1>t, <2>1, <2>3, Capture, ProbeFacts
<1>12. CASE Clear
  <2>1. /\ state' # "measure" /\ UNCHANGED <<pulse, probe, age>> /\ pc = "sense"
        /\ probes' = probes \/ probes' = <<>>
    BY <1>12 DEF Clear, Resting, tableVars, ClearTables
  <2>2. probe.pending => probe.loop  BY <2>1 DEF PInv
  <2>3. probe.pending \in BOOLEAN  BY DEF TypeOK, Probes
  <2>4. CASE probes' = probes  BY <1>t, <1>u, <2>1, <2>2, <2>4, ProbeFacts
  <2>5. CASE probes' = <<>>
    <3>1. Len(probes') = 0 /\ DOMAIN probes' = {}  BY <2>5
    <3>. QED  BY <2>1, <3>1 DEF PInv, ProbesOfOnePulse
  <2>. QED  BY <2>1, <2>4, <2>5
<1>13. CASE Start
  <2>1. probe' = NoProbe /\ probes' = <<>>
    BY <1>13 DEF Start, Resting, ClearTables, FInv
  <2>2. probe'.pending = FALSE  BY <2>1 DEF NoProbe
  <2>. QED  BY <1>c, <2>1, <2>2
<1>14. CASE BeginDownload
  BY <1>14, <1>t, <1>u, ProbeFacts DEF BeginDownload, runVars, tableVars, PInv
<1>15. ASSUME NEW ok \in BOOLEAN, Send(ok) PROVE PInv'
  <2>1. UNCHANGED <<probe, probes, age, pulse, state, pc>>
    BY <1>15 DEF Send, runVars, tableVars
  <2>. QED  BY <1>t, <1>u, <2>1, ProbeFacts DEF PInv
<1>16. CASE UNCHANGED vars
  BY <1>16, <1>t, <1>u, ProbeFacts DEF vars, runVars, tableVars, PInv
<1>. QED  BY <1>1, <1>2, <1>3, <1>4, <1>5, <1>6, <1>7, <1>8, <1>9, <1>10, <1>11,
             <1>12, <1>13, <1>14, <1>15, <1>16 DEF Next

(* What a step knows of the events and of what the rows show. *)
LEMMA EventFacts ==
  ASSUME TypeOK
  PROVE  /\ crosses \in Seq(Events) /\ Len(crosses) \in Nat /\ logAge \in Nat
         /\ \A i \in 1 .. Len(crosses) :
              /\ crosses[i].pulse \in Nat /\ crosses[i].start \in Nat /\ crosses[i].width \in Nat
              /\ crosses[i].executed \in BOOLEAN
         /\ \A id \in log.pulses : id \in Nat
<1>1. crosses \in Seq(Events) /\ Len(crosses) \in Nat /\ logAge \in Nat  BY DEF TypeOK
<1>2. ASSUME NEW i \in 1 .. Len(crosses)
      PROVE  /\ crosses[i].pulse \in Nat /\ crosses[i].start \in Nat /\ crosses[i].width \in Nat
             /\ crosses[i].executed \in BOOLEAN
  <2>1. crosses[i] \in Events  BY <1>1
  <2>. QED  BY <2>1 DEF Events
<1>3. log.pulses \in SUBSET Nat  BY DEF TypeOK, Logs
<1>. QED  BY <1>1, <1>2, <1>3

(* A row shows the pulse that is active, and no other for the first time. *)
LEMMA RowShows ==
  ASSUME TypeOK, ~downloading
  PROVE  Rows(1).pulses = IF pulse.active THEN log.pulses \cup {pulse.id} ELSE log.pulses
BY DEF Rows, TypeOK, Logs

LEMMA ShownStep ==
  ASSUME DropInv, VInv, PInv, WInv, [Next]_vars
  PROVE  WInv'
<1>. USE RecorderFacts DEF DropInv
<1>t. TypeOK  OBVIOUS
(* A step that leaves the pulse and what the rows show alone. *)
<1>u. ASSUME UNCHANGED <<state, pulse, crosses, age, logAge>>, log'.pulses = log.pulses,
             probe'.pending => /\ probe.pending /\ probe'.pulse = probe.pulse
                               /\ probe'.width = probe.width /\ (probe.row => probe'.row),
             pc' \in {"end", "loop", "sense"} => pc \in {"end", "loop", "sense"},
             pc' \in {"motion", "act"} => pc \in {"motion", "act"}
      PROVE  WInv'
  BY <1>u DEF WInv, UnshownInv, LongProbeInv, ShownInv, Told
(* A step that ends a pulse, which the rows show if it was long. *)
<1>s. ASSUME StopMotor, UNCHANGED <<probe, crosses, age>>, log'.pulses = log.pulses,
             Told' => Told, state' = "measure" => state = "measure",
             pulse.active /\ Long(pulse.width) =>
               \/ pulse.id \in log.pulses
               \/ state' # "measure" /\ pulse.start + pulse.width > Duration
      PROVE  WInv'
  <2>. SUFFICES ASSUME Told' PROVE WInv'  BY DEF WInv
  <2>1. ~pulse'.active /\ pulse'.id = pulse.id /\ Told  BY <1>s, Stopped
  <2>2. LongProbeInv'
    BY <1>s, <2>1 DEF LongProbeInv, WInv, VInv, LinkInv
  <2>3. ASSUME NEW i \in 1 .. Len(crosses) PROVE ShownInv(crosses[i])'
    <3>1. ShownInv(crosses[i]) /\ EventOf(crosses[i])  BY <2>1 DEF WInv, VInv
    <3>. QED  BY <1>s, <2>1, <3>1 DEF ShownInv, EventOf
  <2>. QED  BY <1>s, <2>1, <2>2, <2>3 DEF WInv, UnshownInv
<1>1. ASSUME NEW gap \in 1 .. MaxGap, NEW isNew \in BOOLEAN,
             NEW time \in (age + gap - MaxGap) .. (age + gap), Sense(gap, isNew, time)
      PROVE  WInv'
  <2>1. time \in Int  BY DEF TypeOK
  <2>2. probe'.pending => /\ probe.pending /\ probe'.pulse = probe.pulse
                          /\ probe'.width = probe.width /\ (probe.row => probe'.row)
    <3>1. CASE isNew
      <4>1. probe'.pending => probe' = ProbeSample(time) /\ ProbeSample(time).pending
        BY <1>1, <2>1, <3>1, FinalizeKeeps, CapturedTyped DEF Sense
      <4>2. SameProbe(ProbeSample(time), probe) /\ (probe.row => ProbeSample(time).row)
        BY <2>1, CapturedSame DEF ProbeSample, TypeOK, Probes
      <4>. QED  BY <4>1, <4>2 DEF SameProbe
    <3>2. CASE ~isNew
      BY <1>1, <3>2 DEF Sense
    <3>. QED  BY <3>1, <3>2
  <2>3. /\ UNCHANGED <<state, pulse, crosses, log>> /\ age' = age + gap
        /\ pc = "sense" /\ pc' = "motion"
        /\ logAge' = logAge + gap \/ logAge' >= AuditPeriod
        /\ logAge' \in Nat
    BY <1>1, <1>t, EventFacts DEF Sense
  <2>4. UnshownInv' \/ ~Told
    <3>. SUFFICES ASSUME Told, pulse.active, pulse.id \notin log.pulses PROVE UnshownInv'
      BY <2>3 DEF UnshownInv
    <3>t. age \in Nat /\ pulse.start \in Nat /\ logAge \in Nat
      BY <1>t, ProbeFacts, EventFacts
    <3>1. /\ logAge >= AuditPeriod \/ logAge >= age - pulse.start
          /\ age - pulse.start < AuditPeriod
      BY <2>3 DEF WInv, UnshownInv
    <3>2. logAge' >= AuditPeriod \/ logAge' >= age' - pulse.start
      BY <2>3, <3>t, <3>1
    <3>3. age' - pulse.start < AuditPeriod + MaxGap
      BY <2>3, <3>t, <3>1
    <3>. QED  BY <2>3, <3>2, <3>3 DEF UnshownInv
  <2>. QED  BY <2>2, <2>3, <2>4 DEF WInv, LongProbeInv, ShownInv, Told
<1>2. CASE NoEvent
  BY <1>2, <1>u DEF NoEvent, tableVars
<1>3. CASE Peak
  BY <1>3, <1>u DEF Peak, runVars
<1>4. ASSUME NEW c \in last.motion .. age, NEW width \in Widths \cup {0}, ZeroCross(c, width)
      PROVE  WInv'
  <2>1. /\ state = "measure" /\ ~pulse.active /\ pc = "motion" /\ pc' = "act" /\ Told
        /\ UNCHANGED <<state, age, log, logAge>>
        /\ IF width > 0 THEN StartPulse(width) ELSE UNCHANGED <<pulse, probe>>
    BY <1>4 DEF ZeroCross, Controlled, Told, Parts
  <2>2. crosses' = Append(crosses, NewEvent(width))
    BY <1>4, Crossing
  <2>3. Len(crosses') = Len(crosses) + 1 /\ crosses'[Len(crosses) + 1] = NewEvent(width)
        /\ \A i \in 1 .. Len(crosses) : crosses'[i] = crosses[i]
    BY <1>t, <2>2, EventFacts
  <2>4. NewEvent(width).pulse = pulse'.id /\ (NewEvent(width).executed <=> width > 0)
    BY DEF NewEvent
  <2>5. \A i \in 1 .. Len(crosses) : ShownInv(crosses[i])'
    BY <2>1, <2>3 DEF WInv, ShownInv
  <2>6. \A i \in 1 .. Len(crosses') : i \in 1 .. Len(crosses) \/ i = Len(crosses) + 1
    BY <1>t, <2>3, EventFacts
  <2>7. CASE width > 0
    <3>1. /\ pulse'.active /\ pulse'.id = pulse.id + 1 /\ pulse'.start = age /\ pulse'.width = width
          /\ probe.pending => probe' = probe
          /\ ~probe.pending => probe'.pending /\ probe'.pulse = pulse.id + 1
      BY <1>t, <2>1, <2>7, Started
    <3>2. \A id \in log.pulses : id <= pulse'.id /\ id # pulse.id + 1
      BY <1>t, <2>1, <3>1, ProbeFacts, EventFacts, SMTT(30) DEF WInv
    <3>3. UnshownInv'  BY <1>t, <2>1, <3>1, EventFacts, ProbeFacts, SMTT(30) DEF UnshownInv
    <3>4. LongProbeInv'  BY <2>1, <3>1 DEF LongProbeInv, WInv
    <3>5. probe'.pending /\ probe'.pulse \in log.pulses => probe'.row
      BY <2>1, <3>1, <3>2 DEF WInv
    <3>6. ASSUME NEW i \in Nat, i = Len(crosses) + 1 PROVE ShownInv(crosses[i])'
      BY <2>3, <2>4, <3>1, <3>6 DEF ShownInv
    <3>. QED  BY <2>1, <2>5, <2>6, <3>2, <3>3, <3>4, <3>5, <3>6 DEF WInv
  <2>8. CASE ~(width > 0)
    <3>1. ASSUME NEW i \in Nat, i = Len(crosses) + 1 PROVE ShownInv(crosses[i])'
      BY <2>3, <2>4, <2>8, <3>1 DEF ShownInv
    <3>. QED  BY <2>1, <2>5, <2>6, <2>8, <3>1 DEF WInv, UnshownInv, LongProbeInv
  <2>. QED  BY <2>7, <2>8
<1>5. ASSUME NEW granted \in BOOLEAN, BeginMeasurement(granted) PROVE WInv'
  <2>1. /\ state = "start_sync" /\ state' = "measure" /\ crosses = <<>> /\ overflow = {} /\ peaks = 0
        /\ age' = 0 /\ pc' = "log" /\ logAge' = 0 /\ pulse.id = 0 /\ ~probe.pending /\ ~pulse.active
        /\ log' = Rows(1) /\ Told /\ Running
    BY <1>5 DEF BeginMeasurement, EInv, Told, Running, Parts
  <2>2. ~EventsFull /\ Len(crosses) < MaxEvents  BY <2>1 DEF EventsFull
  <2>3. crosses' = Append(crosses, [kick |-> TRUE, executed |-> granted, pulse |-> pulse'.id,
                                    start |-> 0, width |-> IF granted THEN KickWidth ELSE 0])
    BY <1>5, <2>2 DEF BeginMeasurement, AddCross
  <2>4. /\ Len(crosses') = 1 /\ crosses'[1].pulse = pulse'.id
        /\ (crosses'[1].executed <=> granted)
    BY <2>1, <2>3
  <2>5. ~downloading  BY <2>1 DEF FInv
  <2>6. log'.pulses = log.pulses  BY <1>t, <2>1, <2>5, RowShows
  <2>7. \A id \in log'.pulses : id <= 0  BY <2>1, <2>6 DEF WInv
  <2>8. CASE granted
    <3>1. /\ pulse'.active /\ pulse'.id = 1 /\ pulse'.start = 0 /\ probe'.pulse = 1
      <4>. DEFINE new == [NoProbe EXCEPT !.pending = TRUE, !.run = run, !.pulse = pulse.id + 1,
                                         !.width = KickWidth]
                  kick == [id |-> pulse.id + 1, active |-> TRUE, start |-> 0, width |-> KickWidth]
      <4>1. new.pulse = pulse.id + 1  BY DEF NoProbe
      <4>2. kick.active /\ kick.id = pulse.id + 1 /\ kick.start = 0  OBVIOUS
      <4>3. pulse' = kick /\ probe' = new  BY <1>5, <2>8 DEF BeginMeasurement
      <4>. HIDE DEF new, kick
      <4>. QED  BY <2>1, <4>1, <4>2, <4>3
    <3>2. 1 \notin log'.pulses  BY <2>7
    <3>3. \A id \in log'.pulses : id <= 1  BY <1>t, <2>6, <2>7, EventFacts
    <3>4. UnshownInv' /\ LongProbeInv'  BY <2>1, <3>1 DEF UnshownInv, LongProbeInv
    <3>5. ShownInv(crosses[1])'  BY <2>4, <3>1 DEF ShownInv
    <3>. QED  BY <2>4, <3>1, <3>2, <3>3, <3>4, <3>5 DEF WInv
  <2>9. CASE ~granted
    <3>1. probe' = NoProbe /\ StopMotor  BY <1>5, <2>9 DEF BeginMeasurement
    <3>2. ~probe'.pending /\ ~pulse'.active /\ pulse'.id = 0
      BY <1>t, <2>1, <3>1, Stopped DEF NoProbe
    <3>3. ShownInv(crosses[1])'  BY <2>4, <2>9 DEF ShownInv
    <3>. QED  BY <2>4, <2>7, <3>2, <3>3 DEF WInv, UnshownInv, LongProbeInv
  <2>. QED  BY <2>8, <2>9
<1>6. CASE Act
  <2>1. /\ UNCHANGED <<probe, crosses, age, log, logAge>> /\ pc = "act" /\ pc' = "log"
        /\ state' \in {state, "finished"}
        /\ state = "measure" => state' = state
        /\ (Told' => Told) /\ state \in Parts
        /\ IF state = "measure" /\ age - pulse.start < pulse.width THEN UNCHANGED pulse ELSE StopMotor
    BY <1>6 DEF Act, tableVars, Told, Parts, FInv, Running
  <2>2. CASE pulse' = pulse /\ state = "measure"
    BY <1>u, <2>1, <2>2
  <2>3. CASE StopMotor /\ ~(state = "measure" /\ age - pulse.start < pulse.width)
    <3>1. pulse.active /\ Long(pulse.width) => pulse.id \in log.pulses
      <4>. SUFFICES ASSUME pulse.active, Long(pulse.width), pulse.id \notin log.pulses PROVE FALSE
        OBVIOUS
      <4>1. state = "measure"  BY DEF VInv, PulseInv
      <4>2. age - pulse.start < AuditPeriod + MaxGap  BY <2>1, <4>1 DEF WInv, UnshownInv, Told, Parts
      <4>. QED  BY <1>t, <2>3, <4>1, <4>2, ProbeFacts DEF Long
    <3>. QED  BY <1>s, <2>1, <2>3, <3>1
  <2>. QED  BY <2>1, <2>2, <2>3
<1>7. CASE LogRow
  <2>1. UNCHANGED <<state, pulse, crosses, age>> /\ pc = "log" /\ pc' = "end"
        /\ ~downloading
    <3>1. log.rows < Capacity \/ ~Due
      BY <1>7, RowsFit DEF LogRow, TypeOK, Logs
    <3>2. pc = "log"  BY <1>7 DEF LogRow
    <3>3. ~downloading  BY <3>2 DEF FInv
    <3>. QED  BY <1>7, <3>1, <3>3 DEF LogRow, TypeOK, Logs
  <2>2. CASE Due
    <3>1. log' = Rows(1) /\ logAge' = 0 /\ Finalize(ProbeRow)
      BY <1>7, <2>2, RowsFit DEF LogRow, TypeOK, Logs
    <3>2. log'.pulses = IF pulse.active THEN log.pulses \cup {pulse.id} ELSE log.pulses
      BY <1>t, <2>1, <3>1, RowShows
    <3>3. probe'.pending => probe' = ProbeRow /\ ProbeRow.pending
      BY <3>1, FinalizeKeeps, CapturedTyped
    <3>4. SameProbe(ProbeRow, probe)  BY CapturedSame
    <3>5. probe.row => ProbeRow.row  BY DEF ProbeRow, TypeOK, Probes
    <3>6. probe.pending /\ pulse.active /\ pulse.id = probe.pulse => ProbeRow.row
      BY DEF ProbeRow, TypeOK, Probes
    <3>. SUFFICES ASSUME Told PROVE WInv'  BY <2>1 DEF WInv, Told
    <3>7. \A id \in log'.pulses : id <= pulse'.id
      BY <1>t, <2>1, <3>2, ProbeFacts DEF WInv
    <3>8. probe'.pending /\ probe'.pulse \in log'.pulses => probe'.row
      BY <3>2, <3>3, <3>4, <3>5, <3>6 DEF WInv, SameProbe
    <3>9. UnshownInv' /\ LongProbeInv'
      BY <2>1, <3>2, <3>3, <3>4 DEF UnshownInv, LongProbeInv, SameProbe, WInv
    <3>10. \A i \in 1 .. Len(crosses) : ShownInv(crosses[i])'
      BY <2>1, <3>2 DEF ShownInv, WInv
    <3>. QED  BY <2>1, <3>7, <3>8, <3>9, <3>10 DEF WInv
  <2>3. CASE ~Due
    <3>1. UNCHANGED <<log, logAge, probe>>  BY <1>7, <2>3 DEF LogRow
    <3>2. pulse.active => logAge < AuditPeriod
      BY <1>t, <2>3, EventFacts DEF Due
    <3>3. Told => UnshownInv'
      BY <1>t, <2>1, <3>1, <3>2, ProbeFacts, EventFacts DEF WInv, UnshownInv
    <3>. QED  BY <2>1, <3>1, <3>3 DEF WInv, LongProbeInv, ShownInv, Told
  <2>. QED  BY <2>2, <2>3
<1>8. CASE EndOfPart
  <2>1. UNCHANGED <<probe, crosses, age>> /\ pc = "end" /\ pc' = "loop"
    BY <1>8 DEF EndOfPart, tableVars
  <2>2. CASE state = "measure" /\ age >= Duration
    <3>. DEFINE n == IF log.rows + 2 <= Capacity THEN 2 ELSE Capacity - log.rows
    <3>1. log' = [Rows(n) EXCEPT !.pulses = log.pulses] /\ StopMotor
          /\ state' \in {"end_sync", "estop"}
      BY <1>8, <2>2 DEF EndOfPart
    <3>2. n \in Int /\ log.rows + n \in Nat  BY DEF TypeOK, Logs
    <3>3. Rows(n) \in Logs  BY <3>2, RowsTyped
    <3>. HIDE DEF n
    <3>4. log'.pulses = log.pulses  BY <3>1, <3>3 DEF Logs
    <3>5. pulse.active => pulse.start + pulse.width > Duration
      BY <1>t, <2>1, <2>2, ProbeFacts DEF VInv, PulseInv
    <3>6. Told  BY <2>2 DEF Told, Parts
    <3>. QED  BY <1>s, <2>1, <3>1, <3>4, <3>5, <3>6
  <2>3. CASE ~(state = "measure" /\ age >= Duration)
    BY <1>8, <1>u, <2>1, <2>3 DEF EndOfPart
  <2>. QED  BY <2>2, <2>3
<1>9. CASE Loop
  <2>. DEFINE p == IF probe.pending THEN [probe EXCEPT !.loop = TRUE] ELSE probe
  <2>1. p \in Probes /\ SameProbe(p, probe)  BY CapturedTyped, CapturedSame
  <2>2. probe.row => p.row  BY DEF TypeOK, Probes
  <2>3. Finalize(p) /\ UNCHANGED <<state, pulse, crosses, age, log, logAge>>
        /\ pc = "loop" /\ pc' = "sense"
    BY <1>9 DEF Loop
  <2>. HIDE DEF p
  <2>4. probe'.pending => p.pending /\ probe' = p  BY <2>1, <2>3, FinalizeKeeps
  <2>. QED  BY <1>u, <2>1, <2>2, <2>3, <2>4 DEF SameProbe
<1>10. CASE EmergencyStop
  BY <1>10 DEF EmergencyStop, WInv, Told, Parts
<1>11. CASE Rest
  <2>. DEFINE p == ProbeSample(age)
  <2>1. p \in Probes /\ SameProbe(p, probe)  BY <1>t, ProbeFacts, CapturedTyped, CapturedSame
  <2>2. probe.row => p.row  BY DEF ProbeSample, TypeOK, Probes
  <2>3. Finalize(p) /\ UNCHANGED <<state, pulse, crosses, age, log, logAge, pc>>
    BY <1>11 DEF Rest, runVars
  <2>. HIDE DEF p
  <2>4. probe'.pending => p.pending /\ probe' = p  BY <2>1, <2>3, FinalizeKeeps
  <2>. QED  BY <1>u, <2>1, <2>2, <2>3, <2>4 DEF SameProbe
<1>12. CASE Clear
  BY <1>12 DEF Clear, WInv, Told, Parts
<1>13. CASE Start
  <2>1. /\ pulse' = NoPulse /\ probe' = NoProbe /\ crosses' = <<>>
        /\ log' = [run |-> run', rows |-> 1, of |-> {run'}, pulses |-> {}]
    BY <1>13 DEF Start, Resting, ClearTables, FInv
  <2>2. ~pulse'.active /\ ~probe'.pending /\ Len(crosses') = 0 /\ log'.pulses = {}
    BY <2>1 DEF NoPulse, NoProbe
  <2>. QED  BY <2>2 DEF WInv, UnshownInv, LongProbeInv
<1>14. CASE BeginDownload
  BY <1>14, <1>u DEF BeginDownload, runVars, tableVars
<1>15. ASSUME NEW ok \in BOOLEAN, Send(ok) PROVE WInv'
  BY <1>15, <1>u DEF Send, runVars, tableVars
<1>16. CASE UNCHANGED vars
  BY <1>16, <1>u DEF vars, runVars, tableVars
<1>. QED  BY <1>1, <1>2, <1>3, <1>4, <1>5, <1>6, <1>7, <1>8, <1>9, <1>10, <1>11,
             <1>12, <1>13, <1>14, <1>15, <1>16 DEF Next

(* The probe that an event has, or that kept it from one, is not lost. *)
LEMMA StillCovered ==
  ASSUME TypeOK, EInv, NEW p \in Probes, Finalize(p), SameProbe(p, probe),
         NEW event \in Events, Covered(event),
         event.executed /\ probe.pending /\ KeptBy(event, probe) => KeptBy(event, p)
  PROVE  event.executed =>
           \/ \E k \in 1 .. Len(probes') : ProbeOf(event, probes'[k])
           \/ probe'.pending /\ ProbeOf(event, probe')
<1>. USE RecorderFacts
<1>1. probes \in Seq(Probes) /\ Len(probes) \in Nat  BY DEF TypeOK
<1>. SUFFICES ASSUME event.executed
              PROVE  \/ \E k \in 1 .. Len(probes') : ProbeOf(event, probes'[k])
                     \/ probe'.pending /\ ProbeOf(event, probe')
  OBVIOUS
<1>2. CASE \E k \in 1 .. Len(probes) : ProbeOf(event, probes[k])
  <2>1. PICK k \in 1 .. Len(probes) : ProbeOf(event, probes[k])  BY <1>2
  <2>2. probes' = probes \/ probes' = Append(probes, p)  BY DEF Finalize
  <2>3. k \in 1 .. Len(probes') /\ probes'[k] = probes[k]  BY <1>1, <2>2
  <2>. QED  BY <2>1, <2>3
<1>3. CASE probe.pending /\ ProbeOf(event, probe)
  <2>1. ProbeOf(event, p) /\ p.pending  BY <1>3 DEF ProbeOf, SameProbe
  <2>2. CASE Stored(p)
    <3>1. Len(probes) < MaxEvents  BY <1>1, <1>3 DEF EInv, Waiting
    <3>2. probes' = Append(probes, p)  BY <2>2, <3>1 DEF Finalize
    <3>3. Len(probes) + 1 \in 1 .. Len(probes') /\ probes'[Len(probes) + 1] = p  BY <1>1, <3>2
    <3>. QED  BY <2>1, <3>3
  <2>3. CASE ~Stored(p)
    BY <2>1, <2>3 DEF Finalize
  <2>. QED  BY <2>2, <2>3
<1>. QED  BY <1>2, <1>3 DEF Covered

LEMMA CoveredStep ==
  ASSUME DropInv, VInv, PInv, WInv, SInv, [Next]_vars
  PROVE  SInv'
<1>. USE RecorderFacts DEF DropInv
<1>t. TypeOK  OBVIOUS
(* A step that leaves the probes and the events alone. *)
<1>u. ASSUME UNCHANGED <<probe, probes, crosses>>, Told' => Told, SampledInv' PROVE SInv'
  BY <1>u DEF SInv, Covered
(* A step of the probe alone. *)
<1>f. ASSUME NEW p \in Probes, Finalize(p), SameProbe(p, probe), crosses' = crosses,
             Told' => Told, SampledInv',
             \A i \in 1 .. Len(crosses) :
               Told /\ crosses[i].executed /\ probe.pending /\ KeptBy(crosses[i], probe) =>
                 KeptBy(crosses[i], p)
      PROVE  SInv'
  <2>. SUFFICES ASSUME Told, NEW i \in 1 .. Len(crosses) PROVE Covered(crosses[i])'
    BY <1>f DEF SInv
  <2>1. crosses[i] \in Events  BY <1>t, EventFacts
  <2>2. Covered(crosses[i])  BY DEF SInv
  <2>. QED  BY <1>t, <1>f, <2>1, <2>2, StillCovered DEF Covered
(* A sample taken since the event began, or nearly. *)
<1>k. ASSUME NEW time \in Int, NEW event \in Events, EventOf(event),
             time >= age + 1 - MaxGap \/ time = age, KeptBy(event, probe)
      PROVE  KeptBy(event, ProbeSample(time))
  <2>1. event.start \in Nat /\ event.start <= age /\ age \in Nat
    BY <1>k, <1>t, ProbeFacts DEF Events, EventOf
  <2>2. time > event.start - MaxGap  BY <1>k, <2>1
  <2>3. CASE ProbeSample(time) = probe  BY <1>k, <2>3
  <2>4. CASE ProbeSample(time) # probe
    <3>1. ProbeSample(time) = [probe EXCEPT !.imu = TRUE, !.sample = time]
      BY <2>4 DEF ProbeSample
    <3>2. ProbeSample(time).sample = time /\ ProbeSample(time).pulse = probe.pulse
          /\ ProbeSample(time).width = probe.width
      BY <3>1 DEF TypeOK, Probes
    <3>. QED  BY <1>k, <2>2, <3>2 DEF KeptBy
  <2>. QED  BY <2>3, <2>4
<1>1. ASSUME NEW gap \in 1 .. MaxGap, NEW isNew \in BOOLEAN,
             NEW time \in (age + gap - MaxGap) .. (age + gap), Sense(gap, isNew, time)
      PROVE  SInv'
  <2>t. /\ age \in Nat /\ probe.start \in Nat /\ probe.width \in Nat /\ probe.pending \in BOOLEAN
        /\ time \in Int /\ time >= age + 1 - MaxGap /\ time >= age + gap - MaxGap
    BY <1>t, ProbeFacts DEF TypeOK, Probes
  <2>1. /\ UNCHANGED <<state, pulse, crosses>> /\ pc = "sense" /\ pc' = "motion"
        /\ fresh' = isNew /\ (Told' => Told)
    BY <1>1 DEF Sense, Told
  <2>2. CASE isNew
    <3>. DEFINE p == ProbeSample(time)
    <3>1. p \in Probes /\ SameProbe(p, probe)  BY <2>t, CapturedTyped, CapturedSame
    <3>2. Finalize(p)  BY <1>1, <2>2 DEF Sense
    <3>3. state = "measure" /\ ~pulse.active /\ probe.pending /\ Long(probe.width) => p.imu
      <4>. SUFFICES ASSUME state = "measure", ~pulse.active, probe.pending, Long(probe.width)
                    PROVE  p.imu
        OBVIOUS
      <4>1. age >= probe.start + probe.width  BY DEF PInv
      <4>2. time >= probe.start  BY <2>t, <4>1 DEF Long
      <4>. QED  BY <4>2 DEF ProbeSample, TypeOK, Probes
    <3>4. \A i \in 1 .. Len(crosses) :
            Told /\ crosses[i].executed /\ probe.pending /\ KeptBy(crosses[i], probe) =>
              KeptBy(crosses[i], p)
      <4>. SUFFICES ASSUME NEW i \in 1 .. Len(crosses), Told, KeptBy(crosses[i], probe)
                    PROVE  KeptBy(crosses[i], p)
        OBVIOUS
      <4>1. crosses[i] \in Events  BY <1>t, EventFacts
      <4>2. EventOf(crosses[i])  BY DEF VInv
      <4>. QED  BY <1>k, <2>t, <4>1, <4>2
    <3>. HIDE DEF p
    <3>5. SampledInv'
      <4>1. probe'.pending => p.pending /\ probe' = p  BY <3>1, <3>2, FinalizeKeeps
      <4>. QED  BY <2>1, <3>1, <3>3, <4>1 DEF SampledInv, SameProbe
    <3>. QED  BY <1>f, <2>1, <3>1, <3>2, <3>4, <3>5
  <2>3. CASE ~isNew
    <3>1. SampledInv'  BY <2>1, <2>3 DEF SampledInv
    <3>. QED  BY <1>1, <1>u, <2>1, <2>3, <3>1 DEF Sense
  <2>. QED  BY <2>2, <2>3
<1>2. CASE NoEvent
  BY <1>2, <1>u DEF NoEvent, tableVars, SampledInv, Told
<1>3. CASE Peak
  BY <1>3, <1>u DEF Peak, runVars, SInv, SampledInv, Told
<1>4. ASSUME NEW c \in last.motion .. age, NEW width \in Widths \cup {0}, ZeroCross(c, width)
      PROVE  SInv'
  <2>1. /\ state = "measure" /\ ~pulse.active /\ fresh /\ pc = "motion" /\ pc' = "act" /\ Told
        /\ UNCHANGED <<age, probes>>
        /\ IF width > 0 THEN StartPulse(width) ELSE UNCHANGED <<pulse, probe>>
    BY <1>4 DEF ZeroCross, Controlled, Told, Parts
  <2>2. crosses' = Append(crosses, NewEvent(width))
    BY <1>4, Crossing
  <2>3. Len(crosses') = Len(crosses) + 1 /\ crosses'[Len(crosses) + 1] = NewEvent(width)
        /\ \A i \in 1 .. Len(crosses) : crosses'[i] = crosses[i]
    BY <1>t, <2>2, EventFacts
  <2>4. NewEvent(width).pulse = pulse'.id /\ (NewEvent(width).executed <=> width > 0)
        /\ NewEvent(width).start = age
    BY DEF NewEvent
  <2>5. \A i \in 1 .. Len(crosses') : i \in 1 .. Len(crosses) \/ i = Len(crosses) + 1
    BY <1>t, <2>3, EventFacts
  <2>6. probe.pending => probe' = probe
    BY <1>t, <2>1, Started
  <2>7. \A i \in 1 .. Len(crosses) : Covered(crosses[i])'
    BY <2>1, <2>3, <2>6 DEF SInv, Covered
  <2>8. ASSUME NEW i \in Nat, i = Len(crosses) + 1 PROVE Covered(crosses[i])'
    <3>. SUFFICES ASSUME width > 0
                  PROVE  probe'.pending /\ ProbeOf(NewEvent(width), probe')
      BY <2>3, <2>4, <2>8 DEF Covered
    <3>1. /\ pulse'.id = pulse.id + 1
          /\ ~probe.pending => probe'.pending /\ probe'.pulse = pulse.id + 1
      BY <1>t, <2>1, Started
    <3>2. CASE ~probe.pending  BY <2>4, <3>1, <3>2 DEF ProbeOf
    <3>3. CASE probe.pending
      <4>1. probe.pulse < pulse'.id
        BY <1>t, <3>1, <3>3, ProbeFacts DEF VInv, LinkInv
      <4>2. ~probe.row \/ ~probe.imu  BY <2>1, <3>3 DEF PInv
      <4>3. ~Long(probe.width)
        <5>. SUFFICES ASSUME Long(probe.width) PROVE FALSE  OBVIOUS
        <5>1. probe.imu  BY <2>1, <3>3 DEF SInv, SampledInv
        <5>2. probe.row  BY <2>1, <3>3 DEF WInv, LongProbeInv
        <5>. QED  BY <4>2, <5>1, <5>2
      <4>. QED  BY <2>4, <2>6, <3>3, <4>1, <4>2, <4>3 DEF ProbeOf, KeptBy
    <3>. QED  BY <3>2, <3>3
  <2>. QED  BY <1>t, <2>1, <2>3, <2>5, <2>7, <2>8, EventFacts DEF SInv, SampledInv
<1>5. ASSUME NEW granted \in BOOLEAN, BeginMeasurement(granted) PROVE SInv'
  <2>1. /\ state = "start_sync" /\ crosses = <<>> /\ overflow = {} /\ peaks = 0 /\ pc' = "log"
    BY <1>5 DEF BeginMeasurement, EInv
  <2>2. ~EventsFull /\ Len(crosses) < MaxEvents  BY <2>1 DEF EventsFull
  <2>3. crosses' = Append(crosses, [kick |-> TRUE, executed |-> granted, pulse |-> pulse'.id,
                                    start |-> 0, width |-> IF granted THEN KickWidth ELSE 0])
    BY <1>5, <2>2 DEF BeginMeasurement, AddCross
  <2>4. /\ Len(crosses') = 1 /\ crosses'[1].pulse = pulse'.id
        /\ (crosses'[1].executed <=> granted)
    BY <2>1, <2>3
  <2>5. granted => probe'.pending /\ probe'.pulse = pulse'.id
    <3>. SUFFICES ASSUME granted PROVE probe'.pending /\ probe'.pulse = pulse'.id  OBVIOUS
    <3>. DEFINE new == [NoProbe EXCEPT !.pending = TRUE, !.run = run, !.pulse = pulse.id + 1,
                                       !.width = KickWidth]
                kick == [id |-> pulse.id + 1, active |-> TRUE, start |-> 0, width |-> KickWidth]
    <3>1. new.pending /\ new.pulse = pulse.id + 1  BY DEF NoProbe
    <3>2. kick.id = pulse.id + 1  OBVIOUS
    <3>3. pulse' = kick /\ probe' = new  BY <1>5 DEF BeginMeasurement
    <3>. HIDE DEF new, kick
    <3>. QED  BY <3>1, <3>2, <3>3
  <2>6. Covered(crosses[1])'  BY <2>4, <2>5 DEF Covered, ProbeOf
  <2>. QED  BY <2>1, <2>4, <2>6 DEF SInv, SampledInv
<1>6. CASE Act
  BY <1>6, <1>u DEF Act, tableVars, Told, Parts, SampledInv
<1>7. CASE LogRow
  <2>1. UNCHANGED <<state, pulse, crosses>> /\ pc' = "end"
    <3>1. log.rows < Capacity \/ ~Due
      BY <1>7, RowsFit DEF LogRow, TypeOK, Logs
    <3>. QED  BY <1>7, <3>1 DEF LogRow, TypeOK, Logs
  <2>2. SampledInv' /\ (Told' => Told)  BY <2>1 DEF SampledInv, Told
  <2>3. CASE Due
    <3>1. ProbeRow \in Probes /\ SameProbe(ProbeRow, probe) /\ Finalize(ProbeRow)
      BY <1>7, <2>3, CapturedTyped, CapturedSame DEF LogRow
    <3>2. \A i \in 1 .. Len(crosses) :
            Told /\ crosses[i].executed /\ probe.pending /\ KeptBy(crosses[i], probe) =>
              KeptBy(crosses[i], ProbeRow)
      <4>. SUFFICES ASSUME NEW i \in 1 .. Len(crosses), Told, KeptBy(crosses[i], probe)
                    PROVE  KeptBy(crosses[i], ProbeRow)
        OBVIOUS
      <4>1. crosses[i].pulse \in Nat /\ crosses[i].pulse <= pulse.id
        BY <1>t, EventFacts DEF VInv, EventOf
      <4>2. pulse.id # probe.pulse  BY <1>t, <4>1, ProbeFacts DEF KeptBy
      <4>. QED  BY <4>2 DEF ProbeRow
    <3>. QED  BY <1>f, <2>1, <2>2, <3>1, <3>2
  <2>4. CASE ~Due
    BY <1>7, <1>u, <2>2, <2>4 DEF LogRow
  <2>. QED  BY <2>3, <2>4
<1>8. CASE EndOfPart
  BY <1>8, <1>u DEF EndOfPart, tableVars, Told, Parts, SampledInv
<1>9. CASE Loop
  <2>. DEFINE p == IF probe.pending THEN [probe EXCEPT !.loop = TRUE] ELSE probe
  <2>1. p \in Probes /\ SameProbe(p, probe)  BY CapturedTyped, CapturedSame
  <2>2. p.imu = probe.imu /\ p.row = probe.row /\ p.sample = probe.sample
    BY DEF TypeOK, Probes
  <2>3. Finalize(p) /\ SampledInv' /\ crosses' = crosses /\ (Told' => Told)
    BY <1>9 DEF Loop, SampledInv, Told
  <2>. HIDE DEF p
  <2>4. \A i \in 1 .. Len(crosses) : KeptBy(crosses[i], probe) => KeptBy(crosses[i], p)
    BY <2>1, <2>2 DEF KeptBy, SameProbe
  <2>. QED  BY <1>f, <2>1, <2>3, <2>4
<1>10. CASE EmergencyStop
  BY <1>10, <1>u DEF EmergencyStop, tableVars, Told, Parts, SampledInv
<1>11. CASE Rest
  <2>. DEFINE p == ProbeSample(age)
  <2>1. p \in Probes /\ SameProbe(p, probe)  BY <1>t, ProbeFacts, CapturedTyped, CapturedSame
  <2>2. Finalize(p) /\ SampledInv' /\ crosses' = crosses /\ (Told' => Told)
    BY <1>11 DEF Rest, Resting, Running, Parts, runVars, SampledInv, Told
  <2>3. \A i \in 1 .. Len(crosses) :
          Told /\ crosses[i].executed /\ probe.pending /\ KeptBy(crosses[i], probe) =>
            KeptBy(crosses[i], p)
    <3>. SUFFICES ASSUME NEW i \in 1 .. Len(crosses), Told, KeptBy(crosses[i], probe)
                  PROVE  KeptBy(crosses[i], p)
      OBVIOUS
    <3>1. crosses[i] \in Events /\ age \in Int  BY <1>t, EventFacts, ProbeFacts
    <3>2. EventOf(crosses[i])  BY DEF VInv
    <3>. QED  BY <1>k, <3>1, <3>2
  <2>. HIDE DEF p
  <2>. QED  BY <1>f, <2>1, <2>2, <2>3
<1>12. CASE Clear
  BY <1>12 DEF Clear, SInv, SampledInv, Told, Parts
<1>13. CASE Start
  <2>1. crosses' = <<>> /\ state' = "start_sync"
    BY <1>13 DEF Start, Resting, ClearTables, FInv
  <2>2. Len(crosses') = 0  BY <2>1
  <2>. QED  BY <2>1, <2>2 DEF SInv, SampledInv
<1>14. CASE BeginDownload
  BY <1>14, <1>u DEF BeginDownload, Downloadable, runVars, tableVars, SInv, SampledInv, Told
<1>15. ASSUME NEW ok \in BOOLEAN, Send(ok) PROVE SInv'
  BY <1>15, <1>u DEF Send, runVars, tableVars, SInv, SampledInv, Told
<1>16. CASE UNCHANGED vars
  BY <1>16, <1>u DEF vars, runVars, tableVars, SInv, SampledInv, Told
<1>. QED  BY <1>1, <1>2, <1>3, <1>4, <1>5, <1>6, <1>7, <1>8, <1>9, <1>10, <1>11,
             <1>12, <1>13, <1>14, <1>15, <1>16 DEF Next

(* What the log tells of the pulses is complete, and of one pulse at a time: the
   rows show every long pulse that is over, and it has its probe or was kept from
   one by the probe of a shorter pulse (maybeFinalizeTimingProbe, logSampleIfDue). *)
THEOREM PulsesAreTold == Spec => []PulsesTold
<1>1. Init => VInv /\ PInv /\ WInv /\ SInv
  <2>. SUFFICES ASSUME Init PROVE VInv /\ PInv /\ WInv /\ SInv  OBVIOUS
  <2>1. /\ ~pulse.active /\ ~probe.pending /\ Len(crosses) = 0 /\ Len(probes) = 0
        /\ DOMAIN probes = {} /\ log.pulses = {} /\ state = "idle"
    BY DEF Init, NoPulse, NoProbe, NoRows
  <2>2. VInv  BY <2>1 DEF VInv, PulseInv, LinkInv
  <2>3. PInv  BY <2>1 DEF PInv, ProbesOfOnePulse
  <2>4. WInv /\ SInv  BY <2>1 DEF WInv, SInv, SampledInv, Told, Parts
  <2>. QED  BY <2>2, <2>3, <2>4
<1>2. DropInv /\ VInv /\ PInv /\ WInv /\ SInv /\ [Next]_vars => (VInv /\ PInv /\ WInv /\ SInv)'
  BY PulsesStep, ProbeStep, ShownStep, CoveredStep
<1>3. DropInv /\ VInv /\ PInv /\ WInv /\ SInv => PulsesTold
  <2>. SUFFICES ASSUME DropInv, VInv, PInv, WInv, SInv PROVE LongPulsesTold
    BY DEF PInv, PulsesTold
  <2>t. TypeOK  BY DEF DropInv
  <2>d. DOMAIN crosses = 1 .. Len(crosses) /\ DOMAIN probes = 1 .. Len(probes)
    BY <2>t, EventFacts, ProbeFacts
  <2>. SUFFICES ASSUME Told, NEW i \in 1 .. Len(crosses),
                       Over(crosses[i]), Long(crosses[i].width)
                PROVE  /\ crosses[i].pulse \in log.pulses
                       /\ \/ \E k \in 1 .. Len(probes) : ProbeOf(crosses[i], probes[k])
                          \/ /\ probe.pending
                             /\ \/ probe.pulse = crosses[i].pulse /\ ~probe.imu
                                \/ KeptBy(crosses[i], probe)
    BY <2>d DEF LongPulsesTold, Told, ProbeOf
  <2>1. /\ crosses[i].executed /\ ~(pulse.active /\ pulse.id = crosses[i].pulse)
        /\ crosses[i].start + crosses[i].width <= Duration
    BY DEF Over
  <2>2. EventOf(crosses[i]) /\ ShownInv(crosses[i]) /\ Covered(crosses[i])
    BY DEF VInv, WInv, SInv
  <2>3. /\ crosses[i].start \in Nat /\ crosses[i].width \in Nat /\ crosses[i].width > 0
        /\ age \in Nat /\ ended \in Nat /\ Duration \in Nat
    BY <2>t, <2>1, <2>2, EventFacts, ProbeFacts, RecorderFacts DEF EventOf, TypeOK
  <2>4. crosses[i].pulse \in log.pulses
    BY <2>1, <2>2, <2>3 DEF ShownInv
  <2>5. ASSUME probe.pending, probe.pulse = crosses[i].pulse PROVE ~probe.imu
    <3>1. probe.row  BY <2>4, <2>5 DEF WInv
    <3>2. probe.start = crosses[i].start /\ probe.width = crosses[i].width
      BY <2>1, <2>2, <2>5 DEF EventOf
    <3>3. age > crosses[i].start
      <4>1. CASE state = "measure"
        BY <2>1, <2>3, <2>5, <3>2, <4>1 DEF PInv
      <4>2. CASE state # "measure"
        <5>1. state \in {"end_sync", "finished"}
          BY <4>2 DEF Told, Parts, DropInv, EInv
        <5>2. age >= Duration  BY <2>3, <5>1, RecorderFacts DEF DropInv, DInv
        <5>. QED  BY <2>1, <2>3, <5>2
      <4>. QED  BY <4>1, <4>2
    <3>4. probe.loop  BY <2>3, <2>5, <3>2, <3>3 DEF PInv
    <3>. QED  BY <2>5, <3>1, <3>4 DEF PInv
  <2>. QED  BY <2>1, <2>2, <2>4, <2>5 DEF Covered, ProbeOf
<1>. QED  BY <1>1, <1>2, <1>3, DropInvariant, PTL DEF Spec

-----------------------------------------------------------------------------
(* The metadata of a download only reads the tables: what is proved of Spec
   holds of every download that builds it (buildMetadataJson). *)
THEOREM MetadataReads == MetadataSpec => Spec
<1>1. MetadataInit => Init
  BY DEF MetadataInit
<1>2. [MetadataNext]_metadataVars => [Next]_vars
  BY DEF MetadataNext, Record, Build, Download, Next, metadataVars
<1>. QED  BY <1>1, <1>2, PTL DEF MetadataSpec, Spec

-----------------------------------------------------------------------------
(* How long the number of a length is: Digits is a recursive function, which exists
   and is unique, grows with its argument, and slowly. *)

LEMMA LeastOf ==
  ASSUME NEW S, S \subseteq Nat, S # {}
  PROVE  \E x \in S : \A y \in S : x <= y
<1>. DEFINE R == {ss \in Nat \X Nat : ss[1] < ss[2]}
<1>1. IsWellFoundedOn(R, Nat)
  BY NatLessThanWellFounded, Zenon DEF OpToRel
<1>2. PICK x \in S : \A y \in S : ~(<<y, x>> \in R)
  BY <1>1, WFMin
<1>3. \A y \in S : ~(y < x)
  BY <1>2
<1>. QED  BY <1>3

DigitsUpTo(m, g) == g = [k \in 0 .. m |-> IF k < 10 THEN 1 ELSE 1 + g[k \div 10]]

LEMMA DigitsUnique ==
  ASSUME NEW m \in Nat, NEW n \in Nat, NEW g, NEW h, DigitsUpTo(m, g), DigitsUpTo(n, h)
  PROVE  \A k \in 0 .. m : k <= n => g[k] = h[k]
<1>. DEFINE S == {k \in Nat : k <= m /\ k <= n /\ g[k] # h[k]}
<1>. SUFFICES ASSUME S # {} PROVE FALSE
  OBVIOUS
<1>1. PICK k \in S : \A j \in S : k <= j
  <2>. HIDE DEF S
  <2>1. S \subseteq Nat  BY DEF S
  <2>. QED  BY <2>1, LeastOf
<1>2. /\ g[k] = IF k < 10 THEN 1 ELSE 1 + g[k \div 10]
      /\ h[k] = IF k < 10 THEN 1 ELSE 1 + h[k \div 10]
  BY <1>1 DEF DigitsUpTo
<1>3. CASE k < 10  BY <1>1, <1>2, <1>3
<1>4. CASE ~(k < 10)
  <2>1. k \div 10 \in Nat /\ k \div 10 < k  BY <1>1, <1>4
  <2>2. ~(k \div 10 \in S)  BY <1>1, <2>1
  <2>. QED  BY <1>1, <1>2, <1>4, <2>1, <2>2
<1>. QED  BY <1>3, <1>4

LEMMA DigitsExist ==
  ASSUME NEW m \in Nat
  PROVE  \E g : DigitsUpTo(m, g)
<1>. DEFINE S == {k \in Nat : ~ \E g : DigitsUpTo(k, g)}
<1>. SUFFICES ASSUME S # {} PROVE FALSE
  OBVIOUS
<1>1. PICK k \in S : \A j \in S : k <= j
  <2>. HIDE DEF S
  <2>1. S \subseteq Nat  BY DEF S
  <2>. QED  BY <2>1, LeastOf
<1>2. CASE k = 0
  <2>1. DigitsUpTo(0, [j \in 0 .. 0 |-> 1])  BY DEF DigitsUpTo
  <2>. QED  BY <1>1, <1>2, <2>1
<1>3. CASE k # 0
  <2>1. k - 1 \in Nat /\ ~(k - 1 \in S)  BY <1>1, <1>3
  <2>2. PICK g : DigitsUpTo(k - 1, g)  BY <2>1
  <2>. DEFINE h == [j \in 0 .. k |-> IF j = k THEN (IF k < 10 THEN 1 ELSE 1 + g[k \div 10]) ELSE g[j]]
  <2>3. \A j \in 0 .. k : h[j] = IF j < 10 THEN 1 ELSE 1 + h[j \div 10]
    <3>. SUFFICES ASSUME NEW j \in 0 .. k PROVE h[j] = IF j < 10 THEN 1 ELSE 1 + h[j \div 10]
      OBVIOUS
    <3>1. \A i \in 0 .. k - 1 : h[i] = g[i]  BY <1>1
    <3>2. j >= 10 => j \div 10 \in 0 .. k - 1  BY <1>1
    <3>3. CASE j = k  BY <3>1, <3>2, <3>3
    <3>4. CASE j # k
      <4>1. j \in 0 .. k - 1  BY <1>1, <3>4
      <4>2. g[j] = IF j < 10 THEN 1 ELSE 1 + g[j \div 10]  BY <2>2, <4>1 DEF DigitsUpTo
      <4>. QED  BY <3>1, <3>2, <4>1, <4>2
    <3>. QED  BY <3>3, <3>4
  <2>4. DigitsUpTo(k, h)
    <3>. DEFINE e == [j \in 0 .. k |-> IF j < 10 THEN 1 ELSE 1 + h[j \div 10]]
    <3>1. h = [j \in 0 .. k |-> h[j]]  OBVIOUS
    <3>2. \A j \in 0 .. k : h[j] = e[j]  BY <2>3
    <3>. HIDE DEF h
    <3>3. h = e  BY <3>1, <3>2
    <3>. QED  BY <3>3 DEF DigitsUpTo
  <2>. QED  BY <1>1, <2>4
<1>. QED  BY <1>2, <1>3

LEMMA DigitsIs ==
  ASSUME NEW n \in Nat
  PROVE  Digits(n) = IF n < 10 THEN 1 ELSE 1 + Digits(n \div 10)
<1>. DEFINE G(k) == CHOOSE g : DigitsUpTo(k, g)
            f == [k \in Nat |-> G(k)[k]]
            Is(h) == h = [k \in Nat |-> IF k < 10 THEN 1 ELSE 1 + h[k \div 10]]
            d == CHOOSE h : Is(h)
<1>1. ASSUME NEW k \in Nat PROVE DigitsUpTo(k, G(k))
  BY DigitsExist
<1>2. ASSUME NEW k \in Nat PROVE f[k] = IF k < 10 THEN 1 ELSE 1 + f[k \div 10]
  <2>1. G(k)[k] = IF k < 10 THEN 1 ELSE 1 + G(k)[k \div 10]
    <3>1. DigitsUpTo(k, G(k))  BY <1>1
    <3>. HIDE DEF G
    <3>. QED  BY <3>1 DEF DigitsUpTo
  <2>2. k \div 10 \in Nat /\ k \div 10 <= k  OBVIOUS
  <2>3. G(k)[k \div 10] = G(k \div 10)[k \div 10]
    <3>1. DigitsUpTo(k, G(k)) /\ DigitsUpTo(k \div 10, G(k \div 10))  BY <1>1, <2>2
    <3>. HIDE DEF G
    <3>. QED  BY <2>2, <3>1, DigitsUnique
  <2>. HIDE DEF G
  <2>. QED  BY <2>1, <2>2, <2>3
<1>3. Is(f)
  <2>. HIDE DEF G
  <2>. DEFINE e == [k \in Nat |-> IF k < 10 THEN 1 ELSE 1 + f[k \div 10]]
  <2>1. f = [k \in Nat |-> f[k]]  OBVIOUS
  <2>2. \A k \in Nat : f[k] = e[k]  BY <1>2
  <2>. HIDE DEF f
  <2>3. f = e  BY <2>1, <2>2
  <2>. QED  BY <2>3
<1>4. Is(d)
  <2>. HIDE DEF f, Is
  <2>. QED  BY <1>3
<1>5. \A k \in Nat : Digits(k) = d[k]
  BY DEF Digits
<1>6. d[n] = IF n < 10 THEN 1 ELSE 1 + d[n \div 10]
  <2>. HIDE DEF d
  <2>. QED  BY <1>4
<1>7. n \div 10 \in Nat  OBVIOUS
<1>. HIDE DEF d
<1>. QED  BY <1>5, <1>6, <1>7

(* A number has a digit, and more than one from 10 on. *)
LEMMA DigitsType ==
  ASSUME NEW n \in Nat
  PROVE  Digits(n) \in Nat \ {0}
<1>. DEFINE S == {k \in Nat : Digits(k) \notin Nat \ {0}}
<1>. SUFFICES ASSUME S # {} PROVE FALSE
  OBVIOUS
<1>1. PICK k \in S : \A j \in S : k <= j
  <2>. HIDE DEF S
  <2>1. S \subseteq Nat  BY DEF S
  <2>. QED  BY <2>1, LeastOf
<1>2. Digits(k) = IF k < 10 THEN 1 ELSE 1 + Digits(k \div 10)
  BY <1>1, DigitsIs
<1>3. CASE k < 10
  BY <1>1, <1>2, <1>3
<1>4. CASE ~(k < 10)
  <2>1. k \div 10 \in Nat /\ k \div 10 < k  BY <1>1, <1>4
  <2>2. ~(k \div 10 \in S)  BY <1>1, <2>1
  <2>. QED  BY <1>1, <1>2, <1>4, <2>1, <2>2
<1>. QED  BY <1>3, <1>4

LEMMA Tenth ==
  ASSUME NEW n \in Nat, n >= 10
  PROVE  /\ n \div 10 \in Nat \ {0} /\ n \div 10 < n
         /\ Digits(n \div 10) \in Nat \ {0} /\ Digits(n) = 1 + Digits(n \div 10)
         /\ 10 * (n \div 10) <= n /\ n <= 10 * (n \div 10) + 9
<1>1. n \div 10 \in Nat \ {0} /\ n \div 10 < n  OBVIOUS
<1>2. 10 * (n \div 10) <= n /\ n <= 10 * (n \div 10) + 9  OBVIOUS
<1>. QED  BY <1>1, <1>2, DigitsIs, DigitsType

(* The longer number is the greater. *)
LEMMA DigitsGrow ==
  ASSUME NEW m \in Nat, NEW n \in Nat, m <= n
  PROVE  Digits(m) <= Digits(n)
<1>. DEFINE S == {k \in Nat : \E j \in Nat : j <= k /\ ~(Digits(j) <= Digits(k))}
<1>. SUFFICES ASSUME S # {} PROVE FALSE
  OBVIOUS
<1>1. PICK k \in S : \A j \in S : k <= j
  <2>. HIDE DEF S
  <2>1. S \subseteq Nat  BY DEF S
  <2>. QED  BY <2>1, LeastOf
<1>2. PICK j \in Nat : j <= k /\ ~(Digits(j) <= Digits(k))
  BY <1>1
<1>3. k \in Nat /\ Digits(j) \in Nat \ {0} /\ Digits(k) \in Nat \ {0}
  BY <1>1, DigitsType
<1>4. j >= 10
  BY <1>2, <1>3, DigitsIs
<1>5. j \div 10 <= k \div 10
  BY <1>2, <1>3, <1>4
<1>6. ~(k \div 10 \in S)
  BY <1>1, <1>2, <1>3, <1>4, Tenth
<1>7. Digits(j \div 10) <= Digits(k \div 10)
  BY <1>2, <1>3, <1>4, <1>5, <1>6, Tenth
<1>. QED  BY <1>2, <1>3, <1>4, <1>7, Tenth

(* A number of three digits or more is greater than ten times their number. *)
LEMMA DigitsFew ==
  ASSUME NEW n \in Nat, n >= 100
  PROVE  n - 9 >= 10 * Digits(n)
<1>. DEFINE S == {k \in Nat : k >= 100 /\ ~(k - 9 >= 10 * Digits(k))}
<1>. SUFFICES ASSUME S # {} PROVE FALSE
  OBVIOUS
<1>1. PICK k \in S : \A j \in S : k <= j
  <2>. HIDE DEF S
  <2>1. S \subseteq Nat  BY DEF S
  <2>. QED  BY <2>1, LeastOf
<1>2. k \in Nat /\ k >= 100  BY <1>1
<1>3. k \div 10 >= 10  BY <1>2
<1>4. ~(k \div 10 \in S)  BY <1>1, <1>2, Tenth
<1>5. CASE k \div 10 >= 100
  <2>1. k \div 10 - 9 >= 10 * Digits(k \div 10)  BY <1>2, <1>4, <1>5, Tenth
  <2>2. ASSUME NEW q \in Nat, NEW d \in Nat, q - 9 >= 10 * d, 10 * q <= k
        PROVE  k - 9 >= 10 * (1 + d)
    BY <1>2, <2>2
  <2>3. k - 9 >= 10 * (1 + Digits(k \div 10))
    <3>1. /\ k \div 10 \in Nat /\ Digits(k \div 10) \in Nat
          /\ 10 * (k \div 10) <= k
      BY <1>2, Tenth
    <3>. QED  BY <2>1, <2>2, <3>1
  <2>. QED  BY <1>1, <1>2, <2>3, Tenth
<1>6. CASE k \div 10 < 100
  <2>1. (k \div 10) \div 10 < 10 /\ (k \div 10) \div 10 \in Nat  BY <1>2, <1>6
  <2>2. Digits((k \div 10) \div 10) = 1  BY <2>1, DigitsIs
  <2>3. Digits(k) = 3  BY <1>2, <1>3, <2>2, Tenth
  <2>. QED  BY <1>1, <1>2, <2>3
<1>. QED  BY <1>2, <1>5, <1>6

(* Numbers of three lengths are further apart than the longest is long. *)
LEMMA ThreeApart ==
  ASSUME NEW a \in Nat, NEW b \in Nat, NEW c \in Nat,
         Digits(a) < Digits(b), Digits(b) < Digits(c)
  PROVE  c - a >= 10 * Digits(c)
<1>. DEFINE Apart(k) == \A i, j \in Nat :
              Digits(i) < Digits(j) /\ Digits(j) < Digits(k) => k - i >= 10 * Digits(k)
            S == {k \in Nat : ~Apart(k)}
<1>. SUFFICES ASSUME S # {} PROVE FALSE
  OBVIOUS
<1>1. PICK k \in S : \A j \in S : k <= j
  <2>. HIDE DEF S
  <2>1. S \subseteq Nat  BY DEF S
  <2>. QED  BY <2>1, LeastOf
<1>2. PICK i \in Nat, j \in Nat :
        Digits(i) < Digits(j) /\ Digits(j) < Digits(k) /\ ~(k - i >= 10 * Digits(k))
  BY <1>1
<1>3. /\ k \in Nat /\ Digits(i) \in Nat \ {0}
      /\ Digits(j) \in Nat \ {0} /\ Digits(k) \in Nat \ {0}
  BY <1>1, DigitsType
<1>4. j >= 10 /\ k >= 10
  BY <1>2, <1>3, DigitsIs
<1>5. k >= 100
  <2>1. Digits(k \div 10) >= 2  BY <1>2, <1>3, <1>4, Tenth
  <2>2. k \div 10 >= 10  BY <1>3, <1>4, <2>1, Tenth, DigitsIs
  <2>. QED  BY <1>3, <2>2
<1>6. CASE i < 10
  <2>1. k - 9 >= 10 * Digits(k)  BY <1>3, <1>5, DigitsFew
  <2>. QED  BY <1>2, <1>3, <1>6, <2>1
<1>7. CASE i >= 10
  <2>1. Apart(k \div 10)  BY <1>1, <1>3, <1>4, Tenth
  <2>2. k \div 10 - i \div 10 >= 10 * Digits(k \div 10)
    BY <1>2, <1>3, <1>4, <1>7, <2>1, Tenth
  <2>. QED  BY <1>2, <1>3, <1>4, <1>7, <2>2, Tenth
<1>. QED  BY <1>3, <1>6, <1>7

(* A length with its own digits, from the guess n of the whole. *)
WithDigits(size, n) == size + Digits(n) + 1

LEMMA WithDigitsGrow ==
  ASSUME NEW size \in Nat, NEW m \in Nat, NEW n \in Nat, m <= n
  PROVE  /\ WithDigits(size, m) \in Nat /\ WithDigits(size, n) \in Nat
         /\ WithDigits(size, m) <= WithDigits(size, n)
         /\ size + 2 <= WithDigits(size, m)
<1>1. Digits(m) \in Nat \ {0} /\ Digits(n) \in Nat \ {0} /\ Digits(m) <= Digits(n)
  BY DigitsType, DigitsGrow
<1>. QED  BY <1>1 DEF WithDigits

(* Four guesses are enough: the last is the length of the text with its own digits,
   whatever the length without them (buildMetadataJson's loop over final_size). *)
LEMMA FourGuesses ==
  ASSUME NEW size \in Nat
  PROVE  /\ FinalSize(size) \in Nat
         /\ size + Digits(FinalSize(size)) + 1 = FinalSize(size)
<1>. DEFINE n0 == size + 2
            n1 == WithDigits(size, n0)
            n2 == WithDigits(size, n1)
            n3 == WithDigits(size, n2)
            n4 == WithDigits(size, n3)
<1>1. FinalSize(size) = n4
  BY DEF FinalSize, WithDigits
<1>2. n0 \in Nat /\ n1 \in Nat /\ n0 <= n1
  BY WithDigitsGrow
<1>3. n2 \in Nat /\ n1 <= n2
  <2>. HIDE DEF n0, n1
  <2>. QED  BY <1>2, WithDigitsGrow DEF n1
<1>4. n3 \in Nat /\ n4 \in Nat
  <2>. HIDE DEF n2
  <2>. QED  BY <1>3, WithDigitsGrow
<1>5. /\ Digits(n0) \in Nat \ {0} /\ Digits(n1) \in Nat \ {0} /\ Digits(n2) \in Nat \ {0}
      /\ Digits(n0) <= Digits(n1) /\ Digits(n1) <= Digits(n2)
  <2>. HIDE DEF n0, n1, n2
  <2>. QED  BY <1>2, <1>3, DigitsType, DigitsGrow
<1>6. ~(Digits(n0) < Digits(n1) /\ Digits(n1) < Digits(n2))
  <2>. SUFFICES ASSUME Digits(n0) < Digits(n1), Digits(n1) < Digits(n2)
                PROVE  FALSE
    OBVIOUS
  <2>1. n2 - n0 >= 10 * Digits(n2)
    <3>. HIDE DEF n0, n1, n2
    <3>. QED  BY <1>2, <1>3, ThreeApart
  <2>2. n2 - n0 = Digits(n1) - 1
    <3>1. n2 = size + Digits(n1) + 1  BY DEF WithDigits
    <3>2. n0 = size + 2  OBVIOUS
    <3>. HIDE DEF n0, n1, n2
    <3>. QED  BY <1>5, <3>1, <3>2
  <2>. HIDE DEF n0, n1, n2
  <2>. QED  BY <1>5, <2>1, <2>2
<1>7. n4 = n3
  <2>1. CASE Digits(n0) = Digits(n1)
    <3>1. n1 = n2  BY <2>1 DEF WithDigits
    <3>2. n2 = n3  BY <3>1
    <3>. QED  BY <3>2
  <2>2. CASE Digits(n1) = Digits(n2)
    <3>1. n2 = n3  BY <2>2 DEF WithDigits
    <3>. QED  BY <3>1
  <2>. HIDE DEF n0, n1, n2, n3, n4
  <2>. QED  BY <1>5, <1>6, <2>1, <2>2
<1>8. n4 = size + Digits(n3) + 1
  BY DEF WithDigits
<1>. HIDE DEF n3, n4
<1>. QED  BY <1>1, <1>4, <1>7, <1>8

LEMMA FinalSizeFits ==
  ASSUME NEW size \in Nat, HardBudget \in Nat, size + Digits(HardBudget) + 1 <= HardBudget
  PROVE  FinalSize(size) <= HardBudget
<1>. DEFINE Fits(n) == n \in Nat /\ n <= HardBudget
            W(n) == WithDigits(size, n)
<1>1. ASSUME NEW n, Fits(n)
      PROVE  Fits(W(n))
  <2>1. W(n) \in Nat /\ W(n) <= WithDigits(size, HardBudget)
    BY <1>1, WithDigitsGrow
  <2>2. WithDigits(size, HardBudget) \in Nat /\ WithDigits(size, HardBudget) <= HardBudget
    BY DigitsType DEF WithDigits
  <2>. HIDE DEF W
  <2>. QED  BY <2>1, <2>2
<1>2. Fits(size + 2)
  BY DigitsType
<1>3. FinalSize(size) = W(W(W(W(size + 2))))
  BY DEF FinalSize, WithDigits
<1>4. Fits(W(W(W(W(size + 2)))))
  <2>. HIDE DEF Fits, W
  <2>. QED  BY <1>1, <1>2
<1>. QED  BY <1>3, <1>4

-----------------------------------------------------------------------------
(* The texts of the tables: every item in order, until one does not fit. *)

Texts == [size : Nat, items : Nat, cut : BOOLEAN]

(* The text of the first n items, for n up to m. *)
TextsUpTo(m, size, details, texts) ==
  texts = [n \in 0 .. m |->
             IF n = 0 THEN [size |-> size, items |-> 0, cut |-> FALSE]
                      ELSE AppendDetail(texts[n - 1], details[n])]

LEMMA TextsExist ==
  ASSUME NEW size, NEW details, NEW m \in Nat
  PROVE  \E texts : TextsUpTo(m, size, details, texts)
<1>. DEFINE S == {k \in Nat : ~ \E texts : TextsUpTo(k, size, details, texts)}
            First == [size |-> size, items |-> 0, cut |-> FALSE]
<1>. SUFFICES ASSUME S # {} PROVE FALSE
  OBVIOUS
<1>1. PICK k \in S : \A j \in S : k <= j
  <2>. HIDE DEF S
  <2>1. S \subseteq Nat  BY DEF S
  <2>. QED  BY <2>1, LeastOf
<1>2. CASE k = 0
  <2>. DEFINE f == [n \in 0 .. 0 |-> First]
  <2>1. TextsUpTo(0, size, details, f)
    BY DEF TextsUpTo
  <2>. QED  BY <1>1, <1>2, <2>1
<1>3. CASE k # 0
  <2>1. k - 1 \in Nat /\ ~(k - 1 \in S)  BY <1>1, <1>3
  <2>2. PICK g : TextsUpTo(k - 1, size, details, g)  BY <2>1
  <2>. DEFINE h == [n \in 0 .. k |-> IF n = k THEN AppendDetail(g[k - 1], details[k]) ELSE g[n]]
              e == [n \in 0 .. k |-> IF n = 0 THEN First ELSE AppendDetail(h[n - 1], details[n])]
  <2>3. ASSUME NEW n \in 0 .. k PROVE h[n] = e[n]
    <3>1. \A i \in 0 .. k - 1 : h[i] = g[i]  BY <1>1
    <3>2. n # 0 => n - 1 \in 0 .. k - 1  BY <1>1
    <3>3. CASE n = k  BY <1>3, <3>1, <3>2, <3>3
    <3>4. CASE n # k
      <4>1. n \in 0 .. k - 1  BY <1>1, <3>4
      <4>2. g[n] = IF n = 0 THEN First ELSE AppendDetail(g[n - 1], details[n])
        BY <2>2, <4>1 DEF TextsUpTo
      <4>. QED  BY <3>1, <3>2, <4>1, <4>2
    <3>. QED  BY <3>3, <3>4
  <2>4. TextsUpTo(k, size, details, h)
    <3>1. h = [n \in 0 .. k |-> h[n]]  OBVIOUS
    <3>2. e = [n \in 0 .. k |-> IF n = 0 THEN First ELSE AppendDetail(h[n - 1], details[n])]
      OBVIOUS
    <3>. HIDE DEF h
    <3>3. h = e  BY <2>3, <3>1
    <3>. QED  BY <3>2, <3>3 DEF TextsUpTo
  <2>. QED  BY <1>1, <2>4
<1>. QED  BY <1>2, <1>3

(* What a table's text tells of itself: it shows the first items, all of them
   unless it was cut, and leaves room for the tail if it shows any
   (appendAutonomousDetail in the two loops of buildMetadataJson). *)
LEMMA TableTells ==
  ASSUME NEW size \in Nat, NEW details, Len(details) \in Nat,
         \A i \in 1 .. Len(details) : details[i] \in Nat,
         TailReserve \in Nat, HardBudget \in Nat
  PROVE  /\ Table(size, details) \in Texts
         /\ Table(size, details).items <= Len(details)
         /\ Table(size, details).cut <=> Table(size, details).items < Len(details)
         /\ \/ Table(size, details).size = size
            \/ Table(size, details).size + TailReserve <= HardBudget
<1>. DEFINE m == Len(details)
            u == CHOOSE texts : TextsUpTo(m, size, details, texts)
            Tells(n) == /\ u[n] \in Texts /\ u[n].items <= n
                        /\ u[n].cut <=> u[n].items < n
                        /\ u[n].size = size \/ u[n].size + TailReserve <= HardBudget
            S == {n \in Nat : n <= m /\ ~Tells(n)}
<1>1. TextsUpTo(m, size, details, u)
  <2>. HIDE DEF m
  <2>. QED  BY TextsExist DEF m
<1>2. Table(size, details) = u[m]
  BY DEF Table, TextsUpTo
<1>. HIDE DEF u
<1>3. S = {}
  <2>. SUFFICES ASSUME S # {} PROVE FALSE
    OBVIOUS
  <2>1. PICK k \in S : \A j \in S : k <= j
    <3>. HIDE DEF S
    <3>1. S \subseteq Nat  BY DEF S
    <3>. QED  BY <3>1, LeastOf
  <2>2. CASE k = 0
    <3>1. u[0] = [size |-> size, items |-> 0, cut |-> FALSE]  BY <1>1 DEF TextsUpTo
    <3>2. Tells(0)  BY <3>1 DEF Texts
    <3>. QED  BY <2>1, <2>2, <3>2
  <2>3. CASE k # 0
    <3>1. k - 1 \in Nat /\ k \in 1 .. m /\ k \in 0 .. m  BY <2>1, <2>3
    <3>2. u[k] = AppendDetail(u[k - 1], details[k])  BY <1>1, <2>3, <3>1 DEF TextsUpTo
    <3>3. Tells(k - 1)  BY <2>1, <3>1
    <3>4. details[k] \in Nat  BY <3>1
    <3>5. ASSUME NEW text \in Texts, NEW d \in Nat, NEW next, next = AppendDetail(text, d),
                 text.items <= k - 1, text.cut <=> text.items < k - 1,
                 text.size = size \/ text.size + TailReserve <= HardBudget
          PROVE  /\ next \in Texts /\ next.items <= k
                 /\ next.cut <=> next.items < k
                 /\ next.size = size \/ next.size + TailReserve <= HardBudget
      <4>. DEFINE longer == text.size + d + (IF text.items > 0 THEN 1 ELSE 0)
      <4>1. /\ text.size \in Nat /\ text.items \in Nat /\ text.cut \in BOOLEAN
            /\ longer \in Nat
        BY <3>5 DEF Texts
      <4>2. text = [size |-> text.size, items |-> text.items, cut |-> text.cut]
        BY <3>5 DEF Texts
      <4>3. CASE text.cut \/ longer + TailReserve > HardBudget
        <5>1. next = [size |-> text.size, items |-> text.items, cut |-> TRUE]
          BY <3>5, <4>2, <4>3 DEF AppendDetail
        <5>. QED  BY <3>1, <3>5, <4>1, <5>1 DEF Texts
      <4>4. CASE ~(text.cut \/ longer + TailReserve > HardBudget)
        <5>1. next = [size |-> longer, items |-> text.items + 1, cut |-> text.cut]
          BY <3>5, <4>2, <4>4 DEF AppendDetail
        <5>2. next.size + TailReserve <= HardBudget  BY <4>1, <4>4, <5>1
        <5>. HIDE DEF longer
        <5>. QED  BY <3>1, <3>5, <4>1, <4>4, <5>1, <5>2 DEF Texts
      <4>. QED  BY <4>3, <4>4
    <3>6. Tells(k)  BY <3>2, <3>3, <3>4, <3>5
    <3>. QED  BY <2>1, <3>6
  <2>. QED  BY <2>2, <2>3
<1>4. Tells(m)
  BY <1>3
<1>. QED  BY <1>2, <1>4

-----------------------------------------------------------------------------
(* What a download tells. *)

LEMMA Longest ==
  ASSUME NEW k \in Nat, NEW n \in Nat, NEW size \in Nat, k <= n
  PROVE  k * size \in Nat /\ k * size <= n * size
OBVIOUS

(* The text before the tables leaves room for the tail: no audit and no timing
   probe is longer than its ring or table. *)
LEMMA HeadFits ==
  ASSUME DropInv
  PROVE  /\ HeadSize + AuditText + ProbesText \in Nat
         /\ HeadSize + AuditText + ProbesText + TailReserve <= HardBudget
<1>1. /\ HeadSize \in Nat /\ RecordSize \in Nat /\ ProbeSize \in Nat
      /\ TailReserve \in Nat /\ HardBudget \in Nat /\ RingSize \in Nat /\ MaxEvents \in Nat
      /\ MaxEvents > RingSize + 1
  BY MetadataAssumption, RecorderFacts
<1>2. Len(ring.kept) \in Nat /\ Len(ring.kept) <= RingSize
  BY <1>1 DEF DropInv, TypeOK, EInv, Rings
<1>3. Len(probes) \in Nat /\ Len(probes) <= MaxEvents
  BY <1>1 DEF DropInv, TypeOK, EInv, Waiting
<1>4. AuditText \in Nat /\ AuditText <= RingSize * RecordSize /\ RingSize * RecordSize \in Nat
  <2>1. /\ Len(ring.kept) * RecordSize \in Nat /\ RingSize * RecordSize \in Nat
        /\ Len(ring.kept) * RecordSize <= RingSize * RecordSize
    BY <1>1, <1>2, Longest
  <2>. QED  BY <2>1 DEF AuditText
<1>5. ProbesText \in Nat /\ ProbesText <= MaxEvents * ProbeSize /\ MaxEvents * ProbeSize \in Nat
  BY <1>1, <1>3, Longest DEF ProbesText
<1>6. HeadSize + RingSize * RecordSize + MaxEvents * ProbeSize + TailReserve <= HardBudget
  BY MetadataAssumption
<1>. QED  BY <1>1, <1>4, <1>5, <1>6

LEMMA MetadataTells ==
  ASSUME DropInv
  PROVE  /\ Metadata.size <= HardBudget
         /\ Metadata.told = Metadata.size
         /\ Metadata.peaks <= peaks /\ Metadata.crosses <= Len(crosses)
         /\ Metadata.truncated <=> Metadata.peaks < peaks \/ Metadata.crosses < Len(crosses)
<1>. DEFINE head    == HeadSize + AuditText + ProbesText
            shown   == Table(head, PeakDetails)
            crossed == Table(shown.size, CrossDetails)
            size    == crossed.size + TailSize + KeySize
<1>1. /\ PeakSize \in Nat /\ CrossSize \in Nat /\ PulseSize \in Nat
      /\ TailSize \in Nat /\ KeySize \in Nat /\ TailReserve \in Nat /\ HardBudget \in Nat
      /\ TailSize + KeySize + Digits(HardBudget) + 1 <= TailReserve
      /\ Digits(HardBudget) \in Nat
  BY MetadataAssumption, DigitsType
<1>2. head \in Nat /\ head + TailReserve <= HardBudget
  BY HeadFits
<1>3. Len(PeakDetails) = peaks /\ \A i \in 1 .. peaks : PeakDetails[i] \in Nat
  BY <1>1 DEF PeakDetails, DropInv, TypeOK
<1>4. /\ Len(CrossDetails) = Len(crosses)
      /\ \A i \in 1 .. Len(crosses) : CrossDetails[i] \in Nat
  BY <1>1 DEF CrossDetails, DropInv, TypeOK
<1>5. peaks \in Nat /\ Len(crosses) \in Nat
  BY DEF DropInv, TypeOK
<1>6. /\ shown \in Texts /\ shown.items <= peaks
      /\ shown.cut <=> shown.items < peaks
      /\ shown.size = head \/ shown.size + TailReserve <= HardBudget
  <2>. HIDE DEF head
  <2>. QED  BY <1>1, <1>2, <1>3, <1>5, TableTells
<1>7. shown.size \in Nat /\ shown.size + TailReserve <= HardBudget
  <2>. HIDE DEF head, shown
  <2>. QED  BY <1>2, <1>6 DEF Texts
<1>8. /\ crossed \in Texts /\ crossed.items <= Len(crosses)
      /\ crossed.cut <=> crossed.items < Len(crosses)
      /\ crossed.size = shown.size \/ crossed.size + TailReserve <= HardBudget
  <2>. HIDE DEF shown
  <2>. QED  BY <1>1, <1>4, <1>5, <1>7, TableTells
<1>9. crossed.size \in Nat /\ crossed.size + TailReserve <= HardBudget
  <2>. HIDE DEF shown, crossed
  <2>. QED  BY <1>7, <1>8 DEF Texts
<1>10. size \in Nat /\ size + Digits(HardBudget) + 1 <= HardBudget
  <2>. HIDE DEF crossed
  <2>. QED  BY <1>1, <1>9
<1>11. /\ size + Digits(FinalSize(size)) + 1 = FinalSize(size)
       /\ FinalSize(size) <= HardBudget
  <2>. HIDE DEF size
  <2>. QED  BY <1>1, <1>10, FourGuesses, FinalSizeFits
<1>12. Metadata = [size |-> size + Digits(FinalSize(size)) + 1,
                   told |-> FinalSize(size),
                   peaks |-> shown.items, crosses |-> crossed.items,
                   truncated |-> shown.cut \/ crossed.cut]
  BY DEF Metadata
<1>. HIDE DEF size, shown, crossed
<1>. QED  BY <1>6, <1>8, <1>11, <1>12 DEF Texts

(* While a file is under way its text is that of the tables, which no run
   touches then. *)
MInv == metadata = NoText \/ (file.part # "none" /\ metadata = Metadata)

LEMMA MetadataStays ==
  ASSUME peaks' = peaks, crosses' = crosses, ring' = ring, probes' = probes
  PROVE  Metadata' = Metadata
BY DEF Metadata, Table, PeakDetails, CrossDetails, AuditText, ProbesText, AppendDetail,
       FinalSize, Digits

(* A download tells its own length and what it shows, whatever it follows and
   however long its tables are (buildMetadataJson, handleRwLog). *)
THEOREM MetadataIsTold == MetadataSpec => []MetadataTold
<1>1. MetadataInit => MInv
  BY DEF MetadataInit, MInv
<1>2. MInv /\ DropInv /\ [MetadataNext]_metadataVars => MInv'
  <2>. SUFFICES ASSUME MInv, DropInv, [MetadataNext]_metadataVars
                PROVE  MInv'
    OBVIOUS
  <2>1. CASE Record
    <3>1. metadata' = metadata  BY <2>1 DEF Record
    <3>2. CASE metadata = NoText  BY <3>1, <3>2 DEF MInv
    <3>3. CASE file.part # "none" /\ metadata = Metadata
      <4>1. ~Running /\ pc = "sense" /\ ~Resting
        BY <3>3 DEF DropInv, FInv, Resting
      <4>2. FALSE
        BY <2>1, <4>1 DEF Record, Sense, NoEvent, Peak, ZeroCross, BeginMeasurement, Act,
           LogRow, EndOfPart, Loop, EmergencyStop, Rest, Clear, Start, Controlled, Running
      <4>. QED  BY <4>2
    <3>. QED  BY <3>2, <3>3 DEF MInv
  <2>2. CASE Build
    <3>1. file'.part # "none" /\ UNCHANGED tableVars
      BY <2>2 DEF Build, BeginDownload
    <3>2. Metadata' = Metadata
      BY <3>1, MetadataStays DEF tableVars
    <3>3. metadata' = Metadata \/ metadata' = NoText
      BY <2>2 DEF Build, ErrorText
    <3>. QED  BY <3>1, <3>2, <3>3 DEF MInv
  <2>3. ASSUME NEW ok \in BOOLEAN, Download(ok)
        PROVE  MInv'
    BY <2>3 DEF Download, MInv, NoText
  <2>4. CASE UNCHANGED metadataVars
    <3>1. Metadata' = Metadata
      BY <2>4, MetadataStays DEF metadataVars, vars, tableVars
    <3>. QED  BY <2>4, <3>1 DEF MInv, metadataVars, vars, fileVars, NoText
  <2>. QED  BY <2>1, <2>2, <2>3, <2>4 DEF MetadataNext
<1>3. MInv /\ DropInv => MetadataTold
  <2>. SUFFICES ASSUME MInv, DropInv, metadata # NoText
                PROVE  /\ metadata.size <= HardBudget
                       /\ metadata.told = metadata.size
                       /\ metadata.peaks <= peaks /\ metadata.crosses <= Len(crosses)
                       /\ metadata.truncated <=> metadata.peaks < peaks \/ metadata.crosses < Len(crosses)
    BY DEF MetadataTold
  <2>1. metadata = Metadata  BY DEF MInv
  <2>. QED  BY <2>1, MetadataTells
<1>. QED  BY <1>1, <1>2, <1>3, MetadataReads, DropInvariant, PTL DEF MetadataSpec
=============================================================================
