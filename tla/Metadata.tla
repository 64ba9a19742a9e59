-------------------------------- MODULE Metadata --------------------------------
(***************************************************************************)
(* The metadata of a run's log, as a download builds it from the tables of   *)
(* Recorder: a JSON text in a buffer of fixed size, with the detail of the    *)
(* events as far as it fits and, at its end, the text's own length.           *)
(*                                                                         *)
(* A text is its length and what it tells: of an item only the size is kept. *)
(***************************************************************************)
EXTENDS Recorder

CONSTANTS
  HeadSize,      \* the text before the audit
  RecordSize,    \* one record of the solver audit
  ProbeSize,     \* one timing probe
  PeakSize,      \* the detail of a peak
  CrossSize,     \* the detail of a crossing with no pulse, most of it null
  PulseSize,     \* what a pulse adds to it
  TailSize,      \* the text after the detail
  KeySize,       \* metadata_json_final_bytes, as a key
  TailReserve,   \* kMetadataJsonTailReserveBytes
  HardBudget     \* kMetadataJsonHardBudgetBytes

(* The number of decimal digits of n. *)
Digits(n) ==
  LET digits[k \in Nat] == IF k < 10 THEN 1 ELSE 1 + digits[k \div 10]
  IN  digits[n]

(* The reserve suffices for what follows the detail, and the budget for what
   comes before it. *)
ASSUME MetadataAssumption ==
  /\ {HeadSize, RecordSize, ProbeSize, PeakSize, CrossSize, PulseSize,
      TailSize, KeySize, TailReserve, HardBudget} \subseteq Nat \ {0}
  /\ TailSize + KeySize + Digits(HardBudget) + 1 <= TailReserve
  /\ HeadSize + RingSize * RecordSize + MaxEvents * ProbeSize + TailReserve <= HardBudget

VARIABLE metadata  \* the text of the download under way

metadataVars == <<vars, metadata>>

NoText == [size |-> 0]

(* The audit, oldest record first, and the timing probes. *)
AuditText  == IF ring.available THEN Len(ring.kept) * RecordSize ELSE 0
ProbesText == Len(probes) * ProbeSize

(* appendAutonomousDetail: the first item that does not fit ends its table. *)
AppendDetail(text, detail) ==
  LET size == text.size + detail + (IF text.items > 0 THEN 1 ELSE 0)
  IN  IF text.cut \/ size + TailReserve > HardBudget
        THEN [text EXCEPT !.cut = TRUE]
        ELSE [text EXCEPT !.size = size, !.items = @ + 1]

(* The text of a table, item by item, from a text of this size on. *)
Table(size, details) ==
  LET upTo[n \in 0 .. Len(details)] ==
        IF n = 0 THEN [size |-> size, items |-> 0, cut |-> FALSE]
                 ELSE AppendDetail(upTo[n - 1], details[n])
  IN  upTo[Len(details)]

PeakDetails  == [i \in 1 .. peaks |-> PeakSize]
CrossDetails == [i \in DOMAIN crosses |->
                  CrossSize + (IF crosses[i].executed THEN PulseSize ELSE 0)]

(* Mutant: one look at the length, whose own digits it leaves out. *)
FinalSizeOnce(size) == size + Digits(size + 2) + 1

(* The length that tells itself: four times, the number of digits of the last
   guess gives the next. *)
FinalSize(size) ==
  LET Next1(n) == size + Digits(n) + 1
  IN  Next1(Next1(Next1(Next1(size + 2))))

(* buildMetadataJson, in a buffer that could be reserved. *)
Metadata ==
  LET shown    == Table(HeadSize + AuditText + ProbesText, PeakDetails)
      crossed  == Table(shown.size, CrossDetails)
      size     == crossed.size + TailSize + KeySize
  IN  [size  |-> size + Digits(FinalSize(size)) + 1,
       told  |-> FinalSize(size),
       peaks |-> shown.items, crosses |-> crossed.items,
       truncated |-> shown.cut \/ crossed.cut]

(* What is sent when it could not. *)
ErrorText == NoText

MetadataInit == Init /\ metadata = NoText

Build ==
  /\ BeginDownload
  /\ metadata' \in {Metadata, ErrorText}

(* Once its header is sent, the model forgets the text. *)
Download(ok) ==
  /\ Send(ok)
  /\ metadata' = NoText

Record ==
  /\ \/ \E gap \in 1 .. MaxGap, isNew \in BOOLEAN :
          \E time \in (age + gap - MaxGap) .. (age + gap) : Sense(gap, isNew, time)
     \/ NoEvent \/ Peak
     \/ \E c \in last.motion .. age, width \in Widths \cup {0} : ZeroCross(c, width)
     \/ \E granted \in BOOLEAN : BeginMeasurement(granted)
     \/ Act \/ LogRow \/ EndOfPart \/ Loop \/ EmergencyStop
     \/ Rest \/ Clear \/ Start
  /\ UNCHANGED metadata

MetadataNext == Record \/ Build \/ \E ok \in BOOLEAN : Download(ok)

MetadataSpec == MetadataInit /\ [][MetadataNext]_metadataVars

-----------------------------------------------------------------------------
(* The text a browser gets stays within the budget for which its buffer was
   reserved, states its own length to the byte, the digits of that number
   included, and says of either table how many events it shows: all of them, or
   the first ones and that it was cut. *)
MetadataTold ==
  metadata # NoText =>
    /\ metadata.size <= HardBudget
    /\ metadata.told = metadata.size
    /\ metadata.peaks <= peaks /\ metadata.crosses <= Len(crosses)
    /\ metadata.truncated <=> metadata.peaks < peaks \/ metadata.crosses < Len(crosses)
=============================================================================
