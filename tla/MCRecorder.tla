----------------------------- MODULE MCRecorder -----------------------------
(* One tick is a millisecond in a pulse: a row may come every other tick, so a
   pulse of 1 or 2 may end unseen, and one of 3 may not.  The rest of the run is
   shorter than the code's 30 seconds, with room for three crossings.  The text
   of its log grows past a hundred bytes, and past its budget. *)
EXTENDS Metadata

MCWidths == {1, 3}
=============================================================================
