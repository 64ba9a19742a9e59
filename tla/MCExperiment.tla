----------------------------- MODULE MCExperiment -----------------------------
EXTENDS Attitude

MCPattern == <<[on |-> FALSE, duration |-> 5], [on |-> TRUE, duration |-> 4],
               [on |-> FALSE, duration |-> 4]>>
MCEndPattern == <<[on |-> FALSE, duration |-> 4], [on |-> TRUE, duration |-> 5],
                  [on |-> FALSE, duration |-> 4]>>
(* The hypotheses of the theorems about the rows. *)
ASSUME MCPhasesLast == PhasesLast
=============================================================================
