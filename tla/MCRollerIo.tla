----------------------------- MODULE MCRollerIo -----------------------------
(* The motor driver and its current audit, with the queue length of the code. *)
EXTENDS RollerAudit

(* The controller pulses at plus and minus 300 mA. *)
MCCurrents == {-300, 300}
=============================================================================
