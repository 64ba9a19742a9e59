----------------------------- MODULE MCRunControl -----------------------------
(* RunControl and its audit as TLC checks them: MaxRuns runs in a row, so that
   stops, snapshots and notifications of one run meet the next. *)
EXTENDS RunAudit
=============================================================================
