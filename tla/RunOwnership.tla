----------------------------- MODULE RunOwnership -----------------------------
(***************************************************************************)
(* What run_control_worker.h promises of the controller, without tasks,     *)
(* requests or locks: it has one owner at a time, changes hands only with a *)
(* run on, comes back only with the run over, and no task but the owner     *)
(* starts or ends a run.                                                    *)
(***************************************************************************)

VARIABLES
  owner,  \* the task that owns the controller
  on      \* a run is on

vars == <<owner, on>>

Init == owner = "arduino" /\ on = FALSE

(* The Arduino owner starts a run, or ends one it has not handed over yet. *)
StartRun == owner = "arduino" /\ ~on /\ on' = TRUE /\ UNCHANGED owner
AbortRun == owner = "arduino" /\ on /\ on' = FALSE /\ UNCHANGED owner

HandOver == owner = "arduino" /\ on /\ owner' = "worker" /\ UNCHANGED on

(* The worker's run ends, and only then does the controller come back. *)
EndRun     == owner = "worker" /\ on /\ on' = FALSE /\ UNCHANGED owner
ReturnBack == owner = "worker" /\ ~on /\ owner' = "arduino" /\ UNCHANGED on

Next == StartRun \/ AbortRun \/ HandOver \/ EndRun \/ ReturnBack

(* A run that is on is handed over or aborted, ends, and is given back. *)
Fairness == WF_vars(HandOver) /\ WF_vars(EndRun) /\ WF_vars(ReturnBack)

Spec == Init /\ [][Next]_vars /\ Fairness
=============================================================================
