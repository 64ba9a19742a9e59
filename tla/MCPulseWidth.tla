----------------------------- MODULE MCPulseWidth -----------------------------
(* The decisions with the numbers of the firmware, a unit of width 4 ms, and one
   exception: Ki is larger (config.h has 1 tenth), so that a few peaks take the
   integral to its limits. *)
EXTENDS Decision, TLC

MCCurves  == {}
MCLimits  == {}
MCTargets == 0 .. 150000

MCRise ==
  (0 :> 0) @@ <<39, 75, 109, 141, 171, 198, 225, 249, 272, 294, 314, 333, 350, 367, 382,
                397, 410, 423, 435, 446, 457, 466, 476, 484, 492>>

(* At the reference voltage, which an absent measurement stands for. *)
MCBatteries == {0}
MCGoal == [mV \in {7500} |-> 262]

(* From the end of a pulse of full length to the next crossing, in the shortest
   half cycle that config.h quotes: what leaves the most current. *)
MCRemains == [gap \in {217} |-> 45]
=============================================================================
