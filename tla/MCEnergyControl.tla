--------------------------- MODULE MCEnergyControl ---------------------------
(* EnergyControl in an open environment: any sample may follow any other. *)
EXTENDS EnergyControl

MCAngles == -1 .. 2
MCWidths == {1, 2}
=============================================================================
