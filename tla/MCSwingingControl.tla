-------------------------- MODULE MCSwingingControl --------------------------
(* SwingingControl with a tick of 25 ms: the guards and widths of config.h, and
   swings within the half cycles of 0.317 to 0.490 s it quotes. *)
EXTENDS Q1Shadow

MCAmplitudes == {7, 9}
MCAngles     == -9 .. 9
MCWidths     == {1, 4}
=============================================================================
