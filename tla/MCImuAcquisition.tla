--------------------------- MODULE MCImuAcquisition ---------------------------
(* The IMU as TLC checks it, from its startup on: a short queue, and sequence
   numbers that wrap within a run. *)
EXTENDS ImuStartup
=============================================================================
