---------------------------- MODULE MCControlPage ----------------------------
(* ControlPage as TLC checks it: two runs, so that what the page was told of the
   first is still under way when it starts the second. *)
EXTENDS ControlPage

(* All but RunControl's own histories, which no step and no property of the page
   reads. *)
PageView == <<workerVars, arduinoVars, controllerVars, pageVars>>
=============================================================================
