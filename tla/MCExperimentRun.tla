---------------------------- MODULE MCExperimentRun ----------------------------
(* ExperimentRun as TLC checks it: both scenarios, any one or two signals. *)
EXTENDS ExperimentRun
=============================================================================
