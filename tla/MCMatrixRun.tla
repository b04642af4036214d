----------------------------- MODULE MCMatrixRun -------------------------------
(* MatrixRun as TLC checks it: two terminals, a plan of two runs. *)
EXTENDS MatrixRun

MCWrappers == {"w1", "w2"}
=============================================================================
