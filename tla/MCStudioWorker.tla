--------------------------- MODULE MCStudioWorker ---------------------------
(* TLC instance of the worker: see README for the bounds.                     *)
EXTENDS StudioWorker, TLC

RequestSymmetry == Permutations(Requests \ Stiff)
=============================================================================
