--------------------------- MODULE MCStudioService ---------------------------
(* TLC instance of the application service: see README for the bounds.        *)
EXTENDS StudioService, TLC

CallerSymmetry == Permutations(Callers)
=============================================================================
