----------------------------- MODULE MCRunStore -----------------------------
(* TLC instance of the run store: see README for the bounds.                  *)
EXTENDS RunStore, TLC

WriterSymmetry == Permutations(Writers)
=============================================================================
