----------------------------- MODULE MCSosStudy -----------------------------
(* TLC instance of the study store: see README for the bounds.                *)
EXTENDS SosStudy, TLC

CONSTANTS simulate, spectrum, cfg, other, v1, v2

(* A catalogue stage, and two spectra of what it produces.                     *)
TwoSpectra   == [s \in 1 .. 3 |-> IF s = 1 THEN {} ELSE {1}]
CatalogPlan  == [s \in 1 .. 3 |-> IF s = 1 THEN simulate ELSE spectrum]

(* The second study asks for another simulation, and twice for one spectrum.    *)
TwoStudies   == {<<cfg, cfg, other>>, <<other, cfg, cfg>>}

TwoBindings  == {1 .. 3, {1, 2}}

(* A result depends on the work and on the build; every handler has one output.  *)
Compute(b, w) == {[by |-> b, of |-> w]}
=============================================================================
