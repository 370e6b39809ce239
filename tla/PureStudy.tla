------------------------------ MODULE PureStudy ------------------------------
(***************************************************************************)
(* What `sos run` promises of the results it records: a report of a study    *)
(* is what executing every stage from scratch gives, whatever was cached.    *)
(* A report is coherent when each stage's outputs are those its plugin       *)
(* produces from its configuration and from the outputs it consumes.        *)
(***************************************************************************)
CONSTANTS
  Stages, Consumes, Plugin,
  Produce(_, _)   \* what a build computes for a piece of work

VARIABLE reported   \* the reports made so far

(* The work of one stage, given what every stage of the study put out.        *)
Work(study, outputs, s) ==
  [plugin |-> Plugin[s], config |-> study[s],
   inputs |-> UNION {outputs[t] : t \in Consumes[s]}]

Coherent(r) ==
  /\ DOMAIN r.outputs = Stages
  /\ \A s \in Stages :
       r.outputs[s] = Produce(r.build, Work(r.study, r.outputs, s))

Init == reported = {}

Report ==
  \E r \in reported' : reported' = reported \cup {r} /\ Coherent(r)

Spec == Init /\ [][Report]_reported
=============================================================================
