--------------------------- MODULE ScenarioEditor ---------------------------
(***************************************************************************)
(* The scenario editor of Studio's interface (apps/scirust-studio): its      *)
(* reducers, and the three commands that await an answer while the user can    *)
(* go on typing.  A text is a member of a small set; whether it is valid is    *)
(* the validator's to say, and the same for the same text.  Bounds: one save    *)
(* and one validation in flight.                                             *)
(***************************************************************************)
EXTENDS Naturals

CONSTANTS
  Texts,      \* what the editor may hold
  Empty,      \* of them, the empty text
  Valid       \* of them, those that pass validation

VARIABLES
  source,      \* AppModel.source
  savedSource, \* AppModel.saved_source
  validatedOk, \* AppModel.validated_ok
  file,        \* the text on disk of the scenario being edited
  saving,      \* the text a save command was given, while its dialog is open
  validating   \* the text a validation was given, until its answer

vars == <<source, savedSource, validatedOk, file, saving, validating>>

None == [text |-> Empty, in |-> FALSE]
Given(t) == [text |-> t, in |-> TRUE]

Init ==
  /\ source = Empty /\ savedSource = Empty /\ validatedOk = FALSE
  /\ file = Empty
  /\ saving = None /\ validating = None

HasScenario == source # Empty
Dirty       == source # savedSource

EditSource(t) ==
  /\ t # source
  /\ source' = t
  /\ validatedOk' = FALSE
  /\ UNCHANGED <<savedSource, file, saving, validating>>

(* A file, a tutorial, or the empty text of a new experiment.                  *)
ScenarioLoaded(t) ==
  /\ source' = t /\ savedSource' = t /\ file' = t
  /\ validatedOk' = FALSE
  /\ UNCHANGED <<saving, validating>>

(* Save (if there is something to save) and Save as capture the text and await  *)
(* the dialog, which may be cancelled; the shell writes what it was given.      *)
SaveScenario ==
  /\ HasScenario /\ ~saving.in
  /\ saving' = Given(source)
  /\ UNCHANGED <<source, savedSource, validatedOk, file, validating>>

SaveCancelled ==
  /\ saving.in
  /\ saving' = None
  /\ UNCHANGED <<source, savedSource, validatedOk, file, validating>>

Saved ==
  /\ saving.in
  /\ file' = saving.text
  /\ savedSource' = source
  /\ saving' = None
  /\ UNCHANGED <<source, validatedOk, validating>>

Validate ==
  /\ HasScenario /\ ~validating.in
  /\ validating' = Given(source)
  /\ UNCHANGED <<source, savedSource, validatedOk, file, saving>>

Validated ==
  /\ validating.in
  /\ validatedOk' = (validating.text \in Valid)
  /\ validating' = None
  /\ UNCHANGED <<source, savedSource, file, saving>>

Next ==
  \/ \E t \in Texts : EditSource(t) \/ ScenarioLoaded(t)
  \/ SaveScenario \/ SaveCancelled \/ Saved
  \/ Validate \/ Validated

Spec == Init /\ [][Next]_vars

-----------------------------------------------------------------------------
(* model.rs:323: `dirty` is "whether the editor has unsaved changes": when it   *)
(* says no, the text in the editor is the one on disk.                         *)
CleanMeansSaved == ~Dirty => source = file
=============================================================================
