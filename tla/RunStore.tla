------------------------------ MODULE RunStore ------------------------------
(***************************************************************************)
(* The run store on disk (scirust-studio-store), shared by every process of  *)
(* the application and of the command line that opens it: no lock, only what  *)
(* the file system makes atomic.  A writer is one PendingRun, a discarder one *)
(* `scirust runs discard`; an action is one file-system call.  A directory is *)
(* named by the writer that created it, whatever path leads to it now.        *)
(***************************************************************************)
EXTENDS Naturals

CONSTANTS
  Writers,      \* recorded runs, each with one writer
  Discarders,   \* people discarding interrupted runs
  Bases,        \* run id bases: a second and a scenario hash
  MaxAttempts,  \* suffixes tried before giving up (1000 in the code)
  Careful,      \* whether only a run nobody writes any more is discarded
  Nobody, Torn  \* no directory, no file; a file whose writer died writing it

ASSUME StoreAssumption ==
  /\ MaxAttempts \in Nat \ {0}
  /\ Careful \in BOOLEAN
  /\ Nobody \notin Writers /\ Torn \notin Writers /\ Torn # Nobody

Names    == Bases \X (0 .. MaxAttempts - 1)
NoName   == <<>>
Files    == {"scenario", "result", "manifest"}
(* Mutant: an interruption is one more thing a manifest can say.               *)
ResultlessAndInterrupted == {"cancelled", "failed", "interrupted"}
Resultless == {"cancelled", "failed"}
Places   == {"idle", "named", "created", "begun", "sealing", "publishing",
             "published", "stopped"}
Holding  == {"created", "begun", "sealing", "publishing"}
Content  == [Files -> Writers \cup {Nobody, Torn}]
Writer   == [at : Places, name : Names \cup {NoName},
             status : {"none", "completed", "cancelled", "failed"}]
Discarder == [at : {"idle", "checked", "removing"}, name : Names \cup {NoName},
              dir : Writers \cup {Nobody}, todo : SUBSET Files]

VARIABLES
  pendingAt,    \* the directory at `runs/.partial-<name>`
  finalAt,      \* the directory at `runs/<name>`
  content,      \* who wrote each file of each directory
  writer, discarder

vars == <<pendingAt, finalAt, content, writer, discarder>>

Empty      == [f \in Files |-> Nobody]
NoDiscard  == [at |-> "idle", name |-> NoName, dir |-> Nobody, todo |-> {}]
Files_(d)  == {f \in Files : content[d][f] # Nobody}

Init ==
  /\ pendingAt = [n \in Names |-> Nobody] /\ finalAt = [n \in Names |-> Nobody]
  /\ content = [w \in Writers |-> Empty]
  /\ writer = [w \in Writers |-> [at |-> "idle", name |-> NoName, status |-> "none"]]
  /\ discarder = [d \in Discarders |-> NoDiscard]

-----------------------------------------------------------------------------
(* Writers.                                                                  *)

At(w, place) == writer[w].at = place
Name(w)      == writer[w].name
Go(w, place) == writer' = [writer EXCEPT ![w].at = place]
Path(w)      == pendingAt[Name(w)]   \* where the writer's paths lead

NameIsFree(n) == finalAt[n] = Nobody /\ pendingAt[n] = Nobody

(* allocate_run_id: the first free suffix, or RunIdExhausted.  The two tests of *)
(* each name are one step here: a rename between them gives a name that is     *)
(* taken, as does a rename after them.                                       *)
Allocate(w) == \E b \in Bases :
  /\ At(w, "idle")
  /\ \/ \E a \in 0 .. MaxAttempts - 1 :
          /\ NameIsFree(<<b, a>>)
          /\ \A k \in 0 .. a - 1 : ~NameIsFree(<<b, k>>)
          /\ writer' = [writer EXCEPT ![w].at = "named", ![w].name = <<b, a>>]
     \/ /\ \A a \in 0 .. MaxAttempts - 1 : ~NameIsFree(<<b, a>>)
        /\ Go(w, "stopped")
  /\ UNCHANGED <<pendingAt, finalAt, content, discarder>>

(* Mutant: create_dir_all, which is content with a directory that exists.      *)
CreateAllDir(w) ==
  /\ At(w, "named")
  /\ pendingAt' = [pendingAt EXCEPT ![Name(w)] = IF Path(w) = Nobody THEN w ELSE @]
  /\ Go(w, "created")
  /\ UNCHANGED <<finalAt, content, discarder>>

(* create_dir fails on a directory that exists.                               *)
CreateDir(w) ==
  /\ At(w, "named")
  /\ IF Path(w) = Nobody
     THEN pendingAt' = [pendingAt EXCEPT ![Name(w)] = w] /\ Go(w, "created")
     ELSE UNCHANGED pendingAt /\ Go(w, "stopped")
  /\ UNCHANGED <<finalAt, content, discarder>>

(* A file is written through the path, into whatever directory is there.       *)
Writes(w, f, next) ==
  /\ IF Path(w) = Nobody
     THEN UNCHANGED content /\ Go(w, "stopped")
     ELSE content' = [content EXCEPT ![Path(w)][f] = w] /\ next
  /\ UNCHANGED <<pendingAt, finalAt, discarder>>

WriteScenario(w) == At(w, "created") /\ Writes(w, "scenario", Go(w, "begun"))

Decides(w, s) == writer' = [writer EXCEPT ![w].at = "sealing", ![w].status = s]

WriteResult(w) == At(w, "begun") /\ Writes(w, "result", Decides(w, "completed"))

(* cancel and fail have no result to write.                                   *)
NoResult(w) ==
  /\ At(w, "begun")
  /\ \E s \in Resultless : Decides(w, s)
  /\ UNCHANGED <<pendingAt, finalAt, content, discarder>>

WriteManifest(w) == At(w, "sealing") /\ Writes(w, "manifest", Go(w, "publishing"))

(* Mutant: the rename replaces whatever has the name.                         *)
AlwaysReplaceable(n) == TRUE

(* A rename replaces an empty directory and no other.                          *)
Replaceable(n) == finalAt[n] = Nobody \/ Files_(finalAt[n]) = {}

Publish(w) ==
  /\ At(w, "publishing")
  /\ IF Path(w) # Nobody /\ Replaceable(Name(w))
     THEN /\ finalAt' = [finalAt EXCEPT ![Name(w)] = Path(w)]
          /\ pendingAt' = [pendingAt EXCEPT ![Name(w)] = Nobody]
          /\ Go(w, "published")
     ELSE UNCHANGED <<finalAt, pendingAt>> /\ Go(w, "stopped")
  /\ UNCHANGED <<content, discarder>>

(* A crash, a kill, a failed call, or a PendingRun that is dropped: the file     *)
(* being written may be left incomplete.                                      *)
BeingWritten(w) == IF At(w, "created") THEN {"scenario"}
                   ELSE IF At(w, "begun") THEN {"result"}
                   ELSE IF At(w, "sealing") THEN {"manifest"} ELSE {}

Stop(w) ==
  /\ writer[w].at \in Holding \cup {"named"}
  /\ Go(w, "stopped")
  /\ \/ UNCHANGED content
     \/ \E f \in BeingWritten(w) :
          Path(w) # Nobody /\ content' = [content EXCEPT ![Path(w)][f] = Torn]
  /\ UNCHANGED <<pendingAt, finalAt, discarder>>

-----------------------------------------------------------------------------
(* discard_interrupted: is it a directory, open it, empty it, remove it.       *)

Discards(d, place) == discarder[d].at = place
Doomed(d)          == pendingAt[discarder[d].name]

Check(d) == \E n \in Names :
  /\ Discards(d, "idle") /\ pendingAt[n] # Nobody
  /\ Careful => \A w \in Writers : Name(w) = n => writer[w].at \notin Holding
  /\ discarder' = [discarder EXCEPT ![d].at = "checked", ![d].name = n]
  /\ UNCHANGED <<pendingAt, finalAt, content, writer>>

Open(d) ==
  /\ Discards(d, "checked")
  /\ discarder' = [discarder EXCEPT ![d] =
       IF Doomed(d) = Nobody THEN NoDiscard
       ELSE [@ EXCEPT !.at = "removing", !.dir = Doomed(d), !.todo = Files_(Doomed(d))]]
  /\ UNCHANGED <<pendingAt, finalAt, content, writer>>

(* The open directory is emptied wherever it has been moved to.                *)
RemoveFile(d) == \E f \in Files :
  /\ Discards(d, "removing")
  /\ content[discarder[d].dir][f] # Nobody
  /\ content' = [content EXCEPT ![discarder[d].dir][f] = Nobody]
  /\ discarder' = [discarder EXCEPT ![d].todo = @ \ {f}]
  /\ UNCHANGED <<pendingAt, finalAt, writer>>

(* The directory itself is removed by its path, if it is empty.                *)
RemoveDir(d) ==
  /\ Discards(d, "removing")
  /\ \A f \in discarder[d].todo : content[discarder[d].dir][f] = Nobody
  /\ IF Doomed(d) # Nobody /\ Files_(Doomed(d)) = {}
     THEN pendingAt' = [pendingAt EXCEPT ![discarder[d].name] = Nobody]
     ELSE UNCHANGED pendingAt
  /\ discarder' = [discarder EXCEPT ![d] = NoDiscard]
  /\ UNCHANGED <<finalAt, content, writer>>

Abandon(d) ==
  /\ Discards(d, "removing")
  /\ discarder' = [discarder EXCEPT ![d] = NoDiscard]
  /\ UNCHANGED <<pendingAt, finalAt, content, writer>>

WriterStep(w) ==
  \/ Allocate(w) \/ CreateDir(w) \/ WriteScenario(w) \/ WriteResult(w)
  \/ NoResult(w) \/ WriteManifest(w) \/ Publish(w) \/ Stop(w)

DiscarderStep(d) == Check(d) \/ Open(d) \/ RemoveFile(d) \/ RemoveDir(d) \/ Abandon(d)

Next == (\E w \in Writers : WriterStep(w)) \/ (\E d \in Discarders : DiscarderStep(d))

Spec == Init /\ [][Next]_vars

-----------------------------------------------------------------------------
(* Properties.                                                               *)

(* Paths lead to directories, files have authors, threads have places.         *)
TypeOK ==
  /\ pendingAt \in [Names -> Writers \cup {Nobody}]
  /\ finalAt \in [Names -> Writers \cup {Nobody}]
  /\ content \in [Writers -> Content]
  /\ writer \in [Writers -> Writer]
  /\ discarder \in [Discarders -> Discarder]

(* `verify`: manifest and scenario are there, and the result, if the manifest   *)
(* promises one, is the result it was written for.                            *)
Verifies(d) ==
  /\ content[d]["manifest"] \in Writers
  /\ content[d]["scenario"] \in Writers
  /\ writer[content[d]["manifest"]].status = "completed"
       => content[d]["result"] = content[d]["manifest"]

(* A reader never observes a half-written run: everything under a final name    *)
(* verifies, whatever crashes, however many processes record the same scenario  *)
(* in the same second.                                                        *)
FinalVerifies == \A n \in Names : finalAt[n] # Nobody => Verifies(finalAt[n])

(* A finalized run is never replaced, moved or edited.                         *)
FinalIsForGood ==
  [][\A n \in Names : finalAt[n] # Nobody
       => finalAt'[n] = finalAt[n] /\ content'[finalAt[n]] = content[finalAt[n]]]_vars

(* Two writers never share a directory: while a writer works, its path leads to *)
(* the directory it created itself.                                           *)
OwnDirectory == \A w \in Writers : writer[w].at \in Holding => Path(w) = w

-----------------------------------------------------------------------------
(* What the code says of itself and does not do.                              *)

(* store.rs:356: discarding "can never remove a finalized run", in whole or in   *)
(* part.                                                                     *)
DiscardSparesFinalized ==
  [][\A d \in Discarders, n \in Names : RemoveFile(d) => discarder[d].dir # finalAt[n]]_vars
=============================================================================
