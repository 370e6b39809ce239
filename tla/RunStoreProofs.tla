---------------------------- MODULE RunStoreProofs ----------------------------
(***************************************************************************)
(* What the run store guarantees, for any number of writers, id bases and     *)
(* suffixes, wherever writers crash.  Nothing protects a directory but its    *)
(* path, so the invariant is about paths: each leads to a directory made       *)
(* under that very name, a working writer's to its own, and a directory is at  *)
(* a final name only if its own writer put it there, complete.                 *)
(***************************************************************************)
EXTENDS RunStore, TLAPS

(* One person at a time discards runs, and only what nobody writes any more.    *)
(* Two may not: the second looks at an abandoned directory, the first removes   *)
(* it, a new writer takes the free name, and the second empties its directory. *)
OneCarefulDiscarder == Careful /\ \A d, e \in Discarders : d = e

(* Who is past choosing a name has one, and who empties a directory has opened   *)
(* one: with this, and with no assumption, the types are inductive.            *)
HasName == /\ \A w \in Writers : writer[w].at \in Holding \cup {"named", "published"}
                               => Name(w) \in Names
           /\ \A d \in Discarders : ~Discards(d, "idle") => discarder[d].name \in Names
           /\ \A d \in Discarders : Discards(d, "removing") => discarder[d].dir \in Writers
Shape == TypeOK /\ HasName

(* A directory under a pending name was made there, by a writer that works or   *)
(* has stopped.                                                              *)
PendingIsOwn == \A n \in Names : pendingAt[n] # Nobody
  => /\ Name(pendingAt[n]) = n
     /\ writer[pendingAt[n]].at \in Holding \cup {"stopped"}

(* A directory under a final name was put there by its writer.                 *)
FinalIsOwn == \A n \in Names : finalAt[n] # Nobody
  => Name(finalAt[n]) = n /\ At(finalAt[n], "published")

(* What a discarder has looked at, and what it empties, has been abandoned.     *)
DoomedIsAbandoned == \A d \in Discarders : discarder[d].at # "idle"
  => /\ Doomed(d) # Nobody /\ At(Doomed(d), "stopped")
     /\ Discards(d, "removing") => discarder[d].dir = Doomed(d)

(* What a writer has written so far is in its directory.                       *)
WorkIsThere == \A w \in Writers :
  /\ writer[w].at \in {"begun", "sealing", "publishing", "published"}
       => content[w]["scenario"] = w
  /\ writer[w].at \in {"sealing", "publishing", "published"} /\ writer[w].status = "completed"
       => content[w]["result"] = w
  /\ writer[w].at \in {"publishing", "published"} => content[w]["manifest"] = w

StoreInv == /\ Shape /\ PendingIsOwn /\ FinalIsOwn /\ OwnDirectory
            /\ DoomedIsAbandoned /\ WorkIsThere

-----------------------------------------------------------------------------
(* Init, and the frames of the actions.                                        *)

(* Nothing is on disk, nobody works.                                       *)
LEMMA StoreInvInit == Init => StoreInv
<1> SUFFICES ASSUME Init PROVE StoreInv
  OBVIOUS
<1>1. TypeOK
  BY StoreAssumption DEF Init, TypeOK, Content, Writer, Discarder, Empty, NoDiscard, Places
<1>2. HasName /\ PendingIsOwn /\ FinalIsOwn /\ OwnDirectory /\ DoomedIsAbandoned /\ WorkIsThere
  BY DEF Init, HasName, PendingIsOwn, FinalIsOwn, OwnDirectory, DoomedIsAbandoned, WorkIsThere,
         Holding, NoDiscard, Discards
<1> QED BY <1>1, <1>2 DEF StoreInv, Shape

(* Types, whoever shares or discards what.                                     *)
LEMMA GoTypes ==
  ASSUME TypeOK, NEW w \in Writers, NEW p \in Places, Go(w, p)
  PROVE  writer' \in [Writers -> Writer]
BY DEF TypeOK, Writer, Go

(* A file that is written, torn or removed keeps the directories typed.    *)
LEMMA ContentTypes ==
  ASSUME TypeOK, NEW w \in Writers, NEW f \in Files, NEW v \in Writers \cup {Nobody, Torn},
         content' = [content EXCEPT ![w][f] = v]
  PROVE  content' \in [Writers -> Content]
BY DEF TypeOK, Content

(* The path of a writer that has chosen a name.                            *)
LEMMA PathTypes ==
  ASSUME Shape, NEW w \in Writers, writer[w].at \in Holding \cup {"named"}
  PROVE  Name(w) \in Names /\ Path(w) \in Writers \cup {Nobody}
BY DEF Shape, HasName, TypeOK, Path

(* Every step of a writer keeps the types, whoever discards.               *)
LEMMA WriterShape ==
  ASSUME Shape, NEW w \in Writers, WriterStep(w) PROVE Shape'
<1> USE StoreAssumption
<1>0. TypeOK /\ HasName /\ writer \in [Writers -> Writer] /\ content \in [Writers -> Content]
      /\ UNCHANGED discarder
  BY DEF Shape, TypeOK, WriterStep, Allocate, CreateDir, WriteScenario, WriteResult, NoResult,
         WriteManifest, Writes, Publish, Stop
(* A writer that moves on keeps its name, or gets one.                         *)
<1>n. ASSUME NEW p \in Places, NEW s,
             \/ Go(w, p)
             \/ writer' = [writer EXCEPT ![w].at = p, ![w].status = s],
             p \in Holding \cup {"published"} => Name(w) \in Names,
             p # "named"
      PROVE  HasName'
  BY <1>0, <1>n DEF HasName, Name, Go, Discards, Writer
<1>1. CASE Allocate(w)
  <2>1. /\ \/ Go(w, "stopped")
           \/ \E n \in Names : writer' = [writer EXCEPT ![w].at = "named", ![w].name = n]
        /\ UNCHANGED <<pendingAt, finalAt, content>>
    BY <1>1 DEF Allocate, Names
  <2>2. CASE Go(w, "stopped")
    BY <1>0, <1>n, <2>1, <2>2, GoTypes DEF Shape, TypeOK, Places, Holding
  <2>3. CASE \E n \in Names : writer' = [writer EXCEPT ![w].at = "named", ![w].name = n]
    <3>0. PICK n \in Names : writer' = [writer EXCEPT ![w].at = "named", ![w].name = n]
      BY <2>3
    <3>1. writer' \in [Writers -> Writer]
      BY <1>0, <3>0 DEF Writer, Places
    <3>2. HasName'
      BY <1>0, <3>0 DEF HasName, Name, Discards, Writer
    <3> QED BY <1>0, <2>1, <3>1, <3>2 DEF Shape, TypeOK
  <2> QED BY <2>1, <2>2, <2>3
<1>2. CASE CreateDir(w)
  <2>1. writer' \in [Writers -> Writer]
    BY <1>0, <1>2, GoTypes DEF CreateDir, Places
  <2>2. pendingAt' \in [Names -> Writers \cup {Nobody}]
    BY <1>0, <1>2 DEF CreateDir, TypeOK
  <2>3. HasName'
    BY <1>0, <1>2, <1>n, PathTypes DEF CreateDir, At, Places, Holding
  <2> QED BY <1>0, <1>2, <2>1, <2>2, <2>3 DEF CreateDir, Shape, TypeOK
<1>3. CASE WriteScenario(w) \/ WriteResult(w) \/ WriteManifest(w)
  <2>1. /\ \/ \E p \in {"begun", "publishing", "stopped"} : Go(w, p)
           \/ Decides(w, "completed")
        /\ \/ UNCHANGED content
           \/ /\ Path(w) # Nobody
              /\ \E f \in Files : content' = [content EXCEPT ![Path(w)][f] = w]
        /\ writer[w].at \in Holding /\ UNCHANGED <<pendingAt, finalAt>>
    BY <1>3 DEF WriteScenario, WriteResult, WriteManifest, Writes, At, Holding, Files
  <2>2. Name(w) \in Names /\ Path(w) \in Writers \cup {Nobody}
    BY <2>1, PathTypes
  <2>3. content' \in [Writers -> Content]
    BY <1>0, <2>1, <2>2, ContentTypes
  <2>4. writer' \in [Writers -> Writer]
    BY <1>0, <2>1, GoTypes DEF Places, Decides, Writer
  <2>5. HasName'
    BY <1>n, <2>1, <2>2 DEF Decides, Places
  <2> QED BY <1>0, <2>1, <2>3, <2>4, <2>5 DEF Shape, TypeOK
<1>4. CASE NoResult(w)
  <2>1. PICK s \in Resultless : Decides(w, s)
    BY <1>4 DEF NoResult
  <2>2. writer' \in [Writers -> Writer]
    BY <1>0, <2>1 DEF Writer, Decides, Resultless, Places
  <2>3. HasName'
    BY <1>4, <1>n, <2>1, PathTypes DEF NoResult, At, Holding, Decides, Places
  <2> QED BY <1>0, <1>4, <2>2, <2>3 DEF NoResult, Shape, TypeOK
<1>5. CASE Publish(w)
  <2>1. Name(w) \in Names /\ Path(w) \in Writers \cup {Nobody}
    BY <1>5, PathTypes DEF Publish, At, Holding
  <2>2. /\ pendingAt' \in [Names -> Writers \cup {Nobody}]
        /\ finalAt' \in [Names -> Writers \cup {Nobody}]
    BY <1>0, <1>5, <2>1 DEF Publish, TypeOK
  <2>3. writer' \in [Writers -> Writer] /\ HasName'
    BY <1>0, <1>5, <1>n, <2>1, GoTypes DEF Publish, Places, Holding
  <2> QED BY <1>0, <1>5, <2>2, <2>3 DEF Publish, Shape, TypeOK
<1>6. CASE Stop(w)
  <2>1. writer' \in [Writers -> Writer] /\ HasName'
    BY <1>0, <1>6, <1>n, GoTypes DEF Stop, Places, Holding
  <2>2. ASSUME NEW f \in BeingWritten(w), Path(w) # Nobody,
               content' = [content EXCEPT ![Path(w)][f] = Torn]
        PROVE  content' \in [Writers -> Content]
    <3>1. writer[w].at \in Holding /\ f \in Files
      BY <2>2 DEF BeingWritten, At, Holding, Files
    <3> QED BY <1>0, <2>2, <3>1, PathTypes, ContentTypes
  <2>3. content' \in [Writers -> Content]
    BY <1>0, <1>6, <2>2 DEF Stop
  <2> QED BY <1>0, <1>6, <2>1, <2>3 DEF Stop, Shape, TypeOK
<1> QED BY <1>1, <1>2, <1>3, <1>4, <1>5, <1>6 DEF WriterStep

(* So does every step of a discarder, careful or not.                      *)
LEMMA DiscarderShape ==
  ASSUME Shape, NEW d \in Discarders, DiscarderStep(d) PROVE Shape'
<1> USE StoreAssumption
<1>0. TypeOK /\ HasName /\ discarder \in [Discarders -> Discarder] /\ UNCHANGED <<finalAt, writer>>
  BY DEF Shape, TypeOK, DiscarderStep, Check, Open, RemoveFile, RemoveDir, Abandon
<1>1. CASE Check(d)
  <2>1. PICK n \in Names : discarder' = [discarder EXCEPT ![d].at = "checked", ![d].name = n]
    BY <1>1 DEF Check
  <2>2. discarder' \in [Discarders -> Discarder]
    BY <1>0, <2>1 DEF Discarder
  <2>3. HasName'
    BY <1>0, <2>1 DEF HasName, Name, Discards, Discarder
  <2> QED BY <1>0, <1>1, <2>2, <2>3 DEF Check, Shape, TypeOK
<1>2. CASE Open(d)
  <2>1. discarder[d].name \in Names /\ Doomed(d) \in Writers \cup {Nobody}
        /\ Files_(Doomed(d)) \in SUBSET Files
    BY <1>0, <1>2 DEF Open, HasName, TypeOK, Discards, Doomed, Files_
  <2>2. CASE Doomed(d) = Nobody
    <3>1. discarder' = [discarder EXCEPT ![d] = NoDiscard]
      BY <1>2, <2>2 DEF Open
    <3>2. discarder' \in [Discarders -> Discarder] /\ HasName'
      BY <1>0, <3>1 DEF Discarder, NoDiscard, HasName, Name, Discards
    <3> QED BY <1>0, <1>2, <3>2 DEF Open, Shape, TypeOK
  <2>3. CASE Doomed(d) # Nobody
    <3>1. discarder' = [discarder EXCEPT ![d] =
            [@ EXCEPT !.at = "removing", !.dir = Doomed(d), !.todo = Files_(Doomed(d))]]
      BY <1>2, <2>3 DEF Open
    <3>2. discarder' \in [Discarders -> Discarder]
      BY <1>0, <2>1, <3>1 DEF Discarder
    <3>3. discarder'[d].name = discarder[d].name /\ discarder'[d].dir \in Writers
      BY <1>0, <2>1, <2>3, <3>1 DEF Discarder
    <3>4. HasName'
      BY <1>0, <2>1, <3>1, <3>3 DEF HasName, Name, Discards
    <3> QED BY <1>0, <1>2, <3>2, <3>4 DEF Open, Shape, TypeOK
  <2> QED BY <2>2, <2>3
<1>3. CASE RemoveFile(d)
  <2>1. PICK f \in Files : /\ content' = [content EXCEPT ![discarder[d].dir][f] = Nobody]
                           /\ discarder' = [discarder EXCEPT ![d].todo = @ \ {f}]
    BY <1>3 DEF RemoveFile
  <2>2. discarder[d].dir \in Writers
    BY <1>0, <1>3 DEF RemoveFile, HasName
  <2>3. content' \in [Writers -> Content]
    BY <1>0, <2>1, <2>2, ContentTypes
  <2>4. discarder' \in [Discarders -> Discarder] /\ HasName'
    BY <1>0, <2>1 DEF Discarder, HasName, Name, Discards
  <2> QED BY <1>0, <1>3, <2>3, <2>4 DEF RemoveFile, Shape, TypeOK
<1>4. CASE RemoveDir(d) \/ Abandon(d)
  <2>1. discarder' = [discarder EXCEPT ![d] = NoDiscard] /\ UNCHANGED content
    BY <1>4 DEF RemoveDir, Abandon
  <2>2. discarder' \in [Discarders -> Discarder] /\ HasName'
    BY <1>0, <2>1 DEF Discarder, NoDiscard, HasName, Name, Discards
  <2>3. pendingAt' \in [Names -> Writers \cup {Nobody}]
    BY <1>0, <1>4 DEF RemoveDir, Abandon, TypeOK
  <2> QED BY <1>0, <2>1, <2>2, <2>3 DEF Shape, TypeOK
<1> QED BY <1>1, <1>2, <1>3, <1>4 DEF DiscarderStep

-----------------------------------------------------------------------------
(* What each action does, its paths leading where the invariant says.          *)

(* What the invariant says of one writer, and of a name that is taken.     *)
LEMMA Known ==
  ASSUME StoreInv
  PROVE  /\ TypeOK /\ HasName /\ PendingIsOwn /\ FinalIsOwn /\ OwnDirectory
         /\ DoomedIsAbandoned /\ WorkIsThere
         /\ writer \in [Writers -> Writer] /\ content \in [Writers -> Content]
         /\ pendingAt \in [Names -> Writers \cup {Nobody}]
         /\ finalAt \in [Names -> Writers \cup {Nobody}]
         /\ discarder \in [Discarders -> Discarder]
         /\ Nobody \notin Writers
BY StoreAssumption DEF StoreInv, Shape, TypeOK

(* A writer that writes a file writes it in its own directory.             *)
LEMMA WritesItsOwn ==
  ASSUME StoreInv, NEW w \in Writers, writer[w].at \in Holding
  PROVE  Path(w) = w /\ Name(w) \in Names /\ Path(w) # Nobody
BY Known DEF OwnDirectory, HasName

(* A final directory is never empty, so no rename replaces it.                  *)
LEMMA FinalIsNotEmpty ==
  ASSUME StoreInv, NEW n \in Names, finalAt[n] # Nobody
  PROVE  finalAt[n] \in Writers /\ ~Replaceable(n)
<1>1. finalAt[n] \in Writers /\ At(finalAt[n], "published")
  BY Known DEF FinalIsOwn
<1>2. content[finalAt[n]]["scenario"] = finalAt[n]
  BY <1>1, Known DEF WorkIsThere, At
<1> QED BY <1>1, <1>2, StoreAssumption DEF Replaceable, Files_, Files

(* What each action of a working writer does, its paths leading where they do.  *)
LEMMA Writing ==
  ASSUME StoreInv, NEW w \in Writers
  PROVE  /\ WriteScenario(w) =>
              /\ At(w, "created") /\ Go(w, "begun")
              /\ content' = [content EXCEPT ![w]["scenario"] = w]
              /\ UNCHANGED <<pendingAt, finalAt, discarder>>
         /\ WriteResult(w) =>
              /\ At(w, "begun") /\ Decides(w, "completed")
              /\ content' = [content EXCEPT ![w]["result"] = w]
              /\ UNCHANGED <<pendingAt, finalAt, discarder>>
         /\ WriteManifest(w) =>
              /\ At(w, "sealing") /\ Go(w, "publishing")
              /\ content' = [content EXCEPT ![w]["manifest"] = w]
              /\ UNCHANGED <<pendingAt, finalAt, discarder>>
<1>1. ASSUME WriteScenario(w) PROVE Path(w) = w /\ Path(w) # Nobody
  BY <1>1, WritesItsOwn DEF WriteScenario, At, Holding
<1>2. ASSUME WriteResult(w) PROVE Path(w) = w /\ Path(w) # Nobody
  BY <1>2, WritesItsOwn DEF WriteResult, At, Holding
<1>3. ASSUME WriteManifest(w) PROVE Path(w) = w /\ Path(w) # Nobody
  BY <1>3, WritesItsOwn DEF WriteManifest, At, Holding
<1> QED BY <1>1, <1>2, <1>3 DEF WriteScenario, WriteResult, WriteManifest, Writes

(* A directory gets a final name from its own writer.                      *)
LEMMA Publishing ==
  ASSUME StoreInv, NEW w \in Writers, Publish(w)
  PROVE  /\ At(w, "publishing") /\ Path(w) = w /\ Name(w) \in Names
         /\ \/ /\ finalAt[Name(w)] = Nobody
               /\ finalAt' = [finalAt EXCEPT ![Name(w)] = w]
               /\ pendingAt' = [pendingAt EXCEPT ![Name(w)] = Nobody]
               /\ Go(w, "published")
            \/ UNCHANGED <<finalAt, pendingAt>> /\ Go(w, "stopped")
         /\ UNCHANGED <<content, discarder>>
<1>1. At(w, "publishing") /\ Path(w) = w /\ Path(w) # Nobody /\ Name(w) \in Names
  BY WritesItsOwn DEF Publish, At, Holding
<1>2. Replaceable(Name(w)) => finalAt[Name(w)] = Nobody
  BY <1>1, FinalIsNotEmpty
<1> QED BY <1>1, <1>2 DEF Publish

(* A writer that stops leaves its directory to whoever discards.           *)
LEMMA Stopping ==
  ASSUME StoreInv, NEW w \in Writers, Stop(w)
  PROVE  /\ writer[w].at \in Holding \cup {"named"} /\ Go(w, "stopped")
         /\ \/ UNCHANGED content
            \/ \E f \in Files : content' = [content EXCEPT ![w][f] = Torn]
         /\ UNCHANGED <<pendingAt, finalAt, discarder>>
<1>1. ASSUME NEW f \in BeingWritten(w) PROVE f \in Files /\ Path(w) = w
  <2>1. writer[w].at \in Holding /\ f \in Files
    BY <1>1 DEF BeingWritten, At, Holding, Files
  <2> QED BY <2>1, WritesItsOwn
<1> QED BY <1>1 DEF Stop

(* What a discarder touches has been abandoned.                                *)
LEMMA Discarding ==
  ASSUME StoreInv, NEW d \in Discarders, ~Discards(d, "idle")
  PROVE  /\ discarder[d].name \in Names
         /\ Doomed(d) \in Writers /\ At(Doomed(d), "stopped") /\ Doomed(d) # Nobody
         /\ Discards(d, "removing") => discarder[d].dir = Doomed(d)
BY Known DEF DoomedIsAbandoned, HasName, Discards, Doomed

-----------------------------------------------------------------------------
(* Each step keeps the paths and the work.                                     *)

(* A step of a writer, conjunct by conjunct.                               *)
LEMMA WriterKeeps ==
  ASSUME StoreInv, NEW w \in Writers, WriterStep(w) PROVE StoreInv'
<1> USE StoreAssumption
<1>0. /\ HasName /\ PendingIsOwn /\ FinalIsOwn /\ OwnDirectory /\ DoomedIsAbandoned /\ WorkIsThere
      /\ writer \in [Writers -> Writer] /\ pendingAt \in [Names -> Writers \cup {Nobody}]
      /\ finalAt \in [Names -> Writers \cup {Nobody}]
      /\ content \in [Writers -> Content] /\ Nobody \notin Writers
  BY Known
<1>s. Shape'
  BY WriterShape DEF StoreInv
<1>1. CASE Allocate(w)
  <2>m. /\ At(w, "idle") /\ UNCHANGED <<pendingAt, finalAt, content, discarder>>
        /\ \/ Go(w, "stopped")
           \/ \E n \in Names : writer' = [writer EXCEPT ![w].at = "named", ![w].name = n]
    BY <1>1 DEF Allocate, Names
  <2>1. PendingIsOwn'
    BY <1>0, <2>m DEF PendingIsOwn, Go, Writer, Name, Holding, At
  <2>2. FinalIsOwn'
    BY <1>0, <2>m DEF FinalIsOwn, Go, Writer, PendingIsOwn, Name, At, Holding
  <2>3. OwnDirectory'
    BY <1>0, <2>m DEF OwnDirectory, HasName, Go, Writer, PendingIsOwn, Path, Name, Holding, At
  <2>4. DoomedIsAbandoned'
    BY <1>0, <2>m DEF DoomedIsAbandoned, HasName, Go, Writer, Doomed, Discards, At
  <2>5. WorkIsThere'
    BY <1>0, <2>m DEF WorkIsThere, Go, Writer, At, Content, Files
  <2> QED BY <1>s, <2>1, <2>2, <2>3, <2>4, <2>5 DEF StoreInv
<1>2. CASE CreateDir(w)
  <2>m. /\ At(w, "named") /\ UNCHANGED <<finalAt, content, discarder>> /\ Name(w) \in Names
        /\ \/ /\ pendingAt[Name(w)] = Nobody /\ Go(w, "created")
              /\ pendingAt' = [pendingAt EXCEPT ![Name(w)] = w]
           \/ UNCHANGED pendingAt /\ Go(w, "stopped")
    BY <1>2, <1>0 DEF CreateDir, HasName, Path, At
  <2>1. PendingIsOwn'
    BY <1>0, <2>m DEF PendingIsOwn, Go, Writer, Name, Holding, At
  <2>2. FinalIsOwn'
    BY <1>0, <2>m DEF FinalIsOwn, Go, Writer, PendingIsOwn, Name, At, Holding
  <2>3. OwnDirectory'
    BY <1>0, <2>m DEF OwnDirectory, HasName, Go, Writer, PendingIsOwn, Path, Name, Holding, At
  <2>4. DoomedIsAbandoned'
    <3> SUFFICES ASSUME NEW d \in Discarders, discarder[d].at # "idle"
                 PROVE  /\ discarder[d].name \in Names
                        /\ Doomed(d)' # Nobody /\ At(Doomed(d), "stopped")'
                        /\ Discards(d, "removing") => discarder[d].dir = Doomed(d)'
      BY <2>m DEF DoomedIsAbandoned, Discards
    <3>1. /\ discarder[d].name \in Names /\ Doomed(d) \in Writers /\ At(Doomed(d), "stopped")
          /\ Discards(d, "removing") => discarder[d].dir = Doomed(d)
      BY Discarding DEF Discards
    <3>2. Doomed(d)' = Doomed(d) /\ Doomed(d) # w
      BY <1>0, <2>m, <3>1 DEF Doomed, At
    <3>3. writer'[Doomed(d)] = writer[Doomed(d)]
      BY <1>0, <2>m, <3>1, <3>2 DEF Go, Writer
    <3> QED BY <1>0, <3>1, <3>2, <3>3 DEF At
  <2>5. WorkIsThere'
    BY <1>0, <2>m DEF WorkIsThere, Go, Writer, At, Content, Files, Name, Holding
  <2> QED BY <1>s, <2>1, <2>2, <2>3, <2>4, <2>5 DEF StoreInv
<1>3. CASE WriteScenario(w)
  <2>m. /\ At(w, "created") /\ Go(w, "begun")
        /\ content' = [content EXCEPT ![w]["scenario"] = w]
        /\ UNCHANGED <<pendingAt, finalAt, discarder>>
    BY <1>3, Writing
  <2>1. PendingIsOwn'
    BY <1>0, <2>m DEF PendingIsOwn, Go, Writer, Name, Holding, At
  <2>2. FinalIsOwn'
    BY <1>0, <2>m DEF FinalIsOwn, Go, Writer, PendingIsOwn, Name, At, Holding
  <2>3. OwnDirectory'
    BY <1>0, <2>m DEF OwnDirectory, HasName, Go, Writer, PendingIsOwn, Path, Name, Holding, At
  <2>4. DoomedIsAbandoned'
    BY <1>0, <2>m DEF DoomedIsAbandoned, HasName, Go, Writer, Doomed, Discards, At
  <2>5. WorkIsThere'
    BY <1>0, <2>m DEF WorkIsThere, Go, Writer, At, Content, Files
  <2> QED BY <1>s, <2>1, <2>2, <2>3, <2>4, <2>5 DEF StoreInv
<1>4. CASE WriteResult(w)
  <2>m. /\ At(w, "begun") /\ Decides(w, "completed")
        /\ content' = [content EXCEPT ![w]["result"] = w]
        /\ UNCHANGED <<pendingAt, finalAt, discarder>>
    BY <1>4, Writing
  <2>1. PendingIsOwn'
    BY <1>0, <2>m DEF PendingIsOwn, Decides, Writer, Name, Holding, At
  <2>2. FinalIsOwn'
    BY <1>0, <2>m DEF FinalIsOwn, Decides, Writer, PendingIsOwn, Name, At, Holding
  <2>3. OwnDirectory'
    BY <1>0, <2>m DEF OwnDirectory, HasName, Decides, Writer, PendingIsOwn, Path, Name, Holding, At
  <2>4. DoomedIsAbandoned'
    BY <1>0, <2>m DEF DoomedIsAbandoned, HasName, Decides, Writer, Doomed, Discards, At
  <2>5. WorkIsThere'
    BY <1>0, <2>m DEF WorkIsThere, Decides, Writer, At, Content, Files
  <2> QED BY <1>s, <2>1, <2>2, <2>3, <2>4, <2>5 DEF StoreInv
<1>5. CASE NoResult(w)
  <2>m. /\ At(w, "begun") /\ UNCHANGED <<pendingAt, finalAt, content, discarder>>
        /\ \E s \in Resultless : Decides(w, s)
    BY <1>5 DEF NoResult
  <2>1. PendingIsOwn'
    BY <1>0, <2>m DEF PendingIsOwn, Decides, Writer, Name, Holding, At
  <2>2. FinalIsOwn'
    BY <1>0, <2>m DEF FinalIsOwn, Decides, Writer, PendingIsOwn, Name, At, Holding
  <2>3. OwnDirectory'
    BY <1>0, <2>m DEF OwnDirectory, HasName, Decides, Writer, PendingIsOwn, Path, Name, Holding, At
  <2>4. DoomedIsAbandoned'
    BY <1>0, <2>m DEF DoomedIsAbandoned, HasName, Decides, Writer, Doomed, Discards, At
  <2>5. WorkIsThere'
    <3>1. writer' = [writer EXCEPT ![w].at = "sealing", ![w].status = writer'[w].status]
          /\ writer'[w].status # "completed"
      BY <1>0, <2>m DEF Decides, Resultless, Writer
    <3>2. \A v \in Writers : v # w => writer'[v] = writer[v]
      BY <1>0, <3>1 DEF Writer
    <3>3. writer'[w].at = "sealing"
      BY <1>0, <3>1 DEF Writer
    <3> QED BY <1>0, <2>m, <3>1, <3>2, <3>3 DEF WorkIsThere, At
  <2> QED BY <1>s, <2>1, <2>2, <2>3, <2>4, <2>5 DEF StoreInv
<1>6. CASE WriteManifest(w)
  <2>m. /\ At(w, "sealing") /\ Go(w, "publishing")
        /\ content' = [content EXCEPT ![w]["manifest"] = w]
        /\ UNCHANGED <<pendingAt, finalAt, discarder>>
    BY <1>6, Writing
  <2>1. PendingIsOwn'
    BY <1>0, <2>m DEF PendingIsOwn, Go, Writer, Name, Holding, At
  <2>2. FinalIsOwn'
    BY <1>0, <2>m DEF FinalIsOwn, Go, Writer, PendingIsOwn, Name, At, Holding
  <2>3. OwnDirectory'
    BY <1>0, <2>m DEF OwnDirectory, HasName, Go, Writer, PendingIsOwn, Path, Name, Holding, At
  <2>4. DoomedIsAbandoned'
    BY <1>0, <2>m DEF DoomedIsAbandoned, HasName, Go, Writer, Doomed, Discards, At
  <2>5. WorkIsThere'
    BY <1>0, <2>m DEF WorkIsThere, Go, Writer, At, Content, Files
  <2> QED BY <1>s, <2>1, <2>2, <2>3, <2>4, <2>5 DEF StoreInv
<1>7. CASE Publish(w)
  <2>m. /\ At(w, "publishing") /\ Path(w) = w /\ Name(w) \in Names
        /\ \/ /\ finalAt[Name(w)] = Nobody
              /\ finalAt' = [finalAt EXCEPT ![Name(w)] = w]
              /\ pendingAt' = [pendingAt EXCEPT ![Name(w)] = Nobody]
              /\ Go(w, "published")
           \/ UNCHANGED <<finalAt, pendingAt>> /\ Go(w, "stopped")
        /\ UNCHANGED <<content, discarder>>
    BY <1>7, Publishing
  <2>1. PendingIsOwn'
    <3> SUFFICES ASSUME NEW n \in Names, pendingAt'[n] # Nobody
                 PROVE  writer'[pendingAt'[n]].name = n /\ writer'[pendingAt'[n]].at \in Holding \cup {"stopped"}
      BY DEF PendingIsOwn, Name
    <3>1. pendingAt'[n] = pendingAt[n] /\ pendingAt[n] \in Writers
      BY <1>0, <2>m
    <3>2. Name(pendingAt[n]) = n /\ writer[pendingAt[n]].at \in Holding \cup {"stopped"}
      BY <1>0, <3>1 DEF PendingIsOwn
    <3>3. pendingAt[n] = w => Go(w, "stopped")
      BY <1>0, <2>m, <3>1, <3>2
    <3>4. writer'[pendingAt[n]].name = writer[pendingAt[n]].name
      BY <1>0, <2>m, <3>1 DEF Go, Writer
    <3>5. pendingAt[n] # w => writer'[pendingAt[n]] = writer[pendingAt[n]]
      BY <1>0, <2>m, <3>1 DEF Go, Writer
    <3>6. pendingAt[n] = w => writer'[pendingAt[n]].at = "stopped"
      BY <1>0, <3>1, <3>3 DEF Go, Writer
    <3> QED BY <3>1, <3>2, <3>4, <3>5, <3>6 DEF Name
  <2>2. FinalIsOwn'
    BY <1>0, <2>m DEF FinalIsOwn, Go, Writer, PendingIsOwn, Name, At, Holding, Path
  <2>3. OwnDirectory'
    BY <1>0, <2>m DEF OwnDirectory, HasName, Go, Writer, PendingIsOwn, Path, Name, Holding, At
  <2>4. DoomedIsAbandoned'
    BY <1>0, <2>m DEF DoomedIsAbandoned, HasName, Go, Writer, Doomed, Discards, At, Path, Name, Holding
  <2>5. WorkIsThere'
    BY <1>0, <2>m DEF WorkIsThere, Go, Writer, At, Content, Files, Path, Name, Holding
  <2> QED BY <1>s, <2>1, <2>2, <2>3, <2>4, <2>5 DEF StoreInv
<1>8. CASE Stop(w)
  <2>m. /\ writer[w].at \in Holding \cup {"named"} /\ Go(w, "stopped")
        /\ \/ UNCHANGED content
           \/ \E f \in Files : content' = [content EXCEPT ![w][f] = Torn]
        /\ UNCHANGED <<pendingAt, finalAt, discarder>>
    BY <1>8, Stopping
  <2>1. PendingIsOwn'
    BY <1>0, <2>m DEF PendingIsOwn, Go, Writer, Name, Holding, At
  <2>2. FinalIsOwn'
    BY <1>0, <2>m DEF FinalIsOwn, Go, Writer, PendingIsOwn, Name, At, Holding
  <2>3. OwnDirectory'
    BY <1>0, <2>m DEF OwnDirectory, HasName, Go, Writer, PendingIsOwn, Path, Name, Holding, At
  <2>4. DoomedIsAbandoned'
    BY <1>0, <2>m DEF DoomedIsAbandoned, HasName, Go, Writer, Doomed, Discards, At, Name, Holding
  <2>5. WorkIsThere'
    BY <1>0, <2>m DEF WorkIsThere, Go, Writer, At, Content, Files, Name, Holding
  <2> QED BY <1>s, <2>1, <2>2, <2>3, <2>4, <2>5 DEF StoreInv
<1> QED BY <1>1, <1>2, <1>3, <1>4, <1>5, <1>6, <1>7, <1>8 DEF WriterStep

(* A step of the discarder hits nothing but abandoned directories.         *)
LEMMA DiscarderKeeps ==
  ASSUME OneCarefulDiscarder, StoreInv, NEW d \in Discarders, DiscarderStep(d)
  PROVE  StoreInv'
<1>0. /\ HasName /\ PendingIsOwn /\ FinalIsOwn /\ OwnDirectory /\ DoomedIsAbandoned /\ WorkIsThere
      /\ writer \in [Writers -> Writer] /\ pendingAt \in [Names -> Writers \cup {Nobody}]
      /\ content \in [Writers -> Content] /\ Nobody \notin Writers
      /\ discarder \in [Discarders -> Discarder]
  BY Known
<1>u. UNCHANGED <<finalAt, writer>>
  BY DEF DiscarderStep, Check, Open, RemoveFile, RemoveDir, Abandon
<1>s. Shape'
  BY DiscarderShape DEF StoreInv
<1>d. \A e \in Discarders : e = d
  BY DEF OneCarefulDiscarder
<1>f. FinalIsOwn'
  BY <1>0, <1>u DEF FinalIsOwn, Name, At
<1>1. CASE Check(d)
  <2>1. PICK n \in Names :
          /\ pendingAt[n] # Nobody
          /\ \A w \in Writers : Name(w) = n => writer[w].at \notin Holding
          /\ discarder' = [discarder EXCEPT ![d].at = "checked", ![d].name = n]
    BY <1>1 DEF Check, OneCarefulDiscarder
  <2>2. UNCHANGED <<pendingAt, content>>
    BY <1>1 DEF Check
  <2>3. pendingAt[n] \in Writers /\ At(pendingAt[n], "stopped")
    BY <1>0, <1>u, <2>1 DEF PendingIsOwn, At
  <2>4. discarder'[d].at = "checked" /\ discarder'[d].name = n
    BY <1>0, <1>u, <2>1 DEF Discarder
  <2>5. DoomedIsAbandoned'
    BY <1>0, <1>u, <1>d, <2>1, <2>2, <2>3, <2>4 DEF DoomedIsAbandoned, Doomed, Discards, At
  <2>6. PendingIsOwn' /\ OwnDirectory' /\ WorkIsThere'
    BY <1>0, <1>u, <2>2 DEF PendingIsOwn, OwnDirectory, WorkIsThere, Path, Name
  <2> QED BY <1>s, <1>f, <2>5, <2>6 DEF StoreInv
<1>2. CASE Open(d)
  <2>1. /\ discarder[d].name \in Names /\ Doomed(d) \in Writers
        /\ At(Doomed(d), "stopped") /\ Doomed(d) # Nobody
    BY <1>2, Discarding DEF Open, Discards
  <2>2. UNCHANGED <<pendingAt, content>>
    BY <1>2 DEF Open
  <2>3. discarder'[d].at = "removing" /\ discarder'[d].name = discarder[d].name
        /\ discarder'[d].dir = Doomed(d)
    BY <1>0, <1>u, <1>2, <2>1 DEF Open, Discarder
  <2>5. DoomedIsAbandoned'
    BY <1>0, <1>u, <1>d, <2>1, <2>2, <2>3 DEF DoomedIsAbandoned, Doomed, Discards, At
  <2>6. PendingIsOwn' /\ OwnDirectory' /\ WorkIsThere'
    BY <1>0, <1>u, <2>2 DEF PendingIsOwn, OwnDirectory, WorkIsThere, Path, Name
  <2> QED BY <1>s, <1>f, <2>5, <2>6 DEF StoreInv
<1>3. CASE RemoveFile(d)
  <2>1. PICK f \in Files : /\ content' = [content EXCEPT ![discarder[d].dir][f] = Nobody]
                           /\ discarder' = [discarder EXCEPT ![d].todo = @ \ {f}]
    BY <1>3 DEF RemoveFile
  <2>2. /\ discarder[d].name \in Names /\ Doomed(d) \in Writers /\ At(Doomed(d), "stopped")
        /\ Doomed(d) # Nobody /\ discarder[d].dir = Doomed(d) /\ UNCHANGED pendingAt
    BY <1>3, Discarding DEF RemoveFile, Discards
  <2>3. /\ discarder'[d].at = discarder[d].at /\ discarder'[d].name = discarder[d].name
        /\ discarder'[d].dir = discarder[d].dir
    BY <1>0, <1>u, <2>1 DEF Discarder
  <2>4. \A w \in Writers : w # Doomed(d) => content'[w] = content[w]
    BY <1>0, <1>u, <2>1, <2>2
  <2>5. DoomedIsAbandoned'
    BY <1>0, <1>u, <1>d, <2>2, <2>3 DEF DoomedIsAbandoned, Doomed, Discards, At
  <2>6. PendingIsOwn' /\ OwnDirectory'
    BY <1>0, <1>u, <2>2 DEF PendingIsOwn, OwnDirectory, Path, Name
  <2>7. WorkIsThere'
    BY <1>0, <1>u, <2>2, <2>4 DEF WorkIsThere, At
  <2> QED BY <1>s, <1>f, <2>5, <2>6, <2>7 DEF StoreInv
<1>4. CASE RemoveDir(d)
  <2>1. /\ discarder[d].name \in Names /\ Doomed(d) \in Writers /\ At(Doomed(d), "stopped")
    BY <1>4, Discarding DEF RemoveDir, Discards
  <2>2. \/ UNCHANGED pendingAt
        \/ pendingAt' = [pendingAt EXCEPT ![discarder[d].name] = Nobody]
    BY <1>4 DEF RemoveDir
  <2>3. UNCHANGED content /\ discarder'[d].at = "idle"
    BY <1>0, <1>u, <1>4 DEF RemoveDir, NoDiscard
  <2>4. PendingIsOwn'
    BY <1>0, <1>u, <2>1, <2>2 DEF PendingIsOwn, Name
  <2>5. OwnDirectory'
    BY <1>0, <1>u, <2>1, <2>2 DEF OwnDirectory, HasName, Path, Name, Doomed, At, Holding
  <2>6. DoomedIsAbandoned' /\ WorkIsThere'
    BY <1>0, <1>u, <1>d, <2>3 DEF DoomedIsAbandoned, WorkIsThere
  <2> QED BY <1>s, <1>f, <2>4, <2>5, <2>6 DEF StoreInv
<1>5. CASE Abandon(d)
  <2>1. UNCHANGED <<pendingAt, content>> /\ discarder'[d].at = "idle"
    BY <1>0, <1>u, <1>5 DEF Abandon, NoDiscard
  <2>2. DoomedIsAbandoned'
    BY <1>d, <2>1 DEF DoomedIsAbandoned
  <2>3. PendingIsOwn' /\ OwnDirectory' /\ WorkIsThere'
    BY <1>0, <1>u, <2>1 DEF PendingIsOwn, OwnDirectory, WorkIsThere, Path, Name
  <2> QED BY <1>s, <1>f, <2>2, <2>3 DEF StoreInv
<1> QED BY <1>1, <1>2, <1>3, <1>4, <1>5 DEF DiscarderStep

(* Every step.                                                             *)
LEMMA StoreInvStep == ASSUME OneCarefulDiscarder, StoreInv, [Next]_vars PROVE StoreInv'
<1>1. CASE UNCHANGED vars
  BY <1>1 DEF vars, StoreInv, Shape, TypeOK, HasName, PendingIsOwn, FinalIsOwn, OwnDirectory, DoomedIsAbandoned,
              WorkIsThere, Name, At, Path, Doomed, Discards
<1> QED BY <1>1, WriterKeeps, DiscarderKeeps DEF Next

(* The inductive invariant, under its assumption.                          *)
LEMMA StoreInvHolds == ASSUME OneCarefulDiscarder PROVE Spec => []StoreInv
<1>1. OneCarefulDiscarder /\ StoreInv /\ [Next]_vars => StoreInv'
  BY StoreInvStep
<1> QED BY <1>1, StoreInvInit, PTL DEF Spec

-----------------------------------------------------------------------------
(* Paths lead to directories, files have authors: for any writers, discarders,   *)
(* id bases and suffixes, and whatever is discarded.                           *)
THEOREM StoreTypes == Spec => []TypeOK
<1>1. Init => Shape
  BY StoreInvInit DEF StoreInv
<1>2. Shape /\ [Next]_vars => Shape'
  <2>1. Shape /\ UNCHANGED vars => Shape'
    BY DEF vars, Shape, TypeOK, HasName, Name, Discards
  <2> QED BY <2>1, WriterShape, DiscarderShape DEF Next
<1>3. Shape => TypeOK
  BY DEF Shape
<1> QED BY <1>1, <1>2, <1>3, PTL DEF Spec

(* Two recordings of the same scenario in the same second never write into one  *)
(* directory: create_dir fails on a name that is taken, and nobody removes or   *)
(* renames a directory whose writer works.                                     *)
THEOREM OwnDirectories == ASSUME OneCarefulDiscarder PROVE Spec => []OwnDirectory
<1>1. StoreInv => OwnDirectory
  BY DEF StoreInv
<1> QED BY <1>1, StoreInvHolds, PTL

(* What is under a final name verifies, wherever writers crash: its writer      *)
(* renamed it after the manifest, which it wrote after the rest.               *)
THEOREM FinalsVerify == ASSUME OneCarefulDiscarder PROVE Spec => []FinalVerifies
<1>1. ASSUME StoreInv PROVE FinalVerifies
  <2> SUFFICES ASSUME NEW n \in Names, finalAt[n] # Nobody PROVE Verifies(finalAt[n])
    BY DEF FinalVerifies
  <2>1. finalAt[n] \in Writers /\ At(finalAt[n], "published")
    BY <1>1 DEF StoreInv, Shape, FinalIsOwn, TypeOK
  <2> QED BY <1>1, <2>1 DEF StoreInv, WorkIsThere, Verifies, At
<1> QED BY <1>1, StoreInvHolds, PTL

(* A finalized run is never replaced, moved or edited, by any writer, crash or   *)
(* discarder: no rename replaces a directory that holds a file, and files are   *)
(* written and removed only where their writer works or has stopped.           *)
THEOREM FinalsAreForGood == ASSUME OneCarefulDiscarder PROVE Spec => FinalIsForGood
<1> DEFINE Stays == \A n \in Names : finalAt[n] # Nobody
              => finalAt'[n] = finalAt[n] /\ content'[finalAt[n]] = content[finalAt[n]]
<1>1. ASSUME StoreInv, [Next]_vars PROVE Stays
  <2> SUFFICES ASSUME NEW n \in Names, finalAt[n] # Nobody
               PROVE  finalAt'[n] = finalAt[n] /\ content'[finalAt[n]] = content[finalAt[n]]
    OBVIOUS
  <2>0. finalAt[n] \in Writers /\ At(finalAt[n], "published")
        /\ finalAt \in [Names -> Writers \cup {Nobody}] /\ content \in [Writers -> Content]
    BY <1>1 DEF StoreInv, Shape, FinalIsOwn, TypeOK
  <2>1. ASSUME NEW w \in Writers, WriterStep(w)
        PROVE  finalAt'[n] = finalAt[n] /\ content'[finalAt[n]] = content[finalAt[n]]
    <3>1. CASE Allocate(w) \/ CreateDir(w) \/ NoResult(w)
      BY <3>1 DEF Allocate, CreateDir, NoResult
    <3>2. CASE WriteScenario(w) \/ WriteResult(w) \/ WriteManifest(w)
      <4>1. w # finalAt[n] /\ UNCHANGED finalAt
        BY <1>1, <2>0, <3>2, Writing DEF At
      <4>2. \E f \in Files : content' = [content EXCEPT ![w][f] = w]
        BY <1>1, <3>2, Writing DEF Files
      <4> QED BY <2>0, <4>1, <4>2
    <3>3. CASE Publish(w)
      BY <1>1, <2>0, <3>3, Publishing
    <3>4. CASE Stop(w)
      <4>1. w # finalAt[n] /\ UNCHANGED finalAt
        BY <1>1, <2>0, <3>4, Stopping DEF At, Holding
      <4>2. UNCHANGED content \/ \E f \in Files : content' = [content EXCEPT ![w][f] = Torn]
        BY <1>1, <3>4, Stopping
      <4> QED BY <2>0, <4>1, <4>2
    <3> QED BY <2>1, <3>1, <3>2, <3>3, <3>4 DEF WriterStep
  <2>2. ASSUME NEW d \in Discarders, DiscarderStep(d)
        PROVE  finalAt'[n] = finalAt[n] /\ content'[finalAt[n]] = content[finalAt[n]]
    <3>1. CASE RemoveFile(d)
      <4>1. discarder[d].dir # finalAt[n]
        BY <1>1, <2>0, <3>1, Discarding DEF RemoveFile, Discards, At
      <4> QED BY <2>0, <3>1, <4>1 DEF RemoveFile
    <3> QED BY <2>2, <3>1 DEF DiscarderStep, Check, Open, RemoveDir, Abandon
  <2> QED BY <1>1, <2>1, <2>2 DEF Next, vars
<1>2. StoreInv /\ [Next]_vars => [Stays]_vars
  BY <1>1
<1> HIDE DEF Stays
<1>3. [][Stays]_vars => FinalIsForGood
  BY PTL DEF FinalIsForGood, Stays
<1> QED BY <1>2, <1>3, StoreInvHolds, PTL DEF Spec
=============================================================================
