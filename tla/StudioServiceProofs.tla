------------------------- MODULE StudioServiceProofs -------------------------
(***************************************************************************)
(* Proofs about the application service, for any number of callers, workers  *)
(* and runs.                                                                 *)
(***************************************************************************)
EXTENDS StudioService, TLAPS

USE DEF Runs, Workers, None

-----------------------------------------------------------------------------
(* Type correctness, one named part for each thread, process and table.        *)

CallerOK == caller \in [Callers -> Caller]
ProcOK   == proc \in [Workers -> Process]
PipeOK   == pipe \in [Workers -> Seq(Message)]
ReaderOK == reader \in [Workers -> Reader]
StateOK  == state \in [Runs -> JobStates]
StoreOK  == /\ store \in [Runs -> {"absent", "partial"} \cup Finalized]
            /\ begun \in 0 .. MaxRuns
SharedOK == /\ worker \in Workers \cup {None} /\ active \in Runs \cup {None}
            /\ byRequest \subseteq Runs /\ pending \subseteq Runs
            /\ shuttingDown \in BOOLEAN /\ terminatingForCancel \in BOOLEAN
            /\ readerSlot \in Workers \cup {None}

(* A caller that has opened a store entry knows the run it opened it for: what  *)
(* TypeOK needs besides itself to be inductive.                              *)
BegunIsNamed == \A c \in Callers : At(c, "begun") => caller[c].run \in Runs

(* TypeOK is the conjunction of these parts.                                   *)
LEMMA TypeParts ==
  TypeOK <=> /\ CallerOK /\ ProcOK /\ PipeOK /\ ReaderOK
             /\ StateOK /\ StoreOK /\ SharedOK
  BY DEF TypeOK, CallerOK, ProcOK, PipeOK, ReaderOK, StateOK, StoreOK, SharedOK

(* The same of the state after a step.                                        *)
LEMMA TypePartsNext ==
  ASSUME CallerOK', ProcOK', PipeOK', ReaderOK', StateOK', StoreOK', SharedOK'
  PROVE  TypeOK'
  BY DEF TypeOK, CallerOK, ProcOK, PipeOK, ReaderOK, StateOK, StoreOK, SharedOK

(* The service starts with nothing running and nothing on record.            *)
LEMMA InitTypeOK == Init => TypeOK /\ BegunIsNamed
<1> SUFFICES ASSUME Init PROVE TypeOK /\ BegunIsNamed
  OBVIOUS
<1>1. CallerOK
  BY DEF Init, CallerOK, Caller, CallerPlaces, Idle
<1>2. ProcOK /\ PipeOK
  BY DEF Init, ProcOK, PipeOK, Process, NoProcess
<1>3. ReaderOK
  BY DEF Init, ReaderOK, Reader, ReaderPlaces, ReaderAt, Settled
<1>4. StateOK /\ StoreOK
  BY ServiceAssumption DEF Init, StateOK, StoreOK, JobStates, Finalized
<1>5. SharedOK
  BY DEF Init, SharedOK
<1>6. BegunIsNamed
  BY DEF Init, BegunIsNamed, At, Idle
<1> QED
  BY <1>1, <1>2, <1>3, <1>4, <1>5, <1>6, TypeParts

-----------------------------------------------------------------------------
(* What an assignment to one caller, process, pipe or reader preserves.         *)

(* A caller that takes a record of its type leaves the callers well typed.   *)
LEMMA BecomeKeeps ==
  ASSUME CallerOK, BegunIsNamed, NEW c \in Callers, NEW r \in Caller, Become(c, r),
         r.at = "begun" => r.run \in Runs
  PROVE  CallerOK' /\ BegunIsNamed'
  BY DEF CallerOK, BegunIsNamed, Become, At

(* A caller that only moves on.                                              *)
LEMMA GoKeeps ==
  ASSUME CallerOK, BegunIsNamed, NEW c \in Callers, NEW p \in CallerPlaces \ {"begun"},
         Go(c, p)
  PROVE  CallerOK' /\ BegunIsNamed'
<1>1. [caller[c] EXCEPT !.at = p] \in Caller
  BY DEF CallerOK, Caller
<1>2. [caller[c] EXCEPT !.at = p].at = p
  BY DEF CallerOK, Caller
<1> QED
  BY <1>1, <1>2, BecomeKeeps DEF Go

(* A caller whose call returns.                                              *)
LEMMA ReturnKeeps ==
  ASSUME CallerOK, BegunIsNamed, NEW c \in Callers, Return(c)
  PROVE  CallerOK' /\ BegunIsNamed'
<1>1. Idle \in Caller /\ Idle.at # "begun"
  BY DEF Idle, Caller, CallerPlaces
<1> QED
  BY <1>1, BecomeKeeps DEF Return

(* A caller that returns from cancel_run, to the user or to shutdown.        *)
LEMMA CancelDoneKeeps ==
  ASSUME CallerOK, BegunIsNamed, NEW c \in Callers, CancelDone(c)
  PROVE  CallerOK' /\ BegunIsNamed'
<1>1. caller[c].next \in {"idle", "closing"}
  BY DEF CallerOK, Caller
<1>2. [Idle EXCEPT !.at = caller[c].next] \in Caller
  BY <1>1 DEF Idle, Caller, CallerPlaces
<1>3. [Idle EXCEPT !.at = caller[c].next].at # "begun"
  BY <1>1 DEF Idle
<1> QED
  BY <1>2, <1>3, BecomeKeeps DEF CancelDone

(* A process that takes a record of its type.                                *)
LEMMA ChangeKeeps ==
  ASSUME ProcOK, NEW w \in Workers, NEW p \in Process, Change(w, p)
  PROVE  ProcOK'
  BY DEF ProcOK, Change

(* Child::kill on the process of a handle, or on none.                       *)
LEMMA KillKeeps ==
  ASSUME ProcOK, NEW w \in Workers \cup {None}, Kill(w)
  PROVE  ProcOK'
<1>1. CASE w = None
  BY <1>1 DEF Kill, ProcOK
<1>2. CASE w # None
  <2>1. Dead(w) \in Process
    BY <1>2 DEF Dead, NoProcess, ProcOK, Process
  <2> QED
    BY <1>2, <2>1, ChangeKeeps DEF Kill
<1> QED
  BY <1>1, <1>2

(* A dropped handle closes the input of its process.                         *)
LEMMA DropHandleKeeps ==
  ASSUME ProcOK, SharedOK, DropHandle
  PROVE  ProcOK'
<1>1. CASE worker = None
  BY <1>1 DEF DropHandle, ProcOK
<1>2. CASE worker # None
  <2>1. worker \in Workers
    BY <1>2 DEF SharedOK
  <2>2. [proc[worker] EXCEPT !.open = FALSE] \in Process
    BY <2>1 DEF ProcOK, Process
  <2> QED
    BY <1>2, <2>1, <2>2, ChangeKeeps DEF DropHandle
<1> QED
  BY <1>1, <1>2

(* shutdown and the destructor kill and drop.                                *)
LEMMA KillAndDropKeeps ==
  ASSUME ProcOK, SharedOK, KillAndDrop
  PROVE  ProcOK'
<1>1. NoProcess \in Process
  BY DEF NoProcess, Process
<1> QED
  BY <1>1, ChangeKeeps DEF KillAndDrop, SharedOK, ProcOK

(* A worker writes a message.                                                *)
LEMMA PutKeeps ==
  ASSUME PipeOK, NEW w \in Workers, NEW m \in Message, Put(w, m)
  PROVE  PipeOK'
<1>1. pipe[w] \in Seq(Message)
  BY DEF PipeOK
<1>2. Append(pipe[w], m) \in Seq(Message)
  BY <1>1
<1> QED
  BY <1>2 DEF PipeOK, Put

(* The first message of a pipe is a message, and so are the others.            *)
LEMMA HeadIsMessage ==
  ASSUME PipeOK, NEW w \in Workers, pipe[w] # <<>>
  PROVE  Head(pipe[w]) \in Message /\ Tail(pipe[w]) \in Seq(Message)
  BY DEF PipeOK

(* A reader reads one.                                                       *)
LEMMA ConsumeKeeps ==
  ASSUME PipeOK, NEW w \in Workers, pipe[w] # <<>>, Consume(w)
  PROVE  PipeOK'
<1>1. Tail(pipe[w]) \in Seq(Message)
  BY HeadIsMessage
<1> QED
  BY <1>1 DEF PipeOK, Consume

(* A reader that takes a record of its type.                                 *)
LEMMA TurnKeeps ==
  ASSUME ReaderOK, NEW w \in Workers, NEW r \in Reader, Turn(w, r)
  PROVE  ReaderOK'
  BY DEF ReaderOK, Turn

(* A reader between two settlements.                                         *)
LEMMA ReaderAtKeeps ==
  ASSUME ReaderOK, NEW w, NEW p \in ReaderPlaces, Turn(w, ReaderAt(p))
  PROVE  ReaderOK'
<1>1. ReaderAt(p) \in Reader
  BY DEF ReaderAt, Reader, Settled
<1> QED
  BY <1>1 DEF ReaderOK, Turn

(* The first half of settle: the reader is given a run and an outcome.       *)
LEMMA SettlesKeeps ==
  ASSUME ReaderOK, SharedOK, NEW w \in Workers, NEW j \in Runs \cup {None},
         NEW o \in Settled, Settles(w, j, o)
  PROVE  ReaderOK' /\ pending' \subseteq Runs
<1> DEFINE place == IF j \in pending THEN "storing" ELSE "committing"
           what  == IF o = "Completed" /\ j \notin pending THEN "Failed" ELSE o
           r     == [reader[w] EXCEPT !.at = place, !.run = j, !.outcome = what]
<1>1. place \in ReaderPlaces /\ what \in Settled
  BY DEF ReaderPlaces, Settled
<1>2. reader[w] \in Reader
  BY DEF ReaderOK
<1> HIDE DEF place, what
<1>3. r \in Reader
  BY <1>1, <1>2 DEF Reader
<1>4. Turn(w, r) /\ pending' = pending \ {j}
  BY DEF Settles, place, what
<1> HIDE DEF r
<1> QED
  BY <1>3, <1>4, TurnKeeps DEF SharedOK

-----------------------------------------------------------------------------
(* Every action keeps the types.                                              *)

(* A call into the service.                                                  *)
LEMMA CallsKeepTypes ==
  ASSUME TypeOK, BegunIsNamed, NEW c \in Callers, Calls(c)
  PROVE  TypeOK' /\ BegunIsNamed'
<1>0. CallerOK /\ ProcOK /\ PipeOK /\ ReaderOK /\ StateOK /\ StoreOK /\ SharedOK
  BY TypeParts
<1>1. caller[c] \in Caller
  BY <1>0 DEF CallerOK
<1>2. CASE StartWorker(c)
  <2>1. CallerOK' /\ BegunIsNamed'
    BY <1>0, <1>2, GoKeeps DEF StartWorker, CallerPlaces
  <2>2. ProcOK' /\ PipeOK' /\ ReaderOK' /\ StateOK' /\ StoreOK' /\ SharedOK'
    BY <1>0, <1>2 DEF StartWorker, shared, ProcOK, PipeOK, ReaderOK, StateOK, StoreOK, SharedOK
  <2> QED
    BY <2>1, <2>2, TypePartsNext
<1>3. CASE BeginRun(c)
  <2>1. begun' \in Runs
    BY <1>0, <1>3, ServiceAssumption DEF BeginRun, StoreOK
  <2>2. [caller[c] EXCEPT !.at = "begun", !.run = begun'] \in Caller
    BY <1>1, <2>1 DEF Caller, CallerPlaces
  <2>3. [caller[c] EXCEPT !.at = "begun", !.run = begun'].run = begun'
    BY <1>1 DEF Caller
  <2>4. CallerOK' /\ BegunIsNamed'
    <3>1. CASE Become(c, [caller[c] EXCEPT !.at = "begun", !.run = begun'])
      <4> DEFINE r == [caller[c] EXCEPT !.at = "begun", !.run = begun']
      <4>1. r \in Caller /\ r.run \in Runs /\ Become(c, r)
        BY <2>1, <2>2, <2>3, <3>1
      <4> HIDE DEF r
      <4> QED
        BY <1>0, <4>1, BecomeKeeps
    <3>2. CASE UNCHANGED caller
      BY <1>0, <3>2 DEF CallerOK, BegunIsNamed, At
    <3> QED
      BY <1>3, <3>1, <3>2 DEF BeginRun
  <2>5. StoreOK'
    BY <1>0, <1>3, <2>1 DEF BeginRun, StoreOK, Finalized
  <2>6. ProcOK' /\ PipeOK' /\ ReaderOK' /\ StateOK' /\ SharedOK'
    BY <1>0, <1>3 DEF BeginRun, shared, ProcOK, PipeOK, ReaderOK, StateOK, SharedOK
  <2> QED
    BY <2>4, <2>5, <2>6, TypePartsNext
<1>4. CASE CancelRun(c)
  <2>1. PICK j \in Runs : Become(c, [caller[c] EXCEPT !.at = "cancelling", !.run = j])
    BY <1>4 DEF CancelRun
  <2> DEFINE r == [caller[c] EXCEPT !.at = "cancelling", !.run = j]
  <2>2. r \in Caller /\ r.at # "begun"
    BY <1>1 DEF Caller, CallerPlaces
  <2>3. CallerOK' /\ BegunIsNamed'
    <3> HIDE DEF r
    <3> QED
      BY <1>0, <2>1, <2>2, BecomeKeeps DEF r
  <2>4. ProcOK' /\ PipeOK' /\ ReaderOK' /\ StateOK' /\ StoreOK' /\ SharedOK'
    BY <1>0, <1>4 DEF CancelRun, shared, ProcOK, PipeOK, ReaderOK, StateOK, StoreOK, SharedOK
  <2> QED
    BY <2>3, <2>4, TypePartsNext
<1>5. CASE Shutdown(c)
  <2> DEFINE place == IF active = None THEN "closing" ELSE "cancelling"
             r == [caller[c] EXCEPT !.at = place, !.run = active, !.next = "closing"]
  <2>1. place \in CallerPlaces \ {"begun"}
    BY DEF CallerPlaces
  <2> HIDE DEF place
  <2>2. r \in Caller /\ r.at # "begun"
    BY <1>0, <1>1, <2>1 DEF Caller, SharedOK
  <2>3. Become(c, r)
    BY <1>5 DEF Shutdown, place
  <2>4. CallerOK' /\ BegunIsNamed'
    <3> HIDE DEF r
    <3> QED
      BY <1>0, <2>2, <2>3, BecomeKeeps
  <2>5. ProcOK' /\ PipeOK' /\ ReaderOK' /\ StateOK' /\ StoreOK' /\ SharedOK'
    BY <1>0, <1>5 DEF Shutdown, ProcOK, PipeOK, ReaderOK, StateOK, StoreOK, SharedOK
  <2> QED
    BY <2>4, <2>5, TypePartsNext
<1> QED
  BY <1>2, <1>3, <1>4, <1>5 DEF Calls

(* A step of a worker process.                                               *)
LEMMA WorkerKeepsTypes ==
  ASSUME TypeOK, BegunIsNamed, NEW w \in Workers, WorkerStep(w)
  PROVE  TypeOK' /\ BegunIsNamed'
<1>0. CallerOK /\ ProcOK /\ PipeOK /\ ReaderOK /\ StateOK /\ StoreOK /\ SharedOK
  BY TypeParts
<1>1. proc[w] \in Process
  BY <1>0 DEF ProcOK
<1>2. ASSUME Doing(w) # None, NEW k \in {"Progress"} \cup Outcomes
      PROVE  Msg(k, Doing(w)) \in Message
  BY <1>1, <1>2 DEF Doing, Process, Msg, Message
<1>3. UNCHANGED procFrame => /\ CallerOK' /\ ReaderOK' /\ StateOK' /\ StoreOK' /\ SharedOK'
                             /\ BegunIsNamed'
  BY <1>0 DEF procFrame, shared, CallerOK, ReaderOK, StateOK, StoreOK, SharedOK,
              BegunIsNamed, At
<1>4. CASE WorkerReports(w)
  <2>1. PipeOK'
    BY <1>0, <1>2, <1>4, PutKeeps DEF WorkerReports
  <2>2. ProcOK' /\ UNCHANGED procFrame
    BY <1>0, <1>4 DEF WorkerReports, ProcOK
  <2> QED
    BY <1>3, <2>1, <2>2, TypePartsNext
<1>5. CASE WorkerAnswers(w)
  <2>1. PICK k \in Outcomes : Put(w, Msg(k, Doing(w)))
    BY <1>5 DEF WorkerAnswers
  <2>2. PipeOK'
    BY <1>0, <1>2, <1>5, <2>1, PutKeeps DEF WorkerAnswers
  <2>3. [proc[w] EXCEPT !.doing = None, !.told = FALSE] \in Process
    BY <1>1 DEF Process
  <2>4. ProcOK' /\ UNCHANGED procFrame
    BY <1>0, <1>5, <2>3, ChangeKeeps DEF WorkerAnswers
  <2> QED
    BY <1>3, <2>2, <2>4, TypePartsNext
<1>6. CASE WorkerExits(w) \/ WorkerCrashes(w)
  <2>1. Kill(w) /\ UNCHANGED pipe /\ UNCHANGED procFrame
    BY <1>6 DEF WorkerExits, WorkerCrashes
  <2>2. ProcOK' /\ PipeOK'
    BY <1>0, <2>1, KillKeeps DEF PipeOK
  <2> QED
    BY <1>3, <2>1, <2>2, TypePartsNext
<1> QED
  BY <1>4, <1>5, <1>6 DEF WorkerStep

(* A step of a call already made.                                            *)
LEMMA ContinuesKeepTypes ==
  ASSUME TypeOK, BegunIsNamed, NEW c \in Callers, Continues(c)
  PROVE  TypeOK' /\ BegunIsNamed'
<1>0. CallerOK /\ ProcOK /\ PipeOK /\ ReaderOK /\ StateOK /\ StoreOK /\ SharedOK
  BY TypeParts
<1>1. caller[c] \in Caller
  BY <1>0 DEF CallerOK
<1>2. CASE Spawn(c)
  <2>1. ASSUME NEW w \in Workers,
               Become(c, [caller[c] EXCEPT !.at = "installing", !.worker = w]),
               Change(w, [NoProcess EXCEPT !.up = TRUE, !.open = TRUE])
        PROVE  CallerOK' /\ BegunIsNamed' /\ ProcOK'
    <3> DEFINE r == [caller[c] EXCEPT !.at = "installing", !.worker = w]
    <3>1. r \in Caller /\ r.at # "begun"
      BY <1>1 DEF Caller, CallerPlaces
    <3>2. [NoProcess EXCEPT !.up = TRUE, !.open = TRUE] \in Process
      BY DEF NoProcess, Process
    <3> HIDE DEF r
    <3>3. CallerOK' /\ BegunIsNamed'
      BY <1>0, <2>1, <3>1, BecomeKeeps DEF r
    <3> QED
      BY <1>0, <2>1, <3>2, <3>3, ChangeKeeps
  <2>2. ASSUME Return(c), UNCHANGED proc
        PROVE  CallerOK' /\ BegunIsNamed' /\ ProcOK'
    <3>1. CallerOK' /\ BegunIsNamed'
      BY <1>0, <2>2, ReturnKeeps
    <3>2. ProcOK'
      BY <1>0, <2>2 DEF ProcOK
    <3> QED
      BY <3>1, <3>2
  <2>3. CallerOK' /\ BegunIsNamed' /\ ProcOK'
    <3>1. \/ \E w \in Workers :
               /\ Become(c, [caller[c] EXCEPT !.at = "installing", !.worker = w])
               /\ Change(w, [NoProcess EXCEPT !.up = TRUE, !.open = TRUE])
          \/ Return(c) /\ UNCHANGED proc
      BY <1>2 DEF Spawn
    <3> QED
      BY <2>1, <2>2, <3>1
  <2>4. PipeOK' /\ ReaderOK' /\ StateOK' /\ StoreOK' /\ SharedOK'
    BY <1>0, <1>2 DEF Spawn, shared, PipeOK, ReaderOK, StateOK, StoreOK, SharedOK
  <2> QED
    BY <2>3, <2>4, TypePartsNext
<1>3. CASE InstallWorker(c)
  <2>1. CallerOK' /\ BegunIsNamed'
    BY <1>0, <1>3, GoKeeps DEF InstallWorker, CallerPlaces
  <2>2. ProcOK'
    BY <1>0, <1>3, DropHandleKeeps DEF InstallWorker
  <2>3. SharedOK'
    BY <1>0, <1>1, <1>3 DEF InstallWorker, SharedOK, Caller
  <2>4. PipeOK' /\ ReaderOK' /\ StateOK' /\ StoreOK'
    BY <1>0, <1>3 DEF InstallWorker, PipeOK, ReaderOK, StateOK, StoreOK
  <2> QED
    BY <2>1, <2>2, <2>3, <2>4, TypePartsNext
<1>4. CASE AttachReader(c)
  <2>1. CallerOK' /\ BegunIsNamed'
    BY <1>0, <1>4, GoKeeps DEF AttachReader, CallerPlaces
  <2>2. ReaderOK'
    BY <1>0, <1>4, ReaderAtKeeps DEF AttachReader, ReaderPlaces
  <2>3. ProcOK' /\ PipeOK' /\ StateOK' /\ StoreOK' /\ SharedOK'
    BY <1>0, <1>4 DEF AttachReader, shared, ProcOK, PipeOK, StateOK, StoreOK, SharedOK
  <2> QED
    BY <2>1, <2>2, <2>3, TypePartsNext
<1>5. CASE SlotReader(c)
  <2>1. CallerOK' /\ BegunIsNamed'
    BY <1>0, <1>5, ReturnKeeps DEF SlotReader
  <2>2. SharedOK'
    BY <1>0, <1>1, <1>5 DEF SlotReader, SharedOK, Caller, shared
  <2>3. ProcOK' /\ PipeOK' /\ ReaderOK' /\ StateOK' /\ StoreOK'
    BY <1>0, <1>5 DEF SlotReader, shared, ProcOK, PipeOK, ReaderOK, StateOK, StoreOK
  <2> QED
    BY <2>1, <2>2, <2>3, TypePartsNext
<1>6. CASE RefuseRun(c)
  <2>1. CallerOK' /\ BegunIsNamed'
    BY <1>0, <1>6, ReturnKeeps DEF RefuseRun
  <2>2. ProcOK' /\ PipeOK' /\ ReaderOK' /\ StateOK' /\ StoreOK' /\ SharedOK'
    BY <1>0, <1>6 DEF RefuseRun, shared, ProcOK, PipeOK, ReaderOK, StateOK, StoreOK, SharedOK
  <2> QED
    BY <2>1, <2>2, TypePartsNext
<1>7. CASE AdmitRun(c)
  <2>1. caller[c].run \in Runs
    BY <1>7 DEF AdmitRun, BegunIsNamed
  <2>2. worker \in Workers
    BY <1>0, <1>7 DEF AdmitRun, MayAdmit, SharedOK
  <2>3. [proc[worker] EXCEPT !.doing = caller[c].run, !.told = FALSE] \in Process
    BY <1>0, <2>1, <2>2 DEF ProcOK, Process
  <2>4. ProcOK' /\ CallerOK' /\ BegunIsNamed'
    <3>1. CASE Reachable(worker)
      <4>1. Change(worker, [proc[worker] EXCEPT !.doing = caller[c].run, !.told = FALSE])
            /\ Go(c, "admitted")
        BY <1>7, <3>1 DEF AdmitRun
      <4> QED
        BY <1>0, <2>2, <2>3, <4>1, ChangeKeeps, GoKeeps DEF CallerPlaces
    <3>2. CASE ~Reachable(worker)
      <4>1. UNCHANGED proc /\ Return(c)
        BY <1>7, <3>2 DEF AdmitRun
      <4> QED
        BY <1>0, <4>1, ReturnKeeps DEF ProcOK
    <3> QED
      BY <3>1, <3>2
  <2>5. StateOK'
    BY <1>0, <1>7 DEF AdmitRun, StateOK, JobStates, Unsettled
  <2>6. SharedOK'
    BY <1>0, <1>7, <2>1 DEF AdmitRun, SharedOK
  <2>7. PipeOK' /\ ReaderOK' /\ StoreOK'
    BY <1>0, <1>7 DEF AdmitRun, PipeOK, ReaderOK, StoreOK
  <2> QED
    BY <2>4, <2>5, <2>6, <2>7, TypePartsNext
<1>8. CASE SetInitialState(c)
  <2>1. CallerOK' /\ BegunIsNamed'
    BY <1>0, <1>8, ReturnKeeps DEF SetInitialState
  <2>2. StateOK'
    BY <1>0, <1>8 DEF SetInitialState, InitialState, StateOK, JobStates, Unsettled
  <2>3. ProcOK' /\ PipeOK' /\ ReaderOK' /\ StoreOK' /\ SharedOK'
    BY <1>0, <1>8 DEF SetInitialState, ProcOK, PipeOK, ReaderOK, StoreOK, SharedOK
  <2> QED
    BY <2>1, <2>2, <2>3, TypePartsNext
<1>9. CASE MarkCancelling(c)
  <2>1. CallerOK' /\ BegunIsNamed' /\ StateOK'
    <3>1. CASE IsTerminal(caller[c].run)
      <4>1. CancelDone(c) /\ UNCHANGED state
        BY <1>9, <3>1 DEF MarkCancelling
      <4> QED
        BY <1>0, <4>1, CancelDoneKeeps DEF StateOK
    <3>2. CASE ~IsTerminal(caller[c].run)
      <4> DEFINE known == caller[c].run \in byRequest
                 r == [caller[c] EXCEPT !.at = "sending", !.known = known]
      <4>1. Become(c, r) /\ state' = [state EXCEPT ![caller[c].run] = "Cancelling"]
        BY <1>9, <3>2 DEF MarkCancelling
      <4>2. known \in BOOLEAN
        OBVIOUS
      <4> HIDE DEF known
      <4>3. r \in Caller /\ r.at # "begun"
        BY <1>1, <4>2 DEF Caller, CallerPlaces
      <4> HIDE DEF r
      <4>4. CallerOK' /\ BegunIsNamed'
        BY <1>0, <4>1, <4>3, BecomeKeeps
      <4> QED
        BY <1>0, <4>1, <4>4 DEF StateOK, JobStates, Unsettled
    <3> QED
      BY <3>1, <3>2
  <2>2. ProcOK' /\ PipeOK' /\ ReaderOK' /\ StoreOK' /\ SharedOK'
    BY <1>0, <1>9 DEF MarkCancelling, ProcOK, PipeOK, ReaderOK, StoreOK, SharedOK
  <2> QED
    BY <2>1, <2>2, TypePartsNext
<1>10. CASE SendCancel(c)
  <2>1. CallerOK' /\ BegunIsNamed'
    BY <1>0, <1>10, CancelDoneKeeps DEF SendCancel
  <2>2. ProcOK'
    <3>1. CASE caller[c].known /\ worker # None /\ Doing(worker) = caller[c].run
      <4>1. worker \in Workers
        BY <1>0, <3>1 DEF SharedOK
      <4>2. [proc[worker] EXCEPT !.told = TRUE] \in Process
        BY <1>0, <4>1 DEF ProcOK, Process
      <4> QED
        BY <1>0, <1>10, <3>1, <4>1, <4>2, ChangeKeeps DEF SendCancel
    <3>2. CASE ~(caller[c].known /\ worker # None /\ Doing(worker) = caller[c].run)
      BY <1>0, <1>10, <3>2 DEF SendCancel, ProcOK
    <3> QED
      BY <3>1, <3>2
  <2>3. PipeOK' /\ ReaderOK' /\ StateOK' /\ StoreOK' /\ SharedOK'
    BY <1>0, <1>10 DEF SendCancel, shared, PipeOK, ReaderOK, StateOK, StoreOK, SharedOK
  <2> QED
    BY <2>1, <2>2, <2>3, TypePartsNext
<1>11. CASE TerminateWorker(c)
  <2>1. CallerOK' /\ BegunIsNamed'
    BY <1>0, <1>11, CancelDoneKeeps DEF TerminateWorker
  <2>2. ProcOK'
    BY <1>0, <1>11, KillKeeps DEF TerminateWorker, SharedOK
  <2>3. PipeOK' /\ ReaderOK' /\ StateOK' /\ StoreOK' /\ SharedOK'
    BY <1>0, <1>11 DEF TerminateWorker, PipeOK, ReaderOK, StateOK, StoreOK, SharedOK
  <2> QED
    BY <2>1, <2>2, <2>3, TypePartsNext
<1>12. CASE CloseInput(c)
  <2>1. CallerOK' /\ BegunIsNamed'
    BY <1>0, <1>12, GoKeeps DEF CloseInput, CallerPlaces
  <2>2. ProcOK'
    BY <1>0, <1>12, DropHandleKeeps DEF CloseInput
  <2>3. PipeOK' /\ ReaderOK' /\ StateOK' /\ StoreOK' /\ SharedOK'
    BY <1>0, <1>12 DEF CloseInput, shared, PipeOK, ReaderOK, StateOK, StoreOK, SharedOK
  <2> QED
    BY <2>1, <2>2, <2>3, TypePartsNext
<1>13. CASE TakeReader(c)
  <2> DEFINE place == IF readerSlot = None THEN "taking" ELSE "joining"
             r == [caller[c] EXCEPT !.at = place, !.worker = readerSlot]
  <2>1. place \in CallerPlaces \ {"begun"}
    BY DEF CallerPlaces
  <2>2. Become(c, r)
    BY <1>13 DEF TakeReader
  <2> HIDE DEF place
  <2>3. r \in Caller /\ r.at # "begun"
    BY <1>0, <1>1, <2>1 DEF Caller, SharedOK
  <2>4. CallerOK' /\ BegunIsNamed'
    <3> HIDE DEF r
    <3> QED
      BY <1>0, <2>2, <2>3, BecomeKeeps
  <2>5. SharedOK'
    BY <1>0, <1>13 DEF TakeReader, SharedOK, shared
  <2>6. ProcOK' /\ PipeOK' /\ ReaderOK' /\ StateOK' /\ StoreOK'
    BY <1>0, <1>13 DEF TakeReader, shared, ProcOK, PipeOK, ReaderOK, StateOK, StoreOK
  <2> QED
    BY <2>4, <2>5, <2>6, TypePartsNext
<1>14. CASE JoinReader(c)
  <2>1. CallerOK' /\ BegunIsNamed'
    BY <1>0, <1>14, GoKeeps DEF JoinReader, CallerPlaces
  <2>2. ProcOK' /\ PipeOK' /\ ReaderOK' /\ StateOK' /\ StoreOK' /\ SharedOK'
    BY <1>0, <1>14 DEF JoinReader, shared, ProcOK, PipeOK, ReaderOK, StateOK, StoreOK, SharedOK
  <2> QED
    BY <2>1, <2>2, TypePartsNext
<1>15. CASE TakeWorker(c)
  <2>1. CallerOK' /\ BegunIsNamed'
    BY <1>0, <1>15, ReturnKeeps DEF TakeWorker
  <2>2. ProcOK'
    BY <1>0, <1>15, KillAndDropKeeps DEF TakeWorker
  <2>3. PipeOK' /\ ReaderOK' /\ StateOK' /\ StoreOK' /\ SharedOK'
    BY <1>0, <1>15 DEF TakeWorker, PipeOK, ReaderOK, StateOK, StoreOK, SharedOK
  <2> QED
    BY <2>1, <2>2, <2>3, TypePartsNext
<1> QED
  BY <1>2, <1>3, <1>4, <1>5, <1>6, <1>7, <1>8, <1>9, <1>10, <1>11, <1>12, <1>13, <1>14,
     <1>15 DEF Continues

(* The destructor.                                                           *)
LEMMA DropKeepsTypes ==
  ASSUME TypeOK, BegunIsNamed, DropService
  PROVE  TypeOK' /\ BegunIsNamed'
<1>0. CallerOK /\ ProcOK /\ PipeOK /\ ReaderOK /\ StateOK /\ StoreOK /\ SharedOK
  BY TypeParts
<1>1. [Idle EXCEPT !.at = "gone"] \in Caller /\ [Idle EXCEPT !.at = "gone"].at = "gone"
  BY DEF Idle, Caller, CallerPlaces
<1>2. CallerOK' /\ BegunIsNamed'
  BY <1>1 DEF DropService, CallerOK, BegunIsNamed, At
<1>3. ProcOK'
  BY <1>0, KillAndDropKeeps DEF DropService
<1>4. PipeOK' /\ ReaderOK' /\ StateOK' /\ StoreOK' /\ SharedOK'
  BY <1>0 DEF DropService, PipeOK, ReaderOK, StateOK, StoreOK, SharedOK
<1> QED
  BY <1>2, <1>3, <1>4, TypePartsNext

(* A step of a reader thread.                                                *)
LEMMA ReaderKeepsTypes ==
  ASSUME TypeOK, BegunIsNamed, NEW w \in Workers, ReaderStep(w)
  PROVE  TypeOK' /\ BegunIsNamed'
<1>0. CallerOK /\ ProcOK /\ PipeOK /\ ReaderOK /\ StateOK /\ StoreOK /\ SharedOK
  BY TypeParts
<1>1. reader[w] \in Reader
  BY <1>0 DEF ReaderOK
<1>2. UNCHANGED caller
  BY DEF ReaderStep, ReadProgress, ReadOutcome, WorkerGone, SettleLost, StoreRun,
         CommitSettlement
<1>3. CallerOK' /\ BegunIsNamed'
  BY <1>0, <1>2 DEF CallerOK, BegunIsNamed, At
<1>4. CASE ReadProgress(w)
  <2>1. PipeOK'
    BY <1>0, <1>4, ConsumeKeeps DEF ReadProgress, Arrives
  <2>2. StateOK'
    BY <1>0, <1>4 DEF ReadProgress, StateOK, JobStates, Unsettled
  <2>3. ProcOK' /\ ReaderOK' /\ StoreOK' /\ SharedOK'
    BY <1>0, <1>4 DEF ReadProgress, ProcOK, ReaderOK, StoreOK, SharedOK
  <2> QED
    BY <1>3, <2>1, <2>2, <2>3, TypePartsNext
<1>5. CASE ReadOutcome(w)
  <2> DEFINE m == Head(pipe[w])
  <2>1. PipeOK'
    BY <1>0, <1>5, ConsumeKeeps DEF ReadOutcome, Arrives
  <2>2. m.run \in Runs /\ m.kind \in Settled
    BY <1>0, <1>5, HeadIsMessage DEF ReadOutcome, Arrives, Message, Outcomes, Settled
  <2>3. ReaderOK' /\ pending' \subseteq Runs
    <3>1. CASE Moves(m.run)
      BY <1>0, <1>5, <2>2, <3>1, SettlesKeeps DEF ReadOutcome
    <3>2. CASE ~Moves(m.run)
      BY <1>0, <1>5, <3>2 DEF ReadOutcome, ReaderOK, SharedOK
    <3> QED
      BY <3>1, <3>2
  <2>4. ProcOK' /\ StateOK' /\ StoreOK' /\ SharedOK'
    BY <1>0, <1>5, <2>3 DEF ReadOutcome, ProcOK, StateOK, StoreOK, SharedOK
  <2> QED
    BY <1>3, <2>1, <2>3, <2>4, TypePartsNext
<1>6. CASE WorkerGone(w)
  <2>1. ProcOK'
    BY <1>0, <1>6, DropHandleKeeps DEF WorkerGone
  <2>2. PipeOK'
    BY <1>0, <1>6 DEF WorkerGone, PipeOK
  <2>3. ReaderOK'
    <3>1. CASE active = None
      BY <1>0, <1>6, <3>1, ReaderAtKeeps DEF WorkerGone, ReaderPlaces
    <3>2. CASE active # None
      <4> DEFINE r == [at |-> "settling", run |-> active, outcome |-> LossOutcome, gone |-> TRUE]
      <4>1. r \in Reader
        BY <1>0 DEF SharedOK, LossOutcome, Reader, ReaderPlaces, Settled
      <4>2. Turn(w, r)
        BY <1>6, <3>2 DEF WorkerGone
      <4> HIDE DEF r
      <4> QED
        BY <1>0, <4>1, <4>2, TurnKeeps
    <3> QED
      BY <3>1, <3>2
  <2>4. StateOK' /\ StoreOK' /\ SharedOK'
    BY <1>0, <1>6 DEF WorkerGone, StateOK, StoreOK, SharedOK
  <2> QED
    BY <1>3, <2>1, <2>2, <2>3, <2>4, TypePartsNext
<1>7. CASE SettleLost(w)
  <2>1. ReaderOK' /\ pending' \subseteq Runs
    <3>1. CASE IsTerminal(reader[w].run)
      BY <1>0, <1>7, <3>1, ReaderAtKeeps DEF SettleLost, ReaderPlaces, SharedOK
    <3>2. CASE ~IsTerminal(reader[w].run)
      <4>1. reader[w].run \in Runs \cup {None} /\ reader[w].outcome \in Settled
        BY <1>1 DEF Reader
      <4> QED
        BY <1>0, <1>7, <3>2, <4>1, SettlesKeeps DEF SettleLost
    <3> QED
      BY <3>1, <3>2
  <2>2. ProcOK' /\ PipeOK' /\ StateOK' /\ StoreOK' /\ SharedOK'
    BY <1>0, <1>7, <2>1 DEF SettleLost, ProcOK, PipeOK, StateOK, StoreOK, SharedOK
  <2> QED
    BY <1>3, <2>1, <2>2, TypePartsNext
<1>8. CASE StoreRun(w)
  <2>1. [reader[w] EXCEPT !.at = "committing"] \in Reader
        /\ [reader[w] EXCEPT !.at = "committing", !.outcome = IfNotStored(@)] \in Reader
    BY <1>1 DEF Reader, ReaderPlaces, IfNotStored, Settled
  <2>2. ReaderOK'
    BY <1>0, <1>8, <2>1, TurnKeeps DEF StoreRun, Step
  <2>3. Records(reader[w].outcome) \in {"partial"} \cup Finalized
    BY <1>1 DEF Reader, Records, Settled, Finalized
  <2>4. StoreOK'
    BY <1>0, <1>8, <2>3 DEF StoreRun, StoreOK, shared
  <2>5. ProcOK' /\ PipeOK' /\ StateOK' /\ SharedOK'
    BY <1>0, <1>8 DEF StoreRun, shared, ProcOK, PipeOK, StateOK, SharedOK
  <2> QED
    BY <1>3, <2>2, <2>4, <2>5, TypePartsNext
<1>9. CASE CommitSettlement(w)
  <2>1. ReaderOK'
    BY <1>0, <1>9, ReaderAtKeeps DEF CommitSettlement, ReaderPlaces
  <2>2. StateOK'
    BY <1>0, <1>1, <1>9 DEF CommitSettlement, StateOK, JobStates, Reader
  <2>3. SharedOK'
    BY <1>0, <1>9 DEF CommitSettlement, FreeSlot, SharedOK
  <2>4. ProcOK' /\ PipeOK' /\ StoreOK'
    BY <1>0, <1>9 DEF CommitSettlement, ProcOK, PipeOK, StoreOK
  <2> QED
    BY <1>3, <2>1, <2>2, <2>3, <2>4, TypePartsNext
<1> QED
  BY <1>4, <1>5, <1>6, <1>7, <1>8, <1>9 DEF ReaderStep

(* A step of something else.                                                 *)
LEMMA StutterKeepsTypes ==
  ASSUME TypeOK, BegunIsNamed, UNCHANGED vars
  PROVE  TypeOK' /\ BegunIsNamed'
  BY DEF TypeOK, BegunIsNamed, At, vars, shared

(* The types are inductive together with BegunIsNamed.                         *)
LEMMA StepKeepsTypes ==
  ASSUME TypeOK, BegunIsNamed, [Next]_vars
  PROVE  TypeOK' /\ BegunIsNamed'
  BY CallsKeepTypes, ContinuesKeepTypes, DropKeepsTypes, WorkerKeepsTypes,
     ReaderKeepsTypes, StutterKeepsTypes DEF Next

(* Whatever callers, readers and worker processes do in whatever order, the     *)
(* tables of `Shared`, the store, the processes, their pipes and the threads    *)
(* keep to their types.                                                       *)
THEOREM TypesAreKept == Spec => []TypeOK
<1>1. Spec => [](TypeOK /\ BegunIsNamed)
  BY InitTypeOK, StepKeepsTypes, PTL DEF Spec
<1> QED
  BY <1>1, PTL

-----------------------------------------------------------------------------
(* The single slot.                                                          *)

(* A state that is not a settled one may be written at any time.               *)
LEMMA UnsettledKeepsSlot ==
  ASSUME StateOK, SharedOK, SlotAgreesWithJobs, NEW j, NEW s \in Unsettled,
         UNCHANGED <<active, byRequest>>, state' = [state EXCEPT ![j] = s]
  PROVE  SlotAgreesWithJobs'
  BY DEF SlotAgreesWithJobs, StateOK, SharedOK

(* Nor does a step that leaves the three tables alone disturb them.          *)
LEMMA FrameKeepsSlot ==
  ASSUME SlotAgreesWithJobs, UNCHANGED <<active, byRequest, state>>
  PROVE  SlotAgreesWithJobs'
  BY DEF SlotAgreesWithJobs

(* A caller fills the slot only when it is empty, in one critical section.   *)
LEMMA CallerKeepsSlot ==
  ASSUME TypeOK, BegunIsNamed, SlotAgreesWithJobs, NEW c \in Callers,
         Calls(c) \/ Continues(c)
  PROVE  SlotAgreesWithJobs'
<1>0. StateOK /\ SharedOK
  BY TypeParts
<1>1. CASE AdmitRun(c)
  <2>1. caller[c].run \in Runs /\ active = None
    BY <1>1 DEF AdmitRun, BegunIsNamed, MayAdmit
  <2>2. active' = caller[c].run /\ byRequest' = {caller[c].run}
    BY <1>1, <2>1 DEF AdmitRun, SlotAgreesWithJobs
  <2>3. state'[caller[c].run] = "Queued"
    BY <1>0, <1>1, <2>1 DEF AdmitRun, StateOK
  <2> QED
    BY <2>1, <2>2, <2>3 DEF SlotAgreesWithJobs, Unsettled
<1>2. CASE SetInitialState(c)
  <2>1. InitialState(caller[c].run) \in Unsettled
    BY DEF InitialState, Unsettled
  <2> QED
    BY <1>0, <1>2, <2>1, UnsettledKeepsSlot DEF SetInitialState
<1>3. CASE MarkCancelling(c)
  <2>1. \/ UNCHANGED state
        \/ state' = [state EXCEPT ![caller[c].run] = "Cancelling"]
    BY <1>3 DEF MarkCancelling
  <2>2. UNCHANGED <<active, byRequest>>
    BY <1>3 DEF MarkCancelling
  <2>3. "Cancelling" \in Unsettled
    BY DEF Unsettled
  <2> QED
    BY <1>0, <2>1, <2>2, <2>3, UnsettledKeepsSlot, FrameKeepsSlot
<1>4. CASE Calls(c)
  <2>1. UNCHANGED <<active, byRequest, state>>
    BY <1>4 DEF Calls, StartWorker, BeginRun, CancelRun, Shutdown, shared
  <2> QED
    BY <2>1, FrameKeepsSlot
<1>5. CASE \/ Spawn(c) \/ InstallWorker(c) \/ AttachReader(c) \/ SlotReader(c)
           \/ RefuseRun(c) \/ SendCancel(c) \/ TerminateWorker(c) \/ CloseInput(c)
           \/ TakeReader(c) \/ JoinReader(c) \/ TakeWorker(c)
  <2>1. UNCHANGED <<active, byRequest, state>>
    BY <1>5 DEF Spawn, InstallWorker, AttachReader, SlotReader, RefuseRun, SendCancel,
                TerminateWorker, CloseInput, TakeReader, JoinReader, TakeWorker, shared
  <2> QED
    BY <2>1, FrameKeepsSlot
<1> QED
  BY <1>1, <1>2, <1>3, <1>4, <1>5 DEF Continues

(* A reader frees the slot and the request together.                         *)
LEMMA ReaderKeepsSlot ==
  ASSUME TypeOK, SlotAgreesWithJobs, NEW w \in Workers, ReaderStep(w)
  PROVE  SlotAgreesWithJobs'
<1>0. StateOK /\ SharedOK
  BY TypeParts
<1>1. CASE ReadProgress(w)
  <2>1. \/ UNCHANGED state
        \/ state' = [state EXCEPT ![Head(pipe[w]).run] = "Running"]
    BY <1>1 DEF ReadProgress
  <2>2. UNCHANGED <<active, byRequest>>
    BY <1>1 DEF ReadProgress
  <2>3. "Running" \in Unsettled
    BY DEF Unsettled
  <2> QED
    BY <1>0, <2>1, <2>2, <2>3, UnsettledKeepsSlot, FrameKeepsSlot
<1>2. CASE CommitSettlement(w)
  <2> DEFINE j == reader[w].run
  <2>1. /\ state' = [state EXCEPT ![j] = reader[w].outcome]
        /\ active' = (IF active = j THEN None ELSE active)
        /\ byRequest' = byRequest \ {j}
    BY <1>2 DEF CommitSettlement, FreeSlot
  <2> HIDE DEF j
  <2>2. CASE active = j
    BY <2>1, <2>2 DEF SlotAgreesWithJobs
  <2>3. CASE active # j
    BY <1>0, <2>1, <2>3 DEF SlotAgreesWithJobs, StateOK, SharedOK
  <2> QED
    BY <2>2, <2>3
<1>3. CASE ReadOutcome(w) \/ WorkerGone(w) \/ SettleLost(w) \/ StoreRun(w)
  <2>1. UNCHANGED <<active, byRequest, state>>
    BY <1>3 DEF ReadOutcome, WorkerGone, SettleLost, StoreRun, shared
  <2> QED
    BY <2>1, FrameKeepsSlot
<1> QED
  BY <1>1, <1>2, <1>3 DEF ReaderStep

(* Every step keeps the slot, the requests and the jobs in agreement.        *)
LEMMA StepKeepsSlot ==
  ASSUME TypeOK, BegunIsNamed, SlotAgreesWithJobs, [Next]_vars
  PROVE  SlotAgreesWithJobs'
<1>1. ASSUME NEW w \in Workers, WorkerStep(w)
      PROVE  SlotAgreesWithJobs'
  BY <1>1, FrameKeepsSlot
     DEF WorkerStep, WorkerReports, WorkerAnswers, WorkerExits, WorkerCrashes,
         procFrame, shared
<1>2. CASE DropService
  BY <1>2, FrameKeepsSlot DEF DropService
<1>3. CASE UNCHANGED vars
  BY <1>3, FrameKeepsSlot DEF vars, shared
<1> QED
  BY <1>1, <1>2, <1>3, CallerKeepsSlot, ReaderKeepsSlot DEF Next

(* An answer is expected for the active run and for no other, and the active    *)
(* run has not settled: the slot, the request map and the job table, which       *)
(* the code keeps in three places, never disagree, for any number of callers    *)
(* and for two reader threads settling the same run.                           *)
THEOREM SlotAlwaysAgrees == Spec => []SlotAgreesWithJobs
<1> DEFINE Inv == TypeOK /\ BegunIsNamed /\ SlotAgreesWithJobs
<1>1. Init => Inv
  BY InitTypeOK DEF Init, SlotAgreesWithJobs
<1>2. Inv /\ [Next]_vars => Inv'
  BY StepKeepsTypes, StepKeepsSlot
<1>3. Spec => []Inv
  BY <1>1, <1>2, PTL DEF Spec
<1> QED
  BY <1>3, PTL

-----------------------------------------------------------------------------
(* The settlement of a run.  Its PendingRun, the right to finalize it, is held   *)
(* by the caller that opened the store entry, then by the job table, then by    *)
(* the reader that took it: by one of them at a time, and while it is held the   *)
(* run is not finalized.                                                     *)

Opens(c, j)  == At(c, "begun") /\ caller[c].run = j
Stores(w, j) == Place(w) = "storing" /\ reader[w].run = j

HeldIsPartial ==
  /\ \A j \in pending : store[j] = "partial"
  /\ \A c \in Callers : At(c, "begun") => store[caller[c].run] = "partial"
  /\ \A w \in Workers :
       Place(w) = "storing" => reader[w].run \in Runs /\ store[reader[w].run] = "partial"

HeldOnce ==
  \A j \in Runs :
    /\ \A c \in Callers : Opens(c, j) => j \notin pending
    /\ \A w \in Workers : Stores(w, j) => j \notin pending
    /\ \A c \in Callers, w \in Workers : ~(Opens(c, j) /\ Stores(w, j))
    /\ \A c, d \in Callers : Opens(c, j) /\ Opens(d, j) => c = d
    /\ \A v, w \in Workers : Stores(v, j) /\ Stores(w, j) => v = w

UnbegunIsAbsent == \A j \in Runs : j > begun => store[j] = "absent"

CommittedIsStored ==
  \A w \in Workers :
    Place(w) = "committing" /\ reader[w].outcome = "Completed"
      => reader[w].run \in Runs /\ store[reader[w].run] = "completed"

Settlement == /\ HeldIsPartial /\ HeldOnce /\ UnbegunIsAbsent
              /\ CommittedIsStored /\ CompletedIsStored

(* No caller opens an entry, no reader starts to store or to commit.           *)
CallersOpenNothing  == \A c \in Callers : At(c, "begun")' => caller'[c] = caller[c]
ReadersStoreNothing ==
  \A w \in Workers : reader'[w].at \in {"storing", "committing"} => reader'[w] = reader[w]
NothingCompletes    == \A j \in Runs : state'[j] = "Completed" => state[j] = "Completed"

(* A step that opens nothing, stores nothing and completes nothing.          *)
LEMMA FrameKeepsSettlement ==
  ASSUME Settlement, UNCHANGED <<store, begun, pending>>, CallersOpenNothing,
         ReadersStoreNothing, NothingCompletes
  PROVE  Settlement'
<1>1. HeldIsPartial'
  BY DEF Settlement, HeldIsPartial, CallersOpenNothing, ReadersStoreNothing, At, Place
<1>2. HeldOnce'
  <2>1. /\ \A c \in Callers, j \in Runs : Opens(c, j)' => Opens(c, j)
        /\ \A w \in Workers, j \in Runs : Stores(w, j)' => Stores(w, j)
    BY DEF CallersOpenNothing, ReadersStoreNothing, Opens, Stores, At, Place
  <2> QED
    BY <2>1 DEF Settlement, HeldOnce
<1>3. UnbegunIsAbsent'
  BY DEF Settlement, UnbegunIsAbsent
<1>4. CommittedIsStored'
  BY DEF Settlement, CommittedIsStored, ReadersStoreNothing, Place
<1>5. CompletedIsStored'
  BY DEF Settlement, CompletedIsStored, NothingCompletes
<1> QED
  BY <1>1, <1>2, <1>3, <1>4, <1>5 DEF Settlement

(* A caller that is not left with a store entry opens no entry.   *)
LEMMA BecomeOpensNothing ==
  ASSUME CallerOK, NEW c \in Callers, NEW r \in Caller, Become(c, r), r.at # "begun"
  PROVE  CallersOpenNothing
  BY DEF CallerOK, CallersOpenNothing, Become, At

(* A job that is moved to an unsettled state is not completed by it.         *)
LEMMA UnsettledCompletesNothing ==
  ASSUME StateOK, NEW j, NEW s \in Unsettled, state' = [state EXCEPT ![j] = s]
  PROVE  NothingCompletes
  BY DEF StateOK, NothingCompletes, Unsettled

(* The calls and continuations that open no entry and admit no run.            *)
LEMMA CallerOpensNothing ==
  ASSUME TypeOK, NEW c \in Callers, Calls(c) \/ Continues(c), ~BeginRun(c)
  PROVE  CallersOpenNothing
<1>1. caller[c] \in Caller /\ CallerOK
  BY DEF TypeOK, CallerOK
<1>2. ASSUME NEW p \in CallerPlaces \ {"begun"}, Go(c, p)
      PROVE  CallersOpenNothing
  <2>1. [caller[c] EXCEPT !.at = p] \in Caller /\ [caller[c] EXCEPT !.at = p].at = p
    BY <1>1 DEF Caller
  <2> QED
    BY <1>1, <1>2, <2>1, BecomeOpensNothing DEF Go
<1>3. ASSUME Return(c)
      PROVE  CallersOpenNothing
  BY <1>1, <1>3 DEF Return, Become, Idle, CallersOpenNothing, At, CallerOK
<1>4. ASSUME CancelDone(c)
      PROVE  CallersOpenNothing
  <2>1. caller[c].next # "begun"
    BY <1>1 DEF Caller
  <2> QED
    BY <1>1, <1>4, <2>1 DEF CancelDone, Become, Idle, CallersOpenNothing, At, CallerOK
<1>5. CASE Calls(c)
  <2>1. CASE CancelRun(c)
    BY <1>1, <2>1 DEF CancelRun, Become, CallersOpenNothing, At, CallerOK, Caller
  <2>2. CASE Shutdown(c)
    <3> DEFINE place == IF active = None THEN "closing" ELSE "cancelling"
    <3>1. Become(c, [caller[c] EXCEPT !.at = place, !.run = active, !.next = "closing"])
          /\ place # "begun"
      BY <2>2 DEF Shutdown
    <3> HIDE DEF place
    <3> QED
      BY <1>1, <3>1 DEF Become, CallersOpenNothing, At, CallerOK, Caller
  <2> QED
    BY <1>2, <1>5, <2>1, <2>2 DEF Calls, StartWorker, CallerPlaces
<1>6. CASE MarkCancelling(c)
  BY <1>1, <1>4, <1>6 DEF MarkCancelling, Become, CallersOpenNothing, At, CallerOK, Caller
<1>7. CASE Spawn(c) \/ TakeReader(c)
  BY <1>1, <1>3, <1>7 DEF Spawn, TakeReader, Become, CallersOpenNothing, At, CallerOK, Caller
<1>8. CASE SendCancel(c) \/ TerminateWorker(c)
  BY <1>4, <1>8 DEF SendCancel, TerminateWorker
<1>9. CASE \/ InstallWorker(c) \/ AttachReader(c) \/ SlotReader(c) \/ RefuseRun(c)
           \/ AdmitRun(c) \/ SetInitialState(c) \/ CloseInput(c) \/ JoinReader(c)
           \/ TakeWorker(c)
  <2>1. Return(c) \/ \E p \in CallerPlaces \ {"begun"} : Go(c, p)
    BY <1>9 DEF InstallWorker, AttachReader, SlotReader, RefuseRun, AdmitRun,
                SetInitialState, CloseInput, JoinReader, TakeWorker, CallerPlaces
  <2> QED
    BY <1>2, <1>3, <2>1
<1> QED
  BY <1>5, <1>6, <1>7, <1>8, <1>9 DEF Continues

(* A new entry belongs to the caller that opened it and to nobody else.         *)
LEMMA BeginKeepsSettlement ==
  ASSUME TypeOK, BegunIsNamed, Settlement, NEW c \in Callers, BeginRun(c)
  PROVE  Settlement'
<1> DEFINE b == begun + 1
<1>0. CallerOK /\ ReaderOK /\ StateOK /\ StoreOK /\ SharedOK
  BY TypeParts
<1>1. b \in Runs /\ begun' = b /\ store[b] = "absent" /\ begun \in Nat
  BY <1>0, ServiceAssumption DEF BeginRun, StoreOK, Settlement, UnbegunIsAbsent
<1>2. /\ UNCHANGED <<pending, reader, state>>
      /\ \/ UNCHANGED store
         \/ store' = [store EXCEPT ![b] = "partial"]
  BY <1>1 DEF BeginRun, shared
<1>3. /\ \A j \in Runs : j # b => store'[j] = store[j]
      /\ store'[b] \in {"absent", "partial"}
  BY <1>0, <1>1, <1>2 DEF StoreOK
<1> HIDE DEF b
<1>4. \A d \in Callers :
        At(d, "begun")' => \/ d = c /\ caller'[d].run = b /\ store'[b] = "partial"
                           \/ At(d, "begun") /\ caller'[d] = caller[d]
  <2>1. CASE UNCHANGED caller
    BY <2>1 DEF At
  <2>2. CASE /\ store' = [store EXCEPT ![b] = "partial"]
             /\ Become(c, [caller[c] EXCEPT !.at = "begun", !.run = b])
    BY <1>0, <1>1, <2>2 DEF Become, At, CallerOK, Caller, StoreOK
  <2> QED
    BY <1>1, <2>1, <2>2 DEF BeginRun
(* Nobody held the new run before.                                            *)
<1>5. /\ b \notin pending
      /\ \A d \in Callers : ~Opens(d, b)
      /\ \A w \in Workers : ~Stores(w, b)
  BY <1>1 DEF Settlement, HeldIsPartial, Opens, Stores
<1>6. HeldIsPartial'
  <2>1. \A j \in pending : store'[j] = "partial"
    BY <1>0, <1>3, <1>5 DEF Settlement, HeldIsPartial, SharedOK
  <2>2. \A d \in Callers : At(d, "begun")' => store'[caller'[d].run] = "partial"
    <3>1. ASSUME NEW d \in Callers, At(d, "begun")
          PROVE  store'[caller[d].run] = store[caller[d].run]
      <4>1. caller[d].run \in Runs /\ caller[d].run # b
        BY <1>5, <3>1 DEF BegunIsNamed, Opens
      <4> QED
        BY <1>3, <4>1
    <3> QED
      BY <1>4, <3>1 DEF Settlement, HeldIsPartial
  <2>3. \A w \in Workers :
          Place(w)' = "storing" => reader'[w].run \in Runs /\ store'[reader'[w].run] = "partial"
    BY <1>2, <1>3, <1>5 DEF Settlement, HeldIsPartial, Place, Stores
  <2> QED
    BY <1>2, <2>1, <2>2, <2>3 DEF HeldIsPartial
<1>7. HeldOnce'
  <2>1. /\ \A d \in Callers, j \in Runs : Opens(d, j)' => Opens(d, j) \/ (d = c /\ j = b)
        /\ \A w \in Workers, j \in Runs : Stores(w, j)' <=> Stores(w, j)
    BY <1>2, <1>4 DEF Opens, Stores, At, Place
  <2> QED
    BY <1>2, <1>5, <2>1 DEF Settlement, HeldOnce
<1>8. UnbegunIsAbsent'
  BY <1>0, <1>1, <1>3 DEF Settlement, UnbegunIsAbsent, b
<1>9. CommittedIsStored' /\ CompletedIsStored'
  BY <1>1, <1>2, <1>3 DEF Settlement, CommittedIsStored, CompletedIsStored, Place
<1> QED
  BY <1>6, <1>7, <1>8, <1>9 DEF Settlement

(* Admission moves the right to finalize from the caller to the job table.      *)
LEMMA AdmitKeepsSettlement ==
  ASSUME TypeOK, BegunIsNamed, Settlement, NEW c \in Callers, AdmitRun(c)
  PROVE  Settlement'
<1> DEFINE j == caller[c].run
<1>0. CallerOK /\ StateOK /\ SharedOK
  BY TypeParts
<1>1. j \in Runs /\ Opens(c, j) /\ store[j] = "partial"
  BY DEF AdmitRun, BegunIsNamed, Opens, Settlement, HeldIsPartial
<1>2. UNCHANGED <<store, begun, reader>> /\ pending' = pending \cup {j}
  BY DEF AdmitRun
<1>3. NothingCompletes
  <2>1. "Queued" \in Unsettled
    BY DEF Unsettled
  <2> QED
    BY <1>0, <2>1, UnsettledCompletesNothing DEF AdmitRun
<1>4. ~At(c, "begun")'
  BY <1>0 DEF AdmitRun, Go, Return, Become, Idle, At, CallerOK, Caller
<1>5. CallersOpenNothing
  <2>1. ~BeginRun(c)
    BY DEF AdmitRun, BeginRun, At
  <2> QED
    BY <2>1, CallerOpensNothing DEF Continues
<1> HIDE DEF j
<1>6. \A d \in Callers, i \in Runs : Opens(d, i)' => Opens(d, i) /\ d # c
  BY <1>4, <1>5 DEF CallersOpenNothing, Opens, At
<1>7. HeldIsPartial'
  BY <1>1, <1>2, <1>5 DEF Settlement, HeldIsPartial, CallersOpenNothing, At, Place
<1>8. HeldOnce'
  BY <1>1, <1>2, <1>6 DEF Settlement, HeldOnce, Stores, Place
<1>9. UnbegunIsAbsent' /\ CommittedIsStored' /\ CompletedIsStored'
  BY <1>2, <1>3 DEF Settlement, UnbegunIsAbsent, CommittedIsStored, CompletedIsStored,
                    NothingCompletes, Place
<1> QED
  BY <1>7, <1>8, <1>9 DEF Settlement

(* Every step of a caller.                                                   *)
LEMMA CallerKeepsSettlement ==
  ASSUME TypeOK, BegunIsNamed, Settlement, NEW c \in Callers, Calls(c) \/ Continues(c)
  PROVE  Settlement'
<1>0. ReaderOK /\ StateOK
  BY TypeParts
<1>1. CASE BeginRun(c)
  BY <1>1, BeginKeepsSettlement
<1>2. CASE AdmitRun(c)
  BY <1>2, AdmitKeepsSettlement
<1>3. CASE ~BeginRun(c) /\ ~AdmitRun(c)
  <2>1. UNCHANGED <<store, begun, pending>>
    BY <1>3 DEF Calls, StartWorker, CancelRun, Shutdown, Continues, Spawn, InstallWorker,
       AttachReader, SlotReader, RefuseRun, SetInitialState, MarkCancelling, SendCancel,
       TerminateWorker, CloseInput, TakeReader, JoinReader, TakeWorker, shared
  <2>2. CallersOpenNothing
    BY <1>3, CallerOpensNothing
  <2>3. ReadersStoreNothing
    <3>1. CASE AttachReader(c)
      BY <1>0, <3>1 DEF AttachReader, Turn, ReaderAt, ReadersStoreNothing, ReaderOK
    <3>2. CASE ~AttachReader(c)
      <4>1. UNCHANGED reader
        BY <1>3, <3>2 DEF Calls, StartWorker, CancelRun, Shutdown, Continues, Spawn,
           InstallWorker, SlotReader, RefuseRun, SetInitialState, MarkCancelling,
           SendCancel, TerminateWorker, CloseInput, TakeReader, JoinReader, TakeWorker
      <4> QED
        BY <4>1 DEF ReadersStoreNothing
    <3> QED
      BY <3>1, <3>2
  <2>4. NothingCompletes
    <3>1. \/ UNCHANGED state
          \/ \E s \in Unsettled, j \in {caller[c].run} : state' = [state EXCEPT ![j] = s]
      BY <1>3 DEF Calls, StartWorker, CancelRun, Shutdown, Continues, Spawn, InstallWorker,
         AttachReader, SlotReader, RefuseRun, SetInitialState, InitialState,
         MarkCancelling, SendCancel, TerminateWorker, CloseInput, TakeReader, JoinReader,
         TakeWorker, shared, Unsettled
    <3>2. CASE UNCHANGED state
      BY <3>2 DEF NothingCompletes
    <3> QED
      BY <1>0, <3>1, <3>2, UnsettledCompletesNothing
  <2> QED
    BY <2>1, <2>2, <2>3, <2>4, FrameKeepsSettlement
<1> QED
  BY <1>1, <1>2, <1>3

(* A reader takes the right to finalize from the job table, if it is there.      *)
LEMMA SettlesKeepsSettlement ==
  ASSUME TypeOK, Settlement, NEW w \in Workers, NEW j \in Runs \cup {None}, NEW o \in Settled,
         Settles(w, j, o), UNCHANGED <<store, begun, state, caller>>
  PROVE  Settlement'
<1> DEFINE r == [reader[w] EXCEPT
                   !.at = IF j \in pending THEN "storing" ELSE "committing", !.run = j,
                   !.outcome = IF o = "Completed" /\ j \notin pending THEN "Failed" ELSE o]
<1>0. ReaderOK /\ SharedOK
  BY TypeParts
<1>1. pending' = pending \ {j} /\ reader' = [reader EXCEPT ![w] = r]
  BY DEF Settles, Turn
<1>2. /\ r.run = j
      /\ j \in pending => r.at = "storing"
      /\ j \notin pending => r.at = "committing" /\ r.outcome # "Completed"
  BY <1>0 DEF ReaderOK, Reader
<1> HIDE DEF r
<1>3. reader'[w] = r /\ \A v \in Workers : v # w => reader'[v] = reader[v]
  BY <1>0, <1>1 DEF ReaderOK
<1>4. \A i \in Runs, v \in Workers :
        Stores(v, i)' => IF v = w THEN i = j /\ j \in pending ELSE Stores(v, i)
  BY <1>2, <1>3 DEF Stores, Place
<1>5. HeldIsPartial'
  BY <1>0, <1>1, <1>2, <1>3 DEF Settlement, HeldIsPartial, At, Place, SharedOK
<1>6. HeldOnce'
  <2>1. \A i \in Runs, c \in Callers : Opens(c, i)' <=> Opens(c, i)
    BY DEF Opens, At
  <2> QED
    BY <1>1, <1>4, <2>1 DEF Settlement, HeldOnce
<1>7. UnbegunIsAbsent' /\ CommittedIsStored' /\ CompletedIsStored'
  BY <1>2, <1>3 DEF Settlement, UnbegunIsAbsent, CommittedIsStored, CompletedIsStored, Place
<1> QED
  BY <1>5, <1>6, <1>7 DEF Settlement

(* The right is used up by the store operation.                               *)
LEMMA StoreKeepsSettlement ==
  ASSUME TypeOK, BegunIsNamed, Settlement, NEW w \in Workers, StoreRun(w)
  PROVE  Settlement'
<1> DEFINE j == reader[w].run
<1>0. ReaderOK /\ SharedOK /\ StateOK /\ StoreOK
  BY TypeParts
<1>1. Stores(w, j) /\ j \in Runs /\ store[j] = "partial"
  BY DEF StoreRun, Stores, Settlement, HeldIsPartial
<1>2. UNCHANGED <<begun, pending, state, caller>>
  BY DEF StoreRun, shared
<1>3. /\ reader'[w].at = "committing" /\ reader'[w].run = j
      /\ reader'[w].outcome = "Completed" => store'[j] = "completed"
      /\ \A v \in Workers : v # w => reader'[v] = reader[v]
  <2>1. CASE /\ store' = [store EXCEPT ![j] = Records(reader[w].outcome)]
             /\ Step(w, "committing")
    <3>1. /\ reader'[w].at = "committing" /\ reader'[w].run = j
          /\ reader'[w].outcome = reader[w].outcome
          /\ \A v \in Workers : v # w => reader'[v] = reader[v]
      BY <1>0, <2>1 DEF Step, Turn, ReaderOK, Reader
    <3>2. Records("Completed") = "completed"
      BY DEF Records
    <3> QED
      BY <1>0, <1>1, <2>1, <3>1, <3>2 DEF StoreOK
  <2>2. CASE Turn(w, [reader[w] EXCEPT !.at = "committing", !.outcome = IfNotStored(@)])
    <3>1. IfNotStored(reader[w].outcome) # "Completed"
      BY DEF IfNotStored
    <3> QED
      BY <1>0, <2>2, <3>1 DEF Turn, ReaderOK, Reader
  <2> QED
    BY <2>1, <2>2 DEF StoreRun
<1>4. \A i \in Runs : i # j => store'[i] = store[i]
  BY <1>0 DEF StoreRun, StoreOK
<1> HIDE DEF j
<1>5. \A i \in Runs, v \in Workers : Stores(v, i)' => v # w /\ Stores(v, i)
  BY <1>3 DEF Stores, Place
(* Nobody else holds the run.                                                 *)
<1>6. /\ j \notin pending
      /\ \A c \in Callers : ~Opens(c, j)
      /\ \A v \in Workers : v # w => ~Stores(v, j)
  BY <1>1 DEF Settlement, HeldOnce
<1>7. HeldIsPartial'
  <2>1. \A i \in pending : store'[i] = "partial"
    BY <1>0, <1>4, <1>6 DEF Settlement, HeldIsPartial, SharedOK
  <2>2. \A c \in Callers : At(c, "begun") => store'[caller[c].run] = "partial"
    BY <1>4, <1>6 DEF Settlement, HeldIsPartial, BegunIsNamed, Opens
  <2>3. \A v \in Workers :
          Place(v)' = "storing" => reader'[v].run \in Runs /\ store'[reader'[v].run] = "partial"
    BY <1>3, <1>4, <1>6 DEF Settlement, HeldIsPartial, Stores, Place
  <2> QED
    BY <1>2, <2>1, <2>2, <2>3 DEF HeldIsPartial, At
<1>8. HeldOnce'
  <2>1. \A i \in Runs, c \in Callers : Opens(c, i)' <=> Opens(c, i)
    BY <1>2 DEF Opens, At
  <2> QED
    BY <1>2, <1>5, <2>1 DEF Settlement, HeldOnce
<1>9. UnbegunIsAbsent'
  BY <1>1, <1>2, <1>4 DEF Settlement, UnbegunIsAbsent
<1>10. CommittedIsStored'
  BY <1>1, <1>3, <1>4 DEF Settlement, CommittedIsStored, Place
<1>11. CompletedIsStored'
  BY <1>1, <1>2, <1>4 DEF Settlement, CompletedIsStored
<1> QED
  BY <1>7, <1>8, <1>9, <1>10, <1>11 DEF Settlement

(* Every step of a reader.                                                   *)
LEMMA ReaderKeepsSettlement ==
  ASSUME TypeOK, BegunIsNamed, Settlement, NEW w \in Workers, ReaderStep(w)
  PROVE  Settlement'
<1>0. PipeOK /\ ReaderOK /\ StateOK /\ SharedOK /\ reader[w] \in Reader
  BY TypeParts DEF ReaderOK
<1>1. CallersOpenNothing
  BY DEF ReaderStep, ReadProgress, ReadOutcome, WorkerGone, SettleLost, StoreRun,
         CommitSettlement, CallersOpenNothing
<1>2. CASE StoreRun(w)
  BY <1>2, StoreKeepsSettlement
<1>3. CASE ReadOutcome(w)
  <2> DEFINE m == Head(pipe[w])
  <2>1. m.run \in Runs /\ m.kind \in Settled
    BY <1>0, <1>3, HeadIsMessage DEF ReadOutcome, Arrives, Message, Outcomes, Settled
  <2>2. CASE Moves(m.run)
    BY <1>3, <2>1, <2>2, SettlesKeepsSettlement DEF ReadOutcome
  <2>3. CASE ~Moves(m.run)
    BY <1>1, <1>3, <2>3, FrameKeepsSettlement
       DEF ReadOutcome, ReadersStoreNothing, NothingCompletes
  <2> QED
    BY <2>2, <2>3
<1>4. CASE SettleLost(w)
  <2>1. CASE IsTerminal(reader[w].run)
    <3>1. Turn(w, ReaderAt("ended")) /\ UNCHANGED <<store, begun, pending, state>>
      BY <1>4, <2>1 DEF SettleLost
    <3>2. ReadersStoreNothing
      BY <1>0, <3>1 DEF Turn, ReaderAt, ReadersStoreNothing, ReaderOK
    <3> QED
      BY <1>1, <3>1, <3>2, FrameKeepsSettlement DEF NothingCompletes
  <2>2. CASE ~IsTerminal(reader[w].run)
    <3>1. reader[w].run \in Runs \cup {None} /\ reader[w].outcome \in Settled
      BY <1>0 DEF Reader
    <3> QED
      BY <1>4, <2>2, <3>1, SettlesKeepsSettlement DEF SettleLost
  <2> QED
    BY <2>1, <2>2
<1>5. CASE WorkerGone(w)
  <2>1. ReadersStoreNothing
    BY <1>0, <1>5 DEF WorkerGone, Turn, ReaderAt, ReadersStoreNothing, ReaderOK
  <2> QED
    BY <1>1, <1>5, <2>1, FrameKeepsSettlement DEF WorkerGone, NothingCompletes
<1>6. CASE ReadProgress(w)
  <2>1. "Running" \in Unsettled
    BY DEF Unsettled
  <2>2. NothingCompletes
    BY <1>0, <1>6, <2>1, UnsettledCompletesNothing DEF ReadProgress, NothingCompletes
  <2> QED
    BY <1>1, <1>6, <2>2, FrameKeepsSettlement DEF ReadProgress, ReadersStoreNothing
<1>7. CASE CommitSettlement(w)
  <2>1. ReadersStoreNothing
    BY <1>0, <1>7 DEF CommitSettlement, Turn, ReaderAt, ReadersStoreNothing, ReaderOK
  <2>2. HeldIsPartial' /\ HeldOnce' /\ UnbegunIsAbsent' /\ CommittedIsStored'
    <3>1. UNCHANGED <<store, begun, pending, caller>>
      BY <1>7 DEF CommitSettlement
    <3>2. /\ \A c \in Callers, j \in Runs : Opens(c, j)' => Opens(c, j)
          /\ \A v \in Workers, j \in Runs : Stores(v, j)' => Stores(v, j)
      BY <2>1, <3>1 DEF ReadersStoreNothing, Opens, Stores, At, Place
    <3>3. HeldOnce'
      BY <3>1, <3>2 DEF Settlement, HeldOnce
    <3> QED
      BY <2>1, <3>1, <3>3 DEF Settlement, HeldIsPartial, UnbegunIsAbsent,
         CommittedIsStored, ReadersStoreNothing, At, Place
  <2>3. CompletedIsStored'
    BY <1>0, <1>7 DEF CommitSettlement, Settlement, CommittedIsStored, CompletedIsStored, StateOK
  <2> QED
    BY <2>2, <2>3 DEF Settlement
<1> QED
  BY <1>2, <1>3, <1>4, <1>5, <1>6, <1>7 DEF ReaderStep

(* The right to finalize stays with one holder, step by step.                   *)
LEMMA StepKeepsSettlement ==
  ASSUME TypeOK, BegunIsNamed, Settlement, [Next]_vars
  PROVE  Settlement'
<1>1. ASSUME UNCHANGED <<store, begun, pending, reader, state, caller>>
      PROVE  Settlement'
  BY <1>1, FrameKeepsSettlement DEF CallersOpenNothing, ReadersStoreNothing, NothingCompletes
<1>2. ASSUME NEW w \in Workers, WorkerStep(w)
      PROVE  Settlement'
  BY <1>1, <1>2 DEF WorkerStep, WorkerReports, WorkerAnswers, WorkerExits, WorkerCrashes,
                    procFrame, shared
<1>3. CASE DropService
  <2>1. CallersOpenNothing
    BY <1>3 DEF DropService, CallersOpenNothing, At, Idle
  <2> QED
    BY <1>3, <2>1, FrameKeepsSettlement DEF DropService, ReadersStoreNothing, NothingCompletes
<1>4. CASE UNCHANGED vars
  BY <1>1, <1>4 DEF vars, shared
<1> QED
  BY <1>2, <1>3, <1>4, CallerKeepsSettlement, ReaderKeepsSettlement DEF Next

(* At first there is no run and no record.                                   *)
LEMMA InitSettlement == Init => Settlement
  BY DEF Init, Settlement, HeldIsPartial, HeldOnce, UnbegunIsAbsent, CommittedIsStored,
         CompletedIsStored, Opens, Stores, At, Place, Idle, ReaderAt

(* The inductive invariant, from the lemmas above.                           *)
LEMMA AlwaysSettlement == Spec => [](TypeOK /\ BegunIsNamed /\ Settlement)
  BY InitTypeOK, InitSettlement, StepKeepsTypes, StepKeepsSettlement, PTL DEF Spec

(* A job the service reports completed has a completed record in the run store:  *)
(* settle in service.rs turns a completion it could not store into a failure,    *)
(* and no other caller or reader touches the entry of a run that is being       *)
(* settled.                                                                  *)
THEOREM CompletionsAreStored == Spec => []CompletedIsStored
<1>1. TypeOK /\ BegunIsNamed /\ Settlement => CompletedIsStored
  BY DEF Settlement
<1> QED
  BY <1>1, AlwaysSettlement, PTL

(* A finalized record is never replaced: the only steps that write the store     *)
(* write an entry that was absent or one whose single holder writes it.          *)
LEMMA FinalRecordsStay ==
  ASSUME TypeOK, BegunIsNamed, Settlement, [Next]_vars
  PROVE  [\A j \in Runs : store[j] \in Finalized => store'[j] = store[j]]_store
<1>0. StoreOK
  BY TypeParts
<1>1. ASSUME NEW c \in Callers, BeginRun(c)
      PROVE  \A j \in Runs : store[j] \in Finalized => store'[j] = store[j]
  <2>1. begun + 1 \in Runs /\ store[begun + 1] = "absent"
    BY <1>0, <1>1, ServiceAssumption DEF BeginRun, StoreOK, Settlement, UnbegunIsAbsent
  <2>2. UNCHANGED store \/ store' = [store EXCEPT ![begun + 1] = "partial"]
    BY <1>1 DEF BeginRun
  <2> QED
    BY <1>0, <2>1, <2>2 DEF StoreOK, Finalized
<1>2. ASSUME NEW w \in Workers, StoreRun(w)
      PROVE  \A j \in Runs : store[j] \in Finalized => store'[j] = store[j]
  <2>1. store[reader[w].run] = "partial"
    BY <1>2 DEF StoreRun, Settlement, HeldIsPartial
  <2>2. \A j \in Runs : j # reader[w].run => store'[j] = store[j]
    BY <1>0, <1>2 DEF StoreRun, StoreOK
  <2> QED
    BY <2>1, <2>2 DEF Finalized
<1>3. ASSUME NEW c \in Callers, Calls(c) \/ Continues(c), ~BeginRun(c)
      PROVE  UNCHANGED store
  BY <1>3 DEF Calls, StartWorker, CancelRun, Shutdown, Continues, Spawn, InstallWorker,
     AttachReader, SlotReader, RefuseRun, AdmitRun, SetInitialState, MarkCancelling,
     SendCancel, TerminateWorker, CloseInput, TakeReader, JoinReader, TakeWorker
<1>4. ASSUME NEW w \in Workers, ReaderStep(w), ~StoreRun(w)
      PROVE  UNCHANGED store
  BY <1>4 DEF ReaderStep, ReadProgress, ReadOutcome, WorkerGone, SettleLost, CommitSettlement
<1>5. ASSUME NEW w \in Workers, WorkerStep(w)
      PROVE  UNCHANGED store
  BY <1>5 DEF WorkerStep, WorkerReports, WorkerAnswers, WorkerExits, WorkerCrashes, procFrame
<1>6. CASE DropService \/ UNCHANGED vars
  BY <1>6 DEF DropService, vars
<1> QED
  BY <1>1, <1>2, <1>3, <1>4, <1>5, <1>6 DEF Next

(* However the outcome of a run, its cancellation and the death of its worker    *)
(* race, over any number of restarts, its record is finalized at most once.      *)
THEOREM RecordsAreFinal == Spec => FinalizedForGood
  BY AlwaysSettlement, FinalRecordsStay, PTL DEF Spec, FinalizedForGood

-----------------------------------------------------------------------------
(* The processes: what a step leaves reachable, and what it leaves them doing.  *)

(* Nothing is started, and a handle that is let go leaves nothing reachable.    *)
NothingStarts ==
  \A v \in Workers :
    /\ Doing(v)' # None => Doing(v)' = Doing(v) /\ (Reachable(v)' => Reachable(v))
    /\ Reachable(v)' /\ v = worker => v = worker'

(* No process becomes reachable.                                             *)
NoneAppears == \A v \in Workers : Reachable(v)' => Reachable(v)

(* An assignment to one process that gives it nothing to do.                  *)
LEMMA ChangeStartsNothing ==
  ASSUME ProcOK, NEW w \in Workers, NEW p \in Process, Change(w, p),
         p.doing \in {None, Doing(w)}, p.up /\ p.open => Reachable(w)
  PROVE  NoneAppears /\ \A v \in Workers : Doing(v)' # None => Doing(v)' = Doing(v)
<1>1. proc'[w] = p /\ \A v \in Workers : v # w => proc'[v] = proc[v]
  BY DEF Change, ProcOK
<1> QED
  BY <1>1 DEF NoneAppears, Doing, Reachable, Up

(* A step that leaves the processes alone.                                   *)
LEMMA StillStartsNothing ==
  ASSUME UNCHANGED proc
  PROVE  NoneAppears /\ \A v \in Workers : Doing(v)' # None => Doing(v)' = Doing(v)
  BY DEF NoneAppears, Doing, Reachable, Up

(* A process that is killed.                                                 *)
LEMMA KillStartsNothing ==
  ASSUME ProcOK, NEW w \in Workers \cup {None}, Kill(w)
  PROVE  NoneAppears /\ \A v \in Workers : Doing(v)' # None => Doing(v)' = Doing(v)
<1>1. CASE w = None
  BY <1>1, StillStartsNothing DEF Kill
<1>2. CASE w # None
  <2>1. Dead(w) \in Process /\ Dead(w).up = FALSE /\ Dead(w).doing = None
    BY <1>2 DEF Dead, NoProcess, ProcOK, Process
  <2> QED
    BY <1>2, <2>1, ChangeStartsNothing DEF Kill
<1> QED
  BY <1>1, <1>2

(* A handle that is dropped leaves its process unreachable.                   *)
LEMMA DropStartsNothing ==
  ASSUME ProcOK, SharedOK, DropHandle \/ KillAndDrop
  PROVE  /\ NoneAppears /\ \A v \in Workers : Doing(v)' # None => Doing(v)' = Doing(v)
         /\ \A v \in Workers : v = worker => ~Reachable(v)'
<1>1. CASE worker = None
  BY <1>1, StillStartsNothing DEF DropHandle, KillAndDrop
<1>2. CASE worker # None
  <2>1. worker \in Workers /\ proc[worker] \in Process
    BY <1>2 DEF SharedOK, ProcOK
  <2>2. PICK p \in {[proc[worker] EXCEPT !.open = FALSE], NoProcess} : Change(worker, p)
    BY <1>2 DEF DropHandle, KillAndDrop
  <2>3. p \in Process /\ ~p.open /\ p.doing \in {None, Doing(worker)}
    <3>1. CASE p = NoProcess
      BY <3>1 DEF NoProcess, Process
    <3>2. CASE p = [proc[worker] EXCEPT !.open = FALSE]
      BY <2>1, <3>2 DEF Process, Doing
    <3> QED
      BY <2>2, <3>1, <3>2
  <2>4. \A v \in Workers : v = worker => ~Reachable(v)'
    BY <2>1, <2>2, <2>3 DEF Change, ProcOK, Reachable
  <2> QED
    BY <2>1, <2>2, <2>3, <2>4, ChangeStartsNothing
<1> QED
  BY <1>1, <1>2

(* A new process has nothing to do.                                          *)
LEMMA SpawnStartsNothing ==
  ASSUME TypeOK, NEW c \in Callers, Spawn(c)
  PROVE  /\ NothingStarts
         /\ \/ NoneAppears /\ Return(c)
            \/ \E w \in Workers : /\ \A v \in Workers \ {w} : Reachable(v)' => Reachable(v)
                                  /\ Become(c, [caller[c] EXCEPT !.at = "installing", !.worker = w])
<1>0. ProcOK /\ worker' = worker
  BY TypeParts DEF Spawn, shared
<1>1. CASE Return(c) /\ UNCHANGED proc
  BY <1>0, <1>1, StillStartsNothing DEF NothingStarts, NoneAppears
<1>2. CASE \E w \in Workers :
             /\ Change(w, [NoProcess EXCEPT !.up = TRUE, !.open = TRUE])
             /\ Become(c, [caller[c] EXCEPT !.at = "installing", !.worker = w])
  <2>1. PICK w \in Workers :
          /\ Change(w, [NoProcess EXCEPT !.up = TRUE, !.open = TRUE])
          /\ Become(c, [caller[c] EXCEPT !.at = "installing", !.worker = w])
    BY <1>2
  <2>2. proc'[w].doing = None /\ \A v \in Workers \ {w} : proc'[v] = proc[v]
    BY <1>0, <2>1 DEF Change, ProcOK, NoProcess
  <2> QED
    BY <1>0, <2>1, <2>2 DEF NothingStarts, Doing, Reachable, Up
<1> QED
  BY <1>1, <1>2 DEF Spawn

(* Every other step of a caller but the admission of a run.                    *)
LEMMA CallerStartsNothing ==
  ASSUME TypeOK, NEW c \in Callers, Calls(c) \/ Continues(c), ~Spawn(c), ~AdmitRun(c)
  PROVE  NothingStarts /\ NoneAppears
<1>0. ProcOK /\ SharedOK
  BY TypeParts
<1>1. CASE InstallWorker(c) \/ TakeWorker(c) \/ CloseInput(c)
  BY <1>0, <1>1, DropStartsNothing
     DEF InstallWorker, TakeWorker, CloseInput, shared, NothingStarts, NoneAppears
<1>2. CASE TerminateWorker(c)
  <2>1. worker \in Workers \cup {None} /\ Kill(worker) /\ worker' = worker
    BY <1>0, <1>2 DEF TerminateWorker, SharedOK
  <2> QED
    BY <1>0, <2>1, KillStartsNothing DEF NothingStarts, NoneAppears
<1>3. CASE SendCancel(c)
  <2>1. worker' = worker
    BY <1>3 DEF SendCancel, shared
  <2>2. CASE UNCHANGED proc
    BY <2>1, <2>2, StillStartsNothing DEF NothingStarts, NoneAppears
  <2>3. CASE worker # None /\ Change(worker, [proc[worker] EXCEPT !.told = TRUE])
    <3>1. worker \in Workers /\ proc[worker] \in Process
      BY <1>0, <2>3 DEF SharedOK, ProcOK
    <3> DEFINE p == [proc[worker] EXCEPT !.told = TRUE]
    <3>2. /\ p \in Process /\ p.doing = Doing(worker) /\ p.up = Up(worker)
          /\ p.open = proc[worker].open
      BY <3>1 DEF Process, Doing, Up
    <3> HIDE DEF p
    <3>3. Change(worker, p)
      BY <2>3 DEF p
    <3>4. NoneAppears /\ \A v \in Workers : Doing(v)' # None => Doing(v)' = Doing(v)
      BY <1>0, <3>1, <3>2, <3>3, ChangeStartsNothing DEF Reachable
    <3> QED
      BY <2>1, <3>4 DEF NothingStarts, NoneAppears
  <2> QED
    BY <1>3, <2>2, <2>3 DEF SendCancel
<1>4. CASE \/ Calls(c) \/ AttachReader(c) \/ SlotReader(c) \/ RefuseRun(c) \/ SetInitialState(c)
           \/ MarkCancelling(c) \/ TakeReader(c) \/ JoinReader(c)
  <2>1. UNCHANGED <<proc, worker>>
    BY <1>4 DEF Calls, StartWorker, BeginRun, CancelRun, Shutdown, AttachReader, SlotReader,
                RefuseRun, SetInitialState, MarkCancelling, TakeReader, JoinReader, shared
  <2> QED
    BY <2>1, StillStartsNothing DEF NothingStarts, NoneAppears
<1> QED
  BY <1>1, <1>2, <1>3, <1>4 DEF Continues

(* No step of a reader.                                                      *)
LEMMA ReaderStartsNothing ==
  ASSUME TypeOK, NEW w \in Workers, ReaderStep(w)
  PROVE  NothingStarts /\ NoneAppears
<1>0. ProcOK /\ SharedOK
  BY TypeParts
<1>1. CASE WorkerGone(w)
  BY <1>0, <1>1, DropStartsNothing DEF WorkerGone, NothingStarts, NoneAppears
<1>2. CASE ~WorkerGone(w)
  <2>1. UNCHANGED <<proc, worker>>
    BY <1>2 DEF ReaderStep, ReadProgress, ReadOutcome, SettleLost, StoreRun, CommitSettlement, shared
  <2> QED
    BY <2>1, StillStartsNothing DEF NothingStarts, NoneAppears
<1> QED
  BY <1>1, <1>2

(* No step of a process itself.                                              *)
LEMMA ProcessStartsNothing ==
  ASSUME TypeOK, NEW w \in Workers, WorkerStep(w)
  PROVE  NothingStarts /\ NoneAppears
<1>0. ProcOK /\ proc[w] \in Process /\ worker' = worker
  BY TypeParts DEF ProcOK, WorkerStep, WorkerReports, WorkerAnswers, WorkerExits, WorkerCrashes,
                   procFrame, shared
<1>1. CASE WorkerReports(w)
  BY <1>0, <1>1, StillStartsNothing DEF WorkerReports, NothingStarts, NoneAppears
<1>2. CASE WorkerAnswers(w)
  <2> DEFINE p == [proc[w] EXCEPT !.doing = None, !.told = FALSE]
  <2>1. p \in Process /\ p.doing = None /\ p.up = Up(w) /\ p.open = proc[w].open
    BY <1>0 DEF Process, Up
  <2>2. Change(w, p)
    BY <1>2 DEF WorkerAnswers
  <2> HIDE DEF p
  <2> QED
    BY <1>0, <2>1, <2>2, ChangeStartsNothing DEF Reachable, NothingStarts, NoneAppears
<1>3. CASE WorkerExits(w) \/ WorkerCrashes(w)
  BY <1>0, <1>3, KillStartsNothing DEF WorkerExits, WorkerCrashes, NothingStarts, NoneAppears
<1> QED
  BY <1>1, <1>2, <1>3 DEF WorkerStep

(* Nor the destructor.                                                       *)
LEMMA DropServiceStartsNothing == ASSUME TypeOK, DropService PROVE NothingStarts /\ NoneAppears
<1>0. ProcOK /\ SharedOK
  BY TypeParts
<1> QED
  BY <1>0, DropStartsNothing DEF DropService, NothingStarts, NoneAppears

-----------------------------------------------------------------------------
(* No process without an owner.                                              *)

(* The callers that are installing a worker keep at it.                        *)
LEMMA OwnersStay ==
  ASSUME NoHiddenWorker, NothingStarts, NoneAppears,
         \A d \in Callers : At(d, "installing") => caller'[d] = caller[d]
  PROVE  NoHiddenWorker'
  BY DEF NoHiddenWorker, NothingStarts, NoneAppears, Reachable, At, Up

(* Every step leaves every reachable process an owner.                       *)
LEMMA StepKeepsOwners ==
  ASSUME TypeOK, NoHiddenWorker, [Next]_vars
  PROVE  NoHiddenWorker'
<1>0. ProcOK /\ CallerOK /\ SharedOK
  BY TypeParts
<1>1. ASSUME NEW c \in Callers, InstallWorker(c)
      PROVE  NoHiddenWorker'
  <2>1. NothingStarts /\ NoneAppears /\ worker' = caller[c].worker /\ Go(c, "attaching")
        /\ \A v \in Workers : v = worker => ~Reachable(v)'
    <3>1. ~Spawn(c) /\ ~AdmitRun(c) /\ Continues(c)
      BY <1>1 DEF InstallWorker, Spawn, AdmitRun, At, Continues
    <3> QED
      BY <1>0, <1>1, <3>1, CallerStartsNothing, DropStartsNothing DEF InstallWorker
  <2>2. \A d \in Callers : d # c => caller'[d] = caller[d]
    BY <1>0, <2>1 DEF Go, Become, CallerOK
  <2> QED
    BY <2>1, <2>2 DEF NoHiddenWorker, NoneAppears, Reachable, At, Up
<1>2. ASSUME NEW c \in Callers, Spawn(c)
      PROVE  NoHiddenWorker'
  <2>1. At(c, "spawning") /\ worker' = worker
    BY <1>2 DEF Spawn, shared
  <2>2. ASSUME Return(c), NoneAppears
        PROVE  NoHiddenWorker'
    BY <1>0, <1>2, <2>1, <2>2, SpawnStartsNothing, OwnersStay DEF Return, Become, CallerOK, At
  <2>3. ASSUME NEW w \in Workers, \A v \in Workers \ {w} : Reachable(v)' => Reachable(v),
               Become(c, [caller[c] EXCEPT !.at = "installing", !.worker = w])
        PROVE  NoHiddenWorker'
    <3>1. /\ caller'[c].at = "installing" /\ caller'[c].worker = w
          /\ \A d \in Callers : d # c => caller'[d] = caller[d]
      BY <1>0, <2>3 DEF Become, CallerOK, Caller
    <3> QED
      BY <2>1, <2>3, <3>1 DEF NoHiddenWorker, Reachable, At, Up
  <2> QED
    BY <1>2, <2>2, <2>3, SpawnStartsNothing
<1>3. ASSUME NEW c \in Callers, Calls(c) \/ Continues(c), ~InstallWorker(c), ~Spawn(c)
      PROVE  NoHiddenWorker'
  <2>1. ~At(c, "installing")
    BY <1>3 DEF Calls, StartWorker, BeginRun, CancelRun, Shutdown, Continues, AttachReader,
                SlotReader, RefuseRun, AdmitRun, SetInitialState, MarkCancelling, SendCancel,
                TerminateWorker, CloseInput, TakeReader, JoinReader, TakeWorker, At
  <2>2. \A d \in Callers : d # c => caller'[d] = caller[d]
    BY <1>0, <1>3
       DEF Calls, StartWorker, BeginRun, CancelRun, Shutdown, Continues, AttachReader,
           SlotReader, RefuseRun, AdmitRun, SetInitialState, MarkCancelling, SendCancel,
           TerminateWorker, CloseInput, TakeReader, JoinReader, TakeWorker, Go, Return,
           CancelDone, Become, CallerOK
  <2>3. CASE AdmitRun(c)
    <3>1. \A v \in Workers : Reachable(v)' => Reachable(v)
      BY <1>0, <2>3 DEF AdmitRun, Change, ProcOK, Process, SharedOK, Reachable, Up
    <3>2. worker' = worker
      BY <2>3 DEF AdmitRun
    <3> QED
      BY <2>1, <2>2, <3>1, <3>2 DEF NoHiddenWorker, Reachable, At, Up
  <2>4. CASE ~AdmitRun(c)
    BY <1>3, <2>1, <2>2, <2>4, CallerStartsNothing, OwnersStay
  <2> QED
    BY <2>3, <2>4
<1>4. ASSUME NEW w \in Workers, ReaderStep(w)
      PROVE  NoHiddenWorker'
  <2>1. UNCHANGED caller
    BY <1>4 DEF ReaderStep, ReadProgress, ReadOutcome, WorkerGone, SettleLost, StoreRun,
                CommitSettlement
  <2> QED
    BY <1>4, <2>1, ReaderStartsNothing, OwnersStay
<1>5. ASSUME NEW w \in Workers, WorkerStep(w)
      PROVE  NoHiddenWorker'
  <2>1. UNCHANGED caller
    BY <1>5 DEF WorkerStep, WorkerReports, WorkerAnswers, WorkerExits, WorkerCrashes, procFrame
  <2> QED
    BY <1>5, <2>1, ProcessStartsNothing, OwnersStay
<1>6. CASE DropService
  <2>1. \A d \in Callers : ~At(d, "installing")
    BY <1>6 DEF DropService, At
  <2> QED
    BY <1>6, <2>1, DropServiceStartsNothing, OwnersStay
<1>7. CASE UNCHANGED vars
  BY <1>7 DEF vars, shared, NoHiddenWorker, At, Up
<1> QED
  BY <1>1, <1>2, <1>3, <1>4, <1>5, <1>6, <1>7 DEF Next

(* No live process that could be sent a message is without an owner, however     *)
(* many start_worker calls race between the check and the installation: it is    *)
(* the one in Shared, or the one a start_worker call is about to put there, and  *)
(* every other has been told to go by the end of its input.                     *)
THEOREM NoWorkerIsHidden == Spec => []NoHiddenWorker
<1>1. Init => NoHiddenWorker
  BY DEF Init, NoHiddenWorker, Up, NoProcess
<1> QED
  BY <1>1, TypesAreKept, StepKeepsOwners, PTL DEF Spec

-----------------------------------------------------------------------------
(* Runs and the work done for them.                                          *)

Known(j) == state[j] # "none"
Busy(w)  == Place(w) \in {"settling", "storing", "committing"}
HasKnownRun(c) == caller[c].at \in {"admitted", "cancelling", "sending"}

(* Only an admitted run is heard of: of the others nobody but the caller that   *)
(* opened the entry has the name.                                            *)
RunsAreKnown ==
  /\ \A j \in Runs : j > begun => ~Known(j)
  /\ \A c \in Callers : At(c, "begun") => ~Known(caller[c].run)
  /\ \A c \in Callers : HasKnownRun(c) => caller[c].run \in Runs /\ Known(caller[c].run)
  /\ \A w \in Workers : Doing(w) # None => Known(Doing(w))
  /\ \A w \in Workers : \A i \in 1 .. Len(pipe[w]) : Known(pipe[w][i].run)
  /\ \A w \in Workers : Busy(w) => reader[w].run \in Runs /\ Known(reader[w].run)

(* A run is given to one process, and what has been answered is not computed.   *)
OneDoer == \A v, w \in Workers : Doing(v) = Doing(w) /\ Doing(v) # None => v = w
OverOnceAnswered ==
  \A v, w \in Workers : \A i \in 1 .. Len(pipe[w]) :
    pipe[w][i].kind \in Outcomes => Doing(v) # pipe[w][i].run
OverOnceSettled ==
  \A v, w \in Workers : Busy(w) /\ Reachable(v) => Doing(v) # reader[w].run

WorkInv == /\ RunsAreKnown /\ OneDoer /\ OverOnceAnswered /\ OverOnceSettled
           /\ WorkFollowsSlot

(* The four ways the rest of the state may follow a step that starts no run.    *)
KnownOnly ==
  state' = state \/ \E k \in Runs, s \in Settled \cup Unsettled :
                      Known(k) /\ state' = [state EXCEPT ![k] = s]
CallersKnow ==
  \A d \in Callers :
    \/ caller'[d].at = caller[d].at /\ caller'[d].run = caller[d].run
    \/ caller'[d].at \notin {"begun", "admitted", "cancelling", "sending"}
    \/ caller'[d].at # "begun" /\ caller'[d].run \in Runs /\ Known(caller'[d].run)
PipesOnly ==
  \A w \in Workers : \A i \in 1 .. Len(pipe'[w]) :
    \/ \E k \in 1 .. Len(pipe[w]) : pipe'[w][i] = pipe[w][k]
    \/ /\ Doing(w) # None /\ pipe'[w][i].run = Doing(w)
       /\ pipe'[w][i].kind \in Outcomes => Doing(w)' = None
ReadersKnow ==
  \A w \in Workers : Busy(w)' =>
    \/ Busy(w) /\ reader'[w].run = reader[w].run
    \/ /\ reader'[w].run \in Runs /\ Known(reader'[w].run)
       /\ \A v \in Workers : Reachable(v)' => Doing(v)' # reader'[w].run

(* What is known stays known, and nothing else becomes so.                   *)
LEMMA KnownStays ==
  ASSUME StateOK, KnownOnly
  PROVE  \A j \in Runs : Known(j)' <=> Known(j)
  BY DEF StateOK, KnownOnly, Known, Settled, Unsettled

(* Every message names a run.                                                *)
LEMMA MessagesAreOfRuns ==
  ASSUME TypeOK
  PROVE  \A w \in Workers : \A i \in 1 .. Len(pipe[w]) : pipe[w][i].run \in Runs
<1>1. \A w \in Workers : pipe[w] \in Seq(Message)
  BY TypeParts DEF PipeOK
<1>2. \A w \in Workers : \A i \in 1 .. Len(pipe[w]) : pipe[w][i] \in Message
  BY <1>1
<1> QED
  BY <1>2 DEF Message

(* Only known runs are named, when no run is started.                        *)
LEMMA FrameKeepsKnown ==
  ASSUME TypeOK, BegunIsNamed, RunsAreKnown, NothingStarts, KnownOnly, begun' = begun,
         CallersKnow, PipesOnly, ReadersKnow, TypeOK', BegunIsNamed'
  PROVE  RunsAreKnown'
<1>0. /\ \A j \in Runs : state'[j] # "none" <=> Known(j)
      /\ proc \in [Workers -> Process] /\ proc' \in [Workers -> Process]
      /\ pipe \in [Workers -> Seq(Message)]
  BY TypeParts, KnownStays DEF TypeOK, Known
<1>1. \A j \in Runs : j > begun' => state'[j] = "none"
  BY <1>0 DEF RunsAreKnown
<1>2. \A d \in Callers : At(d, "begun")' => state'[caller'[d].run] = "none"
  BY <1>0 DEF RunsAreKnown, CallersKnow, BegunIsNamed, At
<1>3. \A d \in Callers : HasKnownRun(d)' => caller'[d].run \in Runs /\ state'[caller'[d].run] # "none"
  BY <1>0 DEF RunsAreKnown, CallersKnow, HasKnownRun
<1>4. \A w \in Workers : Doing(w) # None => Doing(w) \in Runs
  BY <1>0 DEF Doing, Process
<1>5. \A w \in Workers : Doing(w)' # None => state'[Doing(w)'] # "none"
  BY <1>0, <1>4 DEF RunsAreKnown, NothingStarts
<1>6. \A w \in Workers : \A i \in 1 .. Len(pipe[w]) : pipe[w][i].run \in Runs
  BY MessagesAreOfRuns
<1>7. \A w \in Workers : \A i \in 1 .. Len(pipe'[w]) : state'[pipe'[w][i].run] # "none"
  <2> SUFFICES ASSUME NEW w \in Workers, NEW i \in 1 .. Len(pipe'[w])
               PROVE  state'[pipe'[w][i].run] # "none"
    OBVIOUS
  <2>1. CASE \E k \in 1 .. Len(pipe[w]) : pipe'[w][i] = pipe[w][k]
    <3>1. PICK k \in 1 .. Len(pipe[w]) : pipe'[w][i] = pipe[w][k]
      BY <2>1
    <3>2. Known(pipe[w][k].run) /\ pipe[w][k].run \in Runs
      BY <1>6 DEF RunsAreKnown
    <3> QED
      BY <1>0, <3>1, <3>2
  <2>2. CASE Doing(w) # None /\ pipe'[w][i].run = Doing(w)
    <3>1. Doing(w) \in Runs /\ Known(Doing(w))
      BY <1>4, <2>2 DEF RunsAreKnown
    <3> QED
      BY <1>0, <2>2, <3>1
  <2> QED
    BY <2>1, <2>2 DEF PipesOnly
<1>8. \A w \in Workers : Busy(w)' => reader'[w].run \in Runs /\ state'[reader'[w].run] # "none"
  BY <1>0 DEF RunsAreKnown, ReadersKnow
<1> QED
  BY <1>1, <1>2, <1>3, <1>5, <1>7, <1>8 DEF RunsAreKnown, Known

(* The rest of the invariant, when no run is started.                          *)
LEMMA FrameKeepsWork ==
  ASSUME TypeOK, WorkInv, NothingStarts, PipesOnly, ReadersKnow,
         active' = active \/ \A v \in Workers : Reachable(v)' => Doing(v)' # active
  PROVE  OneDoer' /\ OverOnceAnswered' /\ OverOnceSettled' /\ WorkFollowsSlot'
<1>1. OneDoer'
  BY DEF WorkInv, OneDoer, NothingStarts
<1>2. OverOnceAnswered'
  <2> SUFFICES ASSUME NEW v \in Workers, NEW w \in Workers, NEW i \in 1 .. Len(pipe'[w]),
                      pipe'[w][i].kind \in Outcomes, Doing(v)' = pipe'[w][i].run
               PROVE  FALSE
    BY DEF OverOnceAnswered
  <2>1. CASE \E k \in 1 .. Len(pipe[w]) : pipe'[w][i] = pipe[w][k]
    <3>1. PICK k \in 1 .. Len(pipe[w]) : pipe'[w][i] = pipe[w][k]
      BY <2>1
    <3>2. pipe[w][k].run # None /\ Doing(v) # pipe[w][k].run
      BY <3>1, MessagesAreOfRuns DEF WorkInv, OverOnceAnswered
    <3> QED
      BY <3>1, <3>2 DEF NothingStarts
  <2>2. CASE Doing(w) # None /\ pipe'[w][i].run = Doing(w) /\ Doing(w)' = None
    <3>1. v = w
      BY <2>2 DEF WorkInv, OneDoer, NothingStarts
    <3> QED
      BY <2>2, <3>1
  <2> QED
    BY <2>1, <2>2 DEF PipesOnly
<1>3. OverOnceSettled'
  <2> SUFFICES ASSUME NEW v \in Workers, NEW w \in Workers, Busy(w)', Reachable(v)',
                      Doing(v)' = reader'[w].run
               PROVE  FALSE
    BY DEF OverOnceSettled
  <2>1. Busy(w) /\ reader'[w].run = reader[w].run
    BY DEF ReadersKnow
  <2>2. reader[w].run # None
    BY <2>1 DEF WorkInv, RunsAreKnown
  <2>3. Doing(v) = reader[w].run /\ Reachable(v)
    BY <2>1, <2>2 DEF NothingStarts
  <2> QED
    BY <2>1, <2>3 DEF WorkInv, OverOnceSettled
<1>4. WorkFollowsSlot'
  <2> SUFFICES ASSUME NEW v \in Workers, Reachable(v)', Doing(v)' # None
               PROVE  v = worker' /\ Doing(v)' = active'
    BY DEF WorkFollowsSlot, Reachable
  <2>1. Doing(v)' = Doing(v) /\ Reachable(v)
    BY DEF NothingStarts
  <2>2. v = worker /\ Doing(v) = active
    BY <2>1 DEF WorkInv, WorkFollowsSlot, Reachable
  <2> QED
    BY <2>1, <2>2 DEF NothingStarts
<1> QED
  BY <1>1, <1>2, <1>3, <1>4

(* A run is given to a process once: nobody has heard of it before.             *)
LEMMA AdmitKeepsWork ==
  ASSUME TypeOK, BegunIsNamed, Settlement, WorkInv, NEW c \in Callers, AdmitRun(c)
  PROVE  WorkInv'
<1> DEFINE j == caller[c].run
<1>0. CallerOK /\ ProcOK /\ StateOK /\ SharedOK /\ StoreOK
  BY TypeParts
<1>1. j \in Runs /\ ~Known(j) /\ Opens(c, j) /\ active = None /\ worker \in Workers
  BY <1>0 DEF AdmitRun, MayAdmit, BegunIsNamed, Opens, WorkInv, RunsAreKnown, SharedOK
<1>2. /\ UNCHANGED <<worker, begun, pipe, reader>> /\ active' = j
      /\ state' = [state EXCEPT ![j] = "Queued"]
  BY DEF AdmitRun
<1>3. /\ caller'[c].at \in {"admitted", "idle"} /\ (caller'[c].at = "admitted" => caller'[c].run = j)
      /\ \A d \in Callers : d # c => caller'[d] = caller[d]
  BY <1>0 DEF AdmitRun, Go, Return, Become, Idle, CallerOK, Caller
<1>4. /\ \A v \in Workers : Reachable(v)' => Reachable(v)
      /\ \A v \in Workers : Doing(v)' # Doing(v) => v = worker /\ Doing(v)' = j
      /\ Reachable(worker)' => Doing(worker)' = j
  <2>1. CASE /\ Reachable(worker)
             /\ Change(worker, [proc[worker] EXCEPT !.doing = j, !.told = FALSE])
    <3> DEFINE p == [proc[worker] EXCEPT !.doing = j, !.told = FALSE]
    <3>1. proc[worker] \in Process
      BY <1>0, <1>1 DEF ProcOK
    <3>2. p.doing = j
      BY <3>1 DEF Process
    <3>3. Change(worker, p)
      BY <2>1
    <3> HIDE DEF p, j
    <3>4. proc'[worker] = p /\ \A v \in Workers : v # worker => proc'[v] = proc[v]
      BY <1>0, <1>1, <3>3 DEF Change, ProcOK
    <3> QED
      BY <1>2, <2>1, <3>2, <3>4 DEF Reachable, Doing, Up
  <2>2. CASE ~Reachable(worker) /\ UNCHANGED proc
    BY <1>0, <1>1, <1>2, <2>2 DEF ProcOK, Process, Reachable, Doing, Up
  <2> QED
    BY <2>1, <2>2 DEF AdmitRun
<1> HIDE DEF j
<1>5. \A i \in Runs : state'[i] # "none" <=> Known(i) \/ i = j
  BY <1>0, <1>1, <1>2 DEF StateOK, Known
<1>6. j <= begun
  BY <1>0, <1>1 DEF Settlement, HeldIsPartial, UnbegunIsAbsent, Opens, StoreOK
<1>7. \A v \in Workers : Doing(v) # None => Doing(v) \in Runs /\ Doing(v) # j
  BY <1>0, <1>1 DEF WorkInv, RunsAreKnown, Doing, ProcOK, Process
<1>8. RunsAreKnown'
  <2>1. \A i \in Runs : i > begun' => state'[i] = "none"
    BY <1>0, <1>1, <1>2, <1>5, <1>6 DEF WorkInv, RunsAreKnown, StoreOK
  <2>2. \A d \in Callers : At(d, "begun")' => state'[caller'[d].run] = "none"
    <3> SUFFICES ASSUME NEW d \in Callers, At(d, "begun")' PROVE state'[caller'[d].run] = "none"
      OBVIOUS
    <3>1. d # c /\ caller'[d] = caller[d] /\ At(d, "begun")
      BY <1>3 DEF At
    <3>2. caller[d].run \in Runs /\ ~Known(caller[d].run)
      BY <3>1 DEF BegunIsNamed, WorkInv, RunsAreKnown
    <3>3. caller[d].run # j
      BY <1>1, <3>1 DEF Settlement, HeldOnce, Opens
    <3> QED
      BY <1>5, <3>1, <3>2, <3>3
  <2>3. \A d \in Callers : HasKnownRun(d)' => caller'[d].run \in Runs /\ state'[caller'[d].run] # "none"
    BY <1>1, <1>3, <1>5 DEF WorkInv, RunsAreKnown, HasKnownRun
  <2>4. \A v \in Workers : Doing(v)' # None => state'[Doing(v)'] # "none"
    BY <1>1, <1>4, <1>5, <1>7 DEF WorkInv, RunsAreKnown
  <2>5. \A w \in Workers : \A i \in 1 .. Len(pipe'[w]) : state'[pipe'[w][i].run] # "none"
    BY <1>2, <1>5, MessagesAreOfRuns DEF WorkInv, RunsAreKnown
  <2>6. \A w \in Workers : Busy(w)' => reader'[w].run \in Runs /\ state'[reader'[w].run] # "none"
    BY <1>2, <1>5 DEF WorkInv, RunsAreKnown, Busy, Place
  <2> QED
    BY <2>1, <2>2, <2>3, <2>4, <2>5, <2>6 DEF RunsAreKnown, Known
<1>9. OneDoer'
  BY <1>1, <1>4, <1>7 DEF WorkInv, OneDoer
<1>10. OverOnceAnswered'
  <2>1. \A w \in Workers : \A i \in 1 .. Len(pipe[w]) : pipe[w][i].run # j
    BY <1>1 DEF WorkInv, RunsAreKnown
  <2> QED
    BY <1>2, <1>4, <2>1 DEF WorkInv, OverOnceAnswered
<1>11. OverOnceSettled'
  <2>1. \A w \in Workers : Busy(w) => reader[w].run # j
    BY <1>1 DEF WorkInv, RunsAreKnown
  <2>2. \A w \in Workers : Busy(w)' => Busy(w) /\ reader'[w].run = reader[w].run
    BY <1>2 DEF Busy, Place
  <2> QED
    BY <1>4, <2>1, <2>2 DEF WorkInv, OverOnceSettled
<1>12. WorkFollowsSlot'
  <2> SUFFICES ASSUME NEW v \in Workers, Reachable(v)', Doing(v)' # None
               PROVE  v = worker' /\ Doing(v)' = active'
    BY DEF WorkFollowsSlot, Reachable
  <2>1. v = worker
    BY <1>1, <1>4 DEF WorkInv, WorkFollowsSlot, Reachable
  <2> QED
    BY <1>2, <1>4, <2>1
<1> QED
  BY <1>8, <1>9, <1>10, <1>11, <1>12 DEF WorkInv

(* A step that starts no run and is heard of through a known one.               *)
LEMMA FrameKeepsWorkInv ==
  ASSUME TypeOK, BegunIsNamed, WorkInv, TypeOK', BegunIsNamed', NothingStarts, KnownOnly,
         begun' = begun, CallersKnow, PipesOnly, ReadersKnow,
         active' = active \/ \A v \in Workers : Reachable(v)' => Doing(v)' # active
  PROVE  WorkInv'
<1>1. RunsAreKnown'
  BY FrameKeepsKnown DEF WorkInv
<1> QED
  BY <1>1, FrameKeepsWork DEF WorkInv

(* Four frames: what a step leaves alone it keeps in order.                  *)
LEMMA PipesStay == ASSUME UNCHANGED pipe PROVE PipesOnly
  BY DEF PipesOnly

LEMMA ReadersStay == ASSUME UNCHANGED reader PROVE ReadersKnow
  BY DEF ReadersKnow, Busy, Place

LEMMA StatesStay == ASSUME UNCHANGED state PROVE KnownOnly
  BY DEF KnownOnly

LEMMA CallersStay == ASSUME UNCHANGED caller PROVE CallersKnow
  BY DEF CallersKnow

(* A caller that goes where no run is named, or names a known one.              *)
LEMMA BecomeKnows ==
  ASSUME CallerOK, NEW c \in Callers, NEW r, Become(c, r),
         \/ r.at \notin {"begun", "admitted", "cancelling", "sending"}
         \/ r.at # "begun" /\ r.run \in Runs /\ Known(r.run)
  PROVE  CallersKnow
<1>1. caller'[c] = r /\ \A d \in Callers : d # c => caller'[d] = caller[d]
  BY DEF Become, CallerOK
<1> QED
  BY <1>1 DEF CallersKnow

(* A caller that only moves on.                                              *)
LEMMA GoKnows ==
  ASSUME CallerOK, NEW c \in Callers, NEW p, Go(c, p),
         p \notin {"begun", "admitted", "cancelling", "sending"}
  PROVE  CallersKnow
<1>1. [caller[c] EXCEPT !.at = p].at = p
  BY DEF CallerOK, Caller
<1> DEFINE r == [caller[c] EXCEPT !.at = p]
<1>2. Become(c, r) /\ r.at = p
  BY <1>1 DEF Go
<1> HIDE DEF r
<1> QED
  BY <1>2, BecomeKnows

(* A caller whose call returns.                                              *)
LEMMA ReturnKnows ==
  ASSUME CallerOK, NEW c \in Callers, Return(c) \/ CancelDone(c)
  PROVE  CallersKnow
<1>1. caller[c].next \in {"idle", "closing"}
  BY DEF CallerOK, Caller
<1>2. Idle.at = "idle" /\ [Idle EXCEPT !.at = caller[c].next].at = caller[c].next
  BY DEF Idle
<1>3. \E r : Become(c, r) /\ r.at \in {"idle", "closing"}
  BY <1>1, <1>2 DEF Return, CancelDone
<1> QED
  BY <1>3, BecomeKnows

(* Every step of a caller but the opening of an entry and the admission.        *)
LEMMA CallersNameKnownRuns ==
  ASSUME TypeOK, SlotAgreesWithJobs, WorkInv, NEW c \in Callers, Calls(c) \/ Continues(c),
         ~BeginRun(c), ~AdmitRun(c)
  PROVE  CallersKnow
<1>0. CallerOK /\ caller[c] \in Caller /\ SharedOK
  BY TypeParts DEF CallerOK
<1>1. CASE \/ StartWorker(c) \/ InstallWorker(c) \/ AttachReader(c) \/ CloseInput(c)
           \/ JoinReader(c)
  <2>1. \E p \in {"spawning", "attaching", "slotting", "locking", "taking"} : Go(c, p)
    BY <1>1 DEF StartWorker, InstallWorker, AttachReader, CloseInput, JoinReader
  <2> QED
    BY <1>0, <2>1, GoKnows
<1>2. CASE \/ SlotReader(c) \/ RefuseRun(c) \/ SetInitialState(c) \/ SendCancel(c)
           \/ TerminateWorker(c) \/ TakeWorker(c)
  <2>1. Return(c) \/ CancelDone(c)
    BY <1>2 DEF SlotReader, RefuseRun, SetInitialState, SendCancel, TerminateWorker, TakeWorker
  <2> QED
    BY <1>0, <2>1, ReturnKnows
<1>3. CASE Spawn(c)
  <2>1. CASE Return(c)
    BY <1>0, <2>1, ReturnKnows
  <2>2. CASE \E w \in Workers :
               Become(c, [caller[c] EXCEPT !.at = "installing", !.worker = w])
    <3>1. PICK w \in Workers : Become(c, [caller[c] EXCEPT !.at = "installing", !.worker = w])
      BY <2>2
    <3> DEFINE r == [caller[c] EXCEPT !.at = "installing", !.worker = w]
    <3>2. Become(c, r) /\ r.at = "installing"
      BY <1>0, <3>1 DEF Caller
    <3> HIDE DEF r
    <3> QED
      BY <1>0, <3>2, BecomeKnows
  <2> QED
    BY <1>3, <2>1, <2>2 DEF Spawn
<1>4. CASE CancelRun(c)
  <2>1. PICK j \in Runs :
          state[j] # "none" /\ Become(c, [caller[c] EXCEPT !.at = "cancelling", !.run = j])
    BY <1>4 DEF CancelRun
  <2> DEFINE r == [caller[c] EXCEPT !.at = "cancelling", !.run = j]
  <2>2. Become(c, r) /\ r.at = "cancelling" /\ r.run \in Runs /\ Known(r.run)
    BY <1>0, <2>1 DEF Caller, Known
  <2> HIDE DEF r
  <2> QED
    BY <1>0, <2>2, BecomeKnows
<1>5. CASE Shutdown(c)
  <2> DEFINE place == IF active = None THEN "closing" ELSE "cancelling"
             r == [caller[c] EXCEPT !.at = place, !.run = active, !.next = "closing"]
  <2>1. Become(c, r) /\ r.at = place /\ r.run = active
    BY <1>0, <1>5 DEF Shutdown, Caller
  <2> HIDE DEF r
  <2>2. active # None => active \in Runs /\ Known(active)
    BY <1>0 DEF SlotAgreesWithJobs, SharedOK, Unsettled, Known
  <2> QED
    BY <1>0, <2>1, <2>2, BecomeKnows
<1>6. CASE MarkCancelling(c)
  <2>1. CASE CancelDone(c)
    BY <1>0, <2>1, ReturnKnows
  <2>2. CASE Become(c, [caller[c] EXCEPT !.at = "sending",
                                         !.known = caller[c].run \in byRequest])
    <3> DEFINE r == [caller[c] EXCEPT !.at = "sending", !.known = caller[c].run \in byRequest]
    <3>1. Become(c, r) /\ r.at = "sending" /\ r.run = caller[c].run
      BY <1>0, <2>2 DEF Caller
    <3> HIDE DEF r
    <3>2. caller[c].run \in Runs /\ Known(caller[c].run)
      BY <1>6 DEF MarkCancelling, At, WorkInv, RunsAreKnown, HasKnownRun
    <3> QED
      BY <1>0, <3>1, <3>2, BecomeKnows
  <2> QED
    BY <1>6, <2>1, <2>2 DEF MarkCancelling
<1>7. CASE TakeReader(c)
  <2> DEFINE place == IF readerSlot = None THEN "taking" ELSE "joining"
             r == [caller[c] EXCEPT !.at = place, !.worker = readerSlot]
  <2>1. Become(c, r) /\ r.at = place
    BY <1>0, <1>7 DEF TakeReader, Caller
  <2> HIDE DEF r
  <2> QED
    BY <1>0, <2>1, BecomeKnows
<1> QED
  BY <1>1, <1>2, <1>3, <1>4, <1>5, <1>6, <1>7 DEF Calls, Continues

(* Hence the invariant.                                                      *)
LEMMA CallerKeepsWork ==
  ASSUME TypeOK, BegunIsNamed, SlotAgreesWithJobs, WorkInv, TypeOK', BegunIsNamed',
         NEW c \in Callers, Calls(c) \/ Continues(c), ~BeginRun(c), ~AdmitRun(c)
  PROVE  WorkInv'
<1>0. ReaderOK /\ CallerOK
  BY TypeParts
<1>1. NothingStarts
  <2>1. CASE Spawn(c)
    BY <2>1, SpawnStartsNothing
  <2> QED
    BY <2>1, CallerStartsNothing
<1>2. CallersKnow
  BY CallersNameKnownRuns
<1>3. UNCHANGED <<pipe, begun, active>>
  BY DEF Calls, StartWorker, CancelRun, Shutdown, Continues, Spawn, InstallWorker,
         AttachReader, SlotReader, RefuseRun, SetInitialState, MarkCancelling, SendCancel,
         TerminateWorker, CloseInput, TakeReader, JoinReader, TakeWorker, shared
<1>4. KnownOnly
  <2>1. CASE SetInitialState(c) \/ MarkCancelling(c)
    <3>1. caller[c].run \in Runs /\ Known(caller[c].run)
      BY <2>1 DEF SetInitialState, MarkCancelling, At, WorkInv, RunsAreKnown, HasKnownRun
    <3>2. InitialState(caller[c].run) \in Unsettled /\ "Cancelling" \in Unsettled
      BY DEF InitialState, Unsettled
    <3> QED
      BY <2>1, <3>1, <3>2 DEF SetInitialState, MarkCancelling, KnownOnly
  <2>2. CASE ~(SetInitialState(c) \/ MarkCancelling(c))
    BY <2>2 DEF KnownOnly, Calls, StartWorker, CancelRun, Shutdown, Continues, Spawn,
         InstallWorker, AttachReader, SlotReader, RefuseRun, SendCancel, TerminateWorker,
         CloseInput, TakeReader, JoinReader, TakeWorker, shared
  <2> QED
    BY <2>1, <2>2
<1>5. ReadersKnow
  <2>1. CASE AttachReader(c)
    <3>1. Turn(caller[c].worker, ReaderAt("reading"))
      BY <2>1 DEF AttachReader
    <3>2. \A w \in Workers : w # caller[c].worker => reader'[w] = reader[w]
      BY <1>0, <3>1 DEF Turn, ReaderOK
    <3>3. \A w \in Workers : w = caller[c].worker => reader'[w].at = "reading"
      BY <1>0, <3>1 DEF Turn, ReaderOK, ReaderAt
    <3> QED
      BY <3>2, <3>3 DEF ReadersKnow, Busy, Place
  <2>2. CASE ~AttachReader(c)
    BY <2>2, ReadersStay
       DEF Calls, StartWorker, CancelRun, Shutdown, Continues, Spawn, InstallWorker,
           SlotReader, RefuseRun, SetInitialState, MarkCancelling, SendCancel,
           TerminateWorker, CloseInput, TakeReader, JoinReader, TakeWorker
  <2> QED
    BY <2>1, <2>2
<1> QED
  BY <1>1, <1>2, <1>3, <1>4, <1>5, PipesStay, FrameKeepsWorkInv

(* A run that is begun is one nobody has heard of.                            *)
LEMMA BeginKeepsWork ==
  ASSUME TypeOK, BegunIsNamed, WorkInv, NEW c \in Callers, BeginRun(c)
  PROVE  WorkInv'
<1>0. CallerOK /\ StoreOK /\ caller[c] \in Caller
  BY TypeParts DEF CallerOK
<1>1. UNCHANGED <<state, proc, pipe, reader, worker, active>> /\ begun' = begun + 1
  BY DEF BeginRun, shared
<1>2. begun + 1 \in Runs /\ ~Known(begun + 1)
  BY <1>0, ServiceAssumption DEF BeginRun, StoreOK, WorkInv, RunsAreKnown
<1>3. /\ \/ caller'[c].at = "begun" /\ caller'[c].run = begun + 1
         \/ caller'[c] = caller[c]
      /\ \A d \in Callers : d # c => caller'[d] = caller[d]
  BY <1>0, <1>1 DEF BeginRun, Become, CallerOK, Caller
<1>4. \A j \in Runs : j > begun' => ~Known(j)
  BY <1>0, <1>1 DEF WorkInv, RunsAreKnown, StoreOK
<1>5. \A d \in Callers : At(d, "begun")' => ~Known(caller'[d].run)
  BY <1>2, <1>3 DEF WorkInv, RunsAreKnown, At
<1>6. \A d \in Callers : HasKnownRun(d)' => caller'[d].run \in Runs /\ Known(caller'[d].run)
  BY <1>3 DEF WorkInv, RunsAreKnown, HasKnownRun
<1>7. RunsAreKnown'
  BY <1>1, <1>4, <1>5, <1>6 DEF WorkInv, RunsAreKnown, Known, Doing, Busy, Place
<1> QED
  BY <1>1, <1>7 DEF WorkInv, OneDoer, OverOnceAnswered, OverOnceSettled, WorkFollowsSlot,
                    Doing, Up, Busy, Place, Reachable

(* A process writes of the run it computes.                                   *)
LEMMA PutOnly ==
  ASSUME PipeOK, NEW w \in Workers, NEW m, Put(w, m), Doing(w) # None, m.run = Doing(w),
         m.kind \in Outcomes => Doing(w)' = None
  PROVE  PipesOnly
<1>0. /\ pipe'[w] = Append(pipe[w], m) /\ pipe[w] \in Seq(Message)
      /\ \A v \in Workers : v # w => pipe'[v] = pipe[v]
  BY DEF Put, PipeOK
<1>1. Len(pipe'[w]) = Len(pipe[w]) + 1 /\ Len(pipe[w]) \in Nat
  BY <1>0
<1>2. \A i \in 1 .. Len(pipe'[w]) :
        (i \in 1 .. Len(pipe[w]) /\ pipe'[w][i] = pipe[w][i]) \/ pipe'[w][i] = m
  BY <1>0, <1>1
<1> QED
  BY <1>0, <1>2 DEF PipesOnly

(* What is read was there.                                                   *)
LEMMA ConsumeOnly ==
  ASSUME PipeOK, NEW w \in Workers, pipe[w] # <<>>, Consume(w)
  PROVE  PipesOnly
<1>0. /\ pipe'[w] = Tail(pipe[w]) /\ pipe[w] \in Seq(Message)
      /\ \A v \in Workers : v # w => pipe'[v] = pipe[v]
  BY DEF Consume, PipeOK
<1>1. Len(pipe'[w]) = Len(pipe[w]) - 1 /\ Len(pipe[w]) \in Nat
  BY <1>0
<1>2. \A i \in 1 .. Len(pipe'[w]) : i + 1 \in 1 .. Len(pipe[w]) /\ pipe'[w][i] = pipe[w][i + 1]
  BY <1>0, <1>1
<1> QED
  BY <1>0, <1>2 DEF PipesOnly

(* A process reports, answers or ends.                                       *)
LEMMA WorkerKeepsWork ==
  ASSUME TypeOK, BegunIsNamed, WorkInv, TypeOK', BegunIsNamed', NEW w \in Workers, WorkerStep(w)
  PROVE  WorkInv'
<1>0. PipeOK /\ ProcOK /\ proc[w] \in Process
  BY TypeParts DEF ProcOK
<1>1. UNCHANGED <<state, begun, caller, reader, active>>
  BY DEF WorkerStep, WorkerReports, WorkerAnswers, WorkerExits, WorkerCrashes, procFrame, shared
<1>2. PipesOnly
  <2>1. CASE WorkerReports(w)
    <3>1. Put(w, Msg("Progress", Doing(w))) /\ Doing(w) # None
      BY <2>1 DEF WorkerReports
    <3>2. Msg("Progress", Doing(w)).run = Doing(w) /\ Msg("Progress", Doing(w)).kind \notin Outcomes
      BY DEF Msg, Outcomes
    <3> QED
      BY <1>0, <3>1, <3>2, PutOnly
  <2>2. CASE WorkerAnswers(w)
    <3>1. PICK k \in Outcomes : Put(w, Msg(k, Doing(w)))
      BY <2>2 DEF WorkerAnswers
    <3>2. Doing(w) # None /\ Msg(k, Doing(w)).run = Doing(w)
      BY <2>2 DEF WorkerAnswers, Msg
    <3>3. Doing(w)' = None
      BY <1>0, <2>2 DEF WorkerAnswers, Change, ProcOK, Process, Doing
    <3> QED
      BY <1>0, <3>1, <3>2, <3>3, PutOnly
  <2>3. CASE WorkerExits(w) \/ WorkerCrashes(w)
    BY <2>3, PipesStay DEF WorkerExits, WorkerCrashes
  <2> QED
    BY <2>1, <2>2, <2>3 DEF WorkerStep
<1> QED
  BY <1>1, <1>2, ProcessStartsNothing, StatesStay, CallersStay, ReadersStay, FrameKeepsWorkInv

(* A run is settled that nobody computes any more.                            *)
LEMMA TurnKnows ==
  ASSUME ReaderOK, NEW w \in Workers, NEW r, Turn(w, r),
         \/ r.at \notin {"settling", "storing", "committing"}
         \/ Busy(w) /\ r.run = reader[w].run
         \/ r.run \in Runs /\ Known(r.run) /\ \A v \in Workers : Reachable(v)' => Doing(v)' # r.run
  PROVE  ReadersKnow
<1>1. reader'[w] = r /\ \A v \in Workers : v # w => reader'[v] = reader[v]
  BY DEF Turn, ReaderOK
<1> QED
  BY <1>1 DEF ReadersKnow, Busy, Place

(* The first half of settle, in this respect.                                *)
LEMMA SettlesKnows ==
  ASSUME ReaderOK, NEW w \in Workers, NEW j, NEW o, Settles(w, j, o),
         \/ Busy(w) /\ j = reader[w].run
         \/ j \in Runs /\ Known(j) /\ \A v \in Workers : Reachable(v)' => Doing(v)' # j
  PROVE  ReadersKnow
<1>1. \E r : Turn(w, r) /\ r.run = j
  <2>1. reader[w] \in Reader
    BY DEF ReaderOK
  <2> DEFINE place == IF j \in pending THEN "storing" ELSE "committing"
             what  == IF o = "Completed" /\ j \notin pending THEN "Failed" ELSE o
             r     == [reader[w] EXCEPT !.at = place, !.run = j, !.outcome = what]
  <2>2. r.run = j
    BY <2>1 DEF Reader
  <2>3. Turn(w, r)
    BY DEF Settles
  <2> HIDE DEF r
  <2> QED
    BY <2>2, <2>3
<1> QED
  BY <1>1, TurnKnows

(* The message at the head of a pipe is of a known run; an answer is of one      *)
(* that nobody computes.                                                     *)
LEMMA HeadIsKnown ==
  ASSUME TypeOK, WorkInv, NEW w \in Workers, pipe[w] # <<>>
  PROVE  /\ Head(pipe[w]).run \in Runs /\ Known(Head(pipe[w]).run)
         /\ Head(pipe[w]).kind \in Outcomes
              => \A v \in Workers : Doing(v) # Head(pipe[w]).run
<1>1. PipeOK /\ pipe[w] \in Seq(Message)
  BY TypeParts DEF PipeOK
<1>2. 1 \in 1 .. Len(pipe[w]) /\ Head(pipe[w]) = pipe[w][1]
  BY <1>1
<1> QED
  BY <1>2, MessagesAreOfRuns DEF WorkInv, RunsAreKnown, OverOnceAnswered

(* A worker that is gone computes no more, so its run may be settled.        *)
LEMMA GoneKeepsWork ==
  ASSUME TypeOK, BegunIsNamed, SlotAgreesWithJobs, WorkInv, TypeOK', BegunIsNamed',
         NEW w \in Workers, WorkerGone(w)
  PROVE  WorkInv'
<1>0. ReaderOK /\ PipeOK /\ ProcOK /\ SharedOK
  BY TypeParts
<1>1. UNCHANGED <<state, begun, caller, active>>
  BY DEF WorkerGone
<1>2. PipesOnly
  <2>1. pipe'[w] = <<>> /\ \A v \in Workers : v # w => pipe'[v] = pipe[v]
    BY <1>0 DEF WorkerGone, PipeOK
  <2> QED
    BY <2>1 DEF PipesOnly
<1>3. NothingStarts /\ \A v \in Workers : v = worker => ~Reachable(v)'
  BY <1>0, ReaderStartsNothing, DropStartsNothing DEF ReaderStep, WorkerGone
<1>4. active # None => \A v \in Workers : Reachable(v)' => Doing(v)' # active
  BY <1>3 DEF NothingStarts, WorkInv, WorkFollowsSlot, Reachable
<1>5. ReadersKnow
  <2>1. CASE active = None
    <3>1. Turn(w, ReaderAt("ended")) /\ ReaderAt("ended").at = "ended"
      BY <2>1 DEF WorkerGone, ReaderAt
    <3> QED
      BY <1>0, <3>1, TurnKnows
  <2>2. CASE active # None
    <3>1. active \in Runs /\ Known(active)
      BY <1>0, <2>2 DEF SlotAgreesWithJobs, SharedOK, Unsettled, Known
    <3>2. \E r : Turn(w, r) /\ r.run = active
      BY <2>2 DEF WorkerGone
    <3> QED
      BY <1>0, <1>4, <2>2, <3>1, <3>2, TurnKnows
  <2> QED
    BY <2>1, <2>2
<1> QED
  BY <1>1, <1>2, <1>3, <1>5, StatesStay, CallersStay, FrameKeepsWorkInv

(* A reader frees the slot of a run that no reachable process computes.      *)
LEMMA ReaderKeepsWork ==
  ASSUME TypeOK, BegunIsNamed, SlotAgreesWithJobs, WorkInv, TypeOK', BegunIsNamed',
         NEW w \in Workers, ReaderStep(w)
  PROVE  WorkInv'
<1>0. ReaderOK /\ PipeOK /\ SharedOK /\ StateOK /\ reader[w] \in Reader
  BY TypeParts DEF ReaderOK
<1>1. CASE WorkerGone(w)
  BY <1>1, GoneKeepsWork
<1>2. CASE ~WorkerGone(w)
  <2>0. NothingStarts /\ UNCHANGED <<begun, caller, proc>>
    BY <1>2, ReaderStartsNothing
       DEF ReaderStep, ReadProgress, ReadOutcome, SettleLost, StoreRun, CommitSettlement
  <2>1. PipesOnly
    <3>1. CASE ReadProgress(w) \/ ReadOutcome(w)
      BY <1>0, <3>1, ConsumeOnly DEF ReadProgress, ReadOutcome, Arrives
    <3>2. CASE SettleLost(w) \/ StoreRun(w) \/ CommitSettlement(w)
      BY <3>2, PipesStay DEF SettleLost, StoreRun, CommitSettlement
    <3> QED
      BY <1>2, <3>1, <3>2 DEF ReaderStep
  <2>2. KnownOnly
    <3>1. CASE ReadProgress(w)
      <4>1. Head(pipe[w]).run \in Runs /\ Known(Head(pipe[w]).run) /\ "Running" \in Unsettled
        BY <3>1, HeadIsKnown DEF ReadProgress, Arrives, Unsettled
      <4>2. UNCHANGED state \/ state' = [state EXCEPT ![Head(pipe[w]).run] = "Running"]
        BY <3>1 DEF ReadProgress
      <4> QED
        BY <4>1, <4>2 DEF KnownOnly
    <3>2. CASE CommitSettlement(w)
      <4>1. reader[w].run \in Runs /\ Known(reader[w].run) /\ reader[w].outcome \in Settled
        BY <1>0, <3>2 DEF CommitSettlement, Busy, WorkInv, RunsAreKnown, Reader
      <4> QED
        BY <3>2, <4>1 DEF CommitSettlement, KnownOnly
    <3>3. CASE ReadOutcome(w) \/ SettleLost(w) \/ StoreRun(w)
      BY <3>3, StatesStay DEF ReadOutcome, SettleLost, StoreRun, shared
    <3> QED
      BY <1>2, <3>1, <3>2, <3>3 DEF ReaderStep
  <2>3. ReadersKnow
    <3>1. CASE ReadProgress(w)
      BY <3>1, ReadersStay DEF ReadProgress
    <3>2. CASE ReadOutcome(w)
      <4>1. CASE Moves(Head(pipe[w]).run)
        <5>1. /\ Head(pipe[w]).run \in Runs /\ Known(Head(pipe[w]).run)
              /\ \A v \in Workers : Doing(v)' # Head(pipe[w]).run
          BY <2>0, <3>2, HeadIsKnown DEF ReadOutcome, Arrives, Doing
        <5> QED
          BY <1>0, <3>2, <4>1, <5>1, SettlesKnows DEF ReadOutcome
      <4>2. CASE ~Moves(Head(pipe[w]).run)
        BY <3>2, <4>2, ReadersStay DEF ReadOutcome
      <4> QED
        BY <4>1, <4>2
    <3>3. CASE SettleLost(w)
      <4>1. CASE IsTerminal(reader[w].run)
        <5>1. Turn(w, ReaderAt("ended")) /\ ReaderAt("ended").at = "ended"
          BY <3>3, <4>1 DEF SettleLost, ReaderAt
        <5> QED
          BY <1>0, <5>1, TurnKnows
      <4>2. CASE ~IsTerminal(reader[w].run)
        <5>1. Busy(w)
          BY <3>3 DEF SettleLost, Busy
        <5> QED
          BY <1>0, <3>3, <4>2, <5>1, SettlesKnows DEF SettleLost
      <4> QED
        BY <4>1, <4>2
    <3>4. CASE StoreRun(w)
      <4>1. \E r : Turn(w, r) /\ r.run = reader[w].run
        <5>1. CASE Step(w, "committing")
          <6> DEFINE r == [reader[w] EXCEPT !.at = "committing"]
          <6>1. Turn(w, r) /\ r.run = reader[w].run
            BY <1>0, <5>1 DEF Step, Reader
          <6> HIDE DEF r
          <6> QED
            BY <6>1
        <5>2. CASE Turn(w, [reader[w] EXCEPT !.at = "committing", !.outcome = IfNotStored(@)])
          <6> DEFINE r == [reader[w] EXCEPT !.at = "committing", !.outcome = IfNotStored(@)]
          <6>1. Turn(w, r) /\ r.run = reader[w].run
            BY <1>0, <5>2 DEF Reader
          <6> HIDE DEF r
          <6> QED
            BY <6>1
        <5> QED
          BY <3>4, <5>1, <5>2 DEF StoreRun
      <4>2. Busy(w)
        BY <3>4 DEF StoreRun, Busy
      <4> QED
        BY <1>0, <4>1, <4>2, TurnKnows
    <3>5. CASE CommitSettlement(w)
      <4>1. \E r : Turn(w, r) /\ r.at \in {"ended", "reading"}
        BY <3>5 DEF CommitSettlement, ReaderAt
      <4> QED
        BY <1>0, <4>1, TurnKnows
    <3> QED
      BY <1>2, <3>1, <3>2, <3>3, <3>4, <3>5 DEF ReaderStep
  <2>4. active' = active \/ \A v \in Workers : Reachable(v)' => Doing(v)' # active
    <3>1. CASE CommitSettlement(w) /\ active = reader[w].run
      <4>1. \A v \in Workers : Reachable(v) => Doing(v) # reader[w].run
        BY <3>1 DEF CommitSettlement, Busy, WorkInv, OverOnceSettled
      <4> QED
        BY <2>0, <3>1, <4>1 DEF Reachable, Up, Doing
    <3>2. CASE CommitSettlement(w) /\ active # reader[w].run
      BY <3>2 DEF CommitSettlement, FreeSlot
    <3>3. CASE ~CommitSettlement(w)
      BY <1>2, <3>3 DEF ReaderStep, ReadProgress, ReadOutcome, SettleLost, StoreRun, shared
    <3> QED
      BY <3>1, <3>2, <3>3
  <2> QED
    BY <2>0, <2>1, <2>2, <2>3, <2>4, CallersStay, FrameKeepsWorkInv
<1> QED
  BY <1>1, <1>2

(* Every step.                                                               *)
LEMMA StepKeepsWork ==
  ASSUME TypeOK, BegunIsNamed, SlotAgreesWithJobs, Settlement, WorkInv, TypeOK', BegunIsNamed',
         [Next]_vars
  PROVE  WorkInv'
<1>1. CASE DropService
  <2>1. CallersKnow
    BY <1>1 DEF DropService, CallersKnow, Idle
  <2>2. UNCHANGED <<state, begun, pipe, reader, active>>
    BY <1>1 DEF DropService
  <2> QED
    BY <1>1, <2>1, <2>2, DropServiceStartsNothing, StatesStay, PipesStay, ReadersStay,
       FrameKeepsWorkInv
<1>2. CASE UNCHANGED vars
  BY <1>2 DEF vars, shared, WorkInv, RunsAreKnown, OneDoer, OverOnceAnswered, OverOnceSettled,
              WorkFollowsSlot, Known, Busy, HasKnownRun, Doing, Up, Reachable, Place, At
<1> QED
  BY <1>1, <1>2, AdmitKeepsWork, BeginKeepsWork, CallerKeepsWork, WorkerKeepsWork,
     ReaderKeepsWork DEF Next

(* At first there is no run and no process.                                  *)
LEMMA InitWork == Init => WorkInv
  BY DEF Init, WorkInv, RunsAreKnown, OneDoer, OverOnceAnswered, OverOnceSettled,
         WorkFollowsSlot, Known, Busy, HasKnownRun, Doing, Up, Reachable, Place, At, Idle,
         ReaderAt, NoProcess

(* A process that can still be sent a message computes the active run or        *)
(* nothing, however the answer, the death of a worker, a second worker and the   *)
(* settlement race: the slot is freed only for a run that no reachable process    *)
(* computes, since a run is given to one process, once, and a process whose      *)
(* reader settles the run has answered it or has been let go.                   *)
THEOREM WorkStaysInTheSlot == Spec => []WorkFollowsSlot
<1> DEFINE Inv == TypeOK /\ BegunIsNamed /\ SlotAgreesWithJobs /\ Settlement /\ WorkInv
<1>1. Init => Inv
  BY InitTypeOK, InitSettlement, InitWork DEF Init, SlotAgreesWithJobs
<1>2. Inv /\ [Next]_vars => Inv'
  BY StepKeepsTypes, StepKeepsSlot, StepKeepsSettlement, StepKeepsWork
<1>3. Inv => WorkFollowsSlot
  BY DEF WorkInv
<1> QED
  BY <1>1, <1>2, <1>3, PTL DEF Spec

-----------------------------------------------------------------------------
(* The loss of a worker, when no second reader has ever been started.          *)

Attaches(c) == caller[c].at \in {"installing", "attaching"}
NoOutcome(j) == store[j] \notin {"completed", "failed"}
Holds(w, j) == Place(w) \in {"storing", "committing"} /\ reader[w].run = j
Lone == \A v, w \in Workers : Place(v) # "none" /\ Place(w) # "none" => v = w

(* A worker gets one reader: the call that spawned it is the only one to attach. *)
AttachedOnce ==
  \A c \in Callers : Attaches(c) =>
    /\ caller[c].worker \in Workers /\ Place(caller[c].worker) = "none"
    /\ \A d \in Callers : Attaches(d) /\ caller[d].worker = caller[c].worker => d = c

(* The active run has its PendingRun, or somebody is settling it.                *)
ActiveIsHeld == active # None => active \in pending \/ \E w \in Workers : Holds(w, active)

(* Only a reader that is about to end interrupts a run.                          *)
LossIsLast ==
  \A w \in Workers : Busy(w) /\ reader[w].outcome = "Interrupted" => reader[w].gone

(* What the end of the only reader leaves.                                     *)
LoneLoss ==
  Lone =>
    /\ \A j \in Runs : state[j] = "Interrupted" =>
         /\ NoOutcome(j) /\ \E w \in Workers : Place(w) = "ended"
         /\ \A w \in Workers : Place(w) \in {"none", "ended"}
    /\ \A w \in Workers : Place(w) = "settling" => reader[w].run = active
    /\ \A w \in Workers :
         Place(w) = "committing" /\ reader[w].outcome = "Interrupted" => NoOutcome(reader[w].run)

LossInv == AttachedOnce /\ ActiveIsHeld /\ LossIsLast /\ LoneLoss

(* Nobody starts to attach, no reader is started, no run is interrupted and no    *)
(* outcome recorded.                                                         *)
NobodyAttaches ==
  \A d \in Callers : Attaches(d)' => Attaches(d) /\ caller'[d].worker = caller[d].worker
NoReaderStarts == \A w \in Workers : Place(w) = "none" => Place(w)' = "none"
NoneInterrupted == \A j \in Runs : state'[j] = "Interrupted" => state[j] = "Interrupted"
NoneRecorded == \A j \in Runs : NoOutcome(j) => NoOutcome(j)'

(* A step by which nobody starts to attach and no reader is started.         *)
LEMMA AttachmentsStay ==
  ASSUME AttachedOnce, NobodyAttaches, NoReaderStarts
  PROVE  AttachedOnce'
  BY DEF AttachedOnce, NobodyAttaches, NoReaderStarts

(* A step no reader takes part in.                                            *)
LEMMA FrameKeepsLoss ==
  ASSUME LossInv, RunsAreKnown, UNCHANGED reader, NoneInterrupted, NoneRecorded, AttachedOnce',
         \/ active' = active /\ pending' = pending
         \/ active = None /\ active' \in pending'
  PROVE  LossInv'
<1>1. ActiveIsHeld' /\ LossIsLast'
  BY DEF LossInv, ActiveIsHeld, LossIsLast, Holds, Busy, Place
<1>2. \A w \in Workers : Place(w) \in {"settling", "committing"} => reader[w].run \in Runs
  BY DEF RunsAreKnown, Busy
<1>3. LoneLoss'
  <2> SUFFICES ASSUME Lone' PROVE LoneLoss'
    BY DEF LoneLoss
  <2>1. Lone /\ \A w \in Workers : Place(w)' = Place(w)
    BY DEF Lone, Place
  <2>2. \A w \in Workers : Place(w)' = "settling" => reader'[w].run = active'
    BY <1>2, <2>1 DEF LossInv, LoneLoss
  <2>3. \A w \in Workers : Place(w)' = "committing" /\ reader'[w].outcome = "Interrupted"
                             => NoOutcome(reader[w].run)'
    BY <1>2, <2>1 DEF LossInv, LoneLoss, NoneRecorded
  <2>4. \A j \in Runs : state'[j] = "Interrupted" =>
          /\ NoOutcome(j)' /\ \E w \in Workers : Place(w)' = "ended"
          /\ \A w \in Workers : Place(w)' \in {"none", "ended"}
    BY <2>1 DEF LossInv, LoneLoss, NoneInterrupted, NoneRecorded
  <2> QED
    BY <2>2, <2>3, <2>4 DEF LoneLoss
<1> QED
  BY <1>1, <1>3 DEF LossInv

(* A step of a reader.                                                       *)
LEMMA TurnKeepsLoss ==
  ASSUME LossInv, ReaderOK, UNCHANGED caller, NEW w \in Workers, NEW r, Turn(w, r),
         Place(w) \notin {"none", "ended"}, r.at # "none",
         active' # None =>
           /\ active' = active
           /\ active \in pending
                => active \in pending' \/ (r.at \in {"storing", "committing"} /\ r.run = active)
           /\ Holds(w, active) => r.at \in {"storing", "committing"} /\ r.run = active,
         r.at \in {"settling", "storing", "committing"} /\ r.outcome = "Interrupted" => r.gone,
         r.at = "settling" => r.run = active',
         Lone => /\ \A j \in Runs : state'[j] = "Interrupted" =>
                      state[j] = "Interrupted" \/ (NoOutcome(j)' /\ r.at = "ended")
                 /\ r.at = "committing" /\ r.outcome = "Interrupted"
                      => store'[r.run] \notin {"completed", "failed"}
  PROVE  LossInv'
<1>1. reader'[w] = r /\ \A v \in Workers : v # w => reader'[v] = reader[v]
  BY DEF Turn, ReaderOK
<1>2. AttachedOnce'
  <2>1. NobodyAttaches /\ NoReaderStarts
    BY <1>1 DEF NobodyAttaches, NoReaderStarts, Attaches, Place
  <2> QED
    BY <2>1, AttachmentsStay DEF LossInv
<1>3. ActiveIsHeld'
  BY <1>1 DEF LossInv, ActiveIsHeld, Holds, Place
<1>4. LossIsLast'
  BY <1>1 DEF LossInv, LossIsLast, Busy, Place
<1>5. LoneLoss'
  <2> SUFFICES ASSUME Lone' PROVE LoneLoss'
    BY DEF LoneLoss
  <2>1. \A v \in Workers : v # w => Place(v) = "none" /\ Place(v)' = "none"
    BY <1>1 DEF Lone, Place
  <2>2. Lone
    BY <2>1 DEF Lone
  <2>3. \A j \in Runs : state[j] # "Interrupted"
    BY <2>2 DEF LossInv, LoneLoss
  <2>4. \A j \in Runs : state'[j] = "Interrupted" => NoOutcome(j)' /\ r.at = "ended"
    BY <2>2, <2>3
  <2>5. Place(w)' = r.at
    BY <1>1 DEF Place
  <2>6. \A j \in Runs : state'[j] = "Interrupted" =>
          /\ NoOutcome(j)' /\ \E v \in Workers : Place(v)' = "ended"
          /\ \A v \in Workers : Place(v)' \in {"none", "ended"}
    BY <2>1, <2>4, <2>5
  <2>7. /\ \A v \in Workers : Place(v)' = "settling" => reader'[v].run = active'
        /\ \A v \in Workers : Place(v)' = "committing" /\ reader'[v].outcome = "Interrupted"
                                => NoOutcome(reader[v].run)'
    BY <1>1, <2>1, <2>2, <2>5 DEF NoOutcome
  <2> QED
    BY <2>6, <2>7 DEF LoneLoss
<1> QED
  BY <1>2, <1>3, <1>4, <1>5 DEF LossInv

(* The first half of settle, in this respect.                                   *)
LEMMA SettlesKeepsLoss ==
  ASSUME LossInv, ReaderOK, UNCHANGED <<caller, active, state>>, NEW w \in Workers,
         NEW j \in Runs, NEW o, Settles(w, j, o), Place(w) \in {"reading", "settling"},
         o = "Interrupted" => Place(w) = "settling" /\ reader[w].run = j /\ reader[w].gone
  PROVE  LossInv'
<1> DEFINE place == IF j \in pending THEN "storing" ELSE "committing"
           what  == IF o = "Completed" /\ j \notin pending THEN "Failed" ELSE o
           r     == [reader[w] EXCEPT !.at = place, !.run = j, !.outcome = what]
<1>1. Turn(w, r) /\ pending' = pending \ {j}
  BY DEF Settles
<1>2. r.at = place /\ r.run = j /\ r.outcome = what /\ r.gone = reader[w].gone
  BY DEF ReaderOK, Reader
<1> HIDE DEF r
<1>3. active' # None =>
        /\ active' = active
        /\ active \in pending
             => active \in pending' \/ (r.at \in {"storing", "committing"} /\ r.run = active)
        /\ Holds(w, active) => r.at \in {"storing", "committing"} /\ r.run = active
  BY <1>1, <1>2 DEF Holds
<1>4. r.outcome = "Interrupted" => o = "Interrupted"
  BY <1>2
<1>5. Lone /\ r.at = "committing" /\ r.outcome = "Interrupted" => FALSE
  <2> SUFFICES ASSUME Lone, r.at = "committing", r.outcome = "Interrupted" PROVE FALSE
    OBVIOUS
  <2>1. j = active /\ active # None /\ active \notin pending
    BY <1>2, <1>4 DEF LossInv, LoneLoss
  <2>2. PICK v \in Workers : Holds(v, active)
    BY <2>1 DEF LossInv, ActiveIsHeld
  <2>3. v = w
    BY <2>2 DEF Lone, Holds
  <2> QED
    BY <2>2, <2>3 DEF Holds
<1>6. r.at \in {"storing", "committing"}
  BY <1>2
<1> QED
  BY <1>1, <1>2, <1>3, <1>4, <1>5, <1>6, TurnKeepsLoss

(* A caller that installs nothing new.                                       *)
LEMMA BecomeAttachesNothing ==
  ASSUME CallerOK, NEW c \in Callers, NEW r, Become(c, r),
         r.at \in {"installing", "attaching"} => Attaches(c) /\ r.worker = caller[c].worker
  PROVE  NobodyAttaches
<1>1. caller'[c] = r /\ \A d \in Callers : d # c => caller'[d] = caller[d]
  BY DEF Become, CallerOK
<1> QED
  BY <1>1 DEF NobodyAttaches, Attaches

(* Only the call that has spawned a worker starts to attach.                 *)
LEMMA CallersAttachNothing ==
  ASSUME TypeOK, NEW c \in Callers, Calls(c) \/ Continues(c), ~Spawn(c)
  PROVE  NobodyAttaches
<1>0. CallerOK /\ caller[c] \in Caller
  BY TypeParts DEF CallerOK
<1>1. CASE InstallWorker(c)
  <2> DEFINE r == [caller[c] EXCEPT !.at = "attaching"]
  <2>1. Become(c, r) /\ r.worker = caller[c].worker
    BY <1>0, <1>1 DEF InstallWorker, Go, Caller
  <2>2. Attaches(c)
    BY <1>1 DEF InstallWorker, At, Attaches
  <2> HIDE DEF r
  <2> QED
    BY <1>0, <2>1, <2>2, BecomeAttachesNothing
<1>2. CASE \/ StartWorker(c) \/ AttachReader(c) \/ CloseInput(c) \/ JoinReader(c) \/ AdmitRun(c)
  <2>1. \E p \in {"spawning", "slotting", "locking", "taking", "admitted"} :
           Go(c, p) \/ Return(c)
    BY <1>2 DEF StartWorker, AttachReader, CloseInput, JoinReader, AdmitRun
  <2>2. PICK p \in {"spawning", "slotting", "locking", "taking", "admitted"} :
           Go(c, p) \/ Return(c)
    BY <2>1
  <2>3. \E r : Become(c, r) /\ r.at \notin {"installing", "attaching"}
    <3> DEFINE r == [caller[c] EXCEPT !.at = p]
    <3>1. r.at = p /\ Idle.at = "idle"
      BY <1>0 DEF Caller, Idle
    <3>2. Become(c, r) \/ Become(c, Idle)
      BY <2>2 DEF Go, Return
    <3> HIDE DEF r
    <3> QED
      BY <3>1, <3>2
  <2> QED
    BY <1>0, <2>3, BecomeAttachesNothing
<1>3. CASE \/ SlotReader(c) \/ RefuseRun(c) \/ SetInitialState(c) \/ SendCancel(c)
           \/ TerminateWorker(c) \/ TakeWorker(c) \/ (MarkCancelling(c) /\ CancelDone(c))
  <2>1. Return(c) \/ CancelDone(c)
    BY <1>3 DEF SlotReader, RefuseRun, SetInitialState, SendCancel, TerminateWorker, TakeWorker
  <2>2. /\ Idle.at = "idle" /\ [Idle EXCEPT !.at = caller[c].next].at = caller[c].next
        /\ caller[c].next \in {"idle", "closing"}
    BY <1>0 DEF Idle, Caller
  <2>3. \E r : Become(c, r) /\ r.at \in {"idle", "closing"}
    BY <2>1, <2>2 DEF Return, CancelDone
  <2> QED
    BY <1>0, <2>3, BecomeAttachesNothing
<1>4. CASE BeginRun(c) \/ CancelRun(c) \/ (MarkCancelling(c) /\ ~CancelDone(c))
  <2>1. \/ UNCHANGED caller
        \/ \E j, p, k : /\ Become(c, [caller[c] EXCEPT !.at = p, !.run = j])
                        /\ p \in {"begun", "cancelling"}
        \/ \E k : Become(c, [caller[c] EXCEPT !.at = "sending", !.known = k])
    BY <1>4 DEF BeginRun, CancelRun, MarkCancelling
  <2>2. CASE UNCHANGED caller
    BY <2>2 DEF NobodyAttaches, Attaches
  <2>3. ASSUME NEW j, NEW p \in {"begun", "cancelling"},
               Become(c, [caller[c] EXCEPT !.at = p, !.run = j])
        PROVE  NobodyAttaches
    <3> DEFINE r == [caller[c] EXCEPT !.at = p, !.run = j]
    <3>1. Become(c, r) /\ r.at = p
      BY <1>0, <2>3 DEF Caller
    <3> HIDE DEF r
    <3> QED
      BY <1>0, <3>1, BecomeAttachesNothing
  <2>4. ASSUME NEW k, Become(c, [caller[c] EXCEPT !.at = "sending", !.known = k])
        PROVE  NobodyAttaches
    <3> DEFINE r == [caller[c] EXCEPT !.at = "sending", !.known = k]
    <3>1. Become(c, r) /\ r.at = "sending"
      BY <1>0, <2>4 DEF Caller
    <3> HIDE DEF r
    <3> QED
      BY <1>0, <3>1, BecomeAttachesNothing
  <2> QED
    BY <2>1, <2>2, <2>3, <2>4
<1>5. CASE Shutdown(c) \/ TakeReader(c)
  <2>1. \E r : Become(c, r) /\ r.at \in {"closing", "cancelling", "taking", "joining"}
    <3>1. CASE Shutdown(c)
      <4> DEFINE place == IF active = None THEN "closing" ELSE "cancelling"
                 r == [caller[c] EXCEPT !.at = place, !.run = active, !.next = "closing"]
      <4>1. Become(c, r) /\ r.at = place
        BY <1>0, <3>1 DEF Shutdown, Caller
      <4> HIDE DEF r
      <4> QED
        BY <4>1
    <3>2. CASE TakeReader(c)
      <4> DEFINE place == IF readerSlot = None THEN "taking" ELSE "joining"
                 r == [caller[c] EXCEPT !.at = place, !.worker = readerSlot]
      <4>1. Become(c, r) /\ r.at = place
        BY <1>0, <3>2 DEF TakeReader, Caller
      <4> HIDE DEF r
      <4> QED
        BY <4>1
    <3> QED
      BY <1>5, <3>1, <3>2
  <2> QED
    BY <1>0, <2>1, BecomeAttachesNothing
<1> QED
  BY <1>1, <1>2, <1>3, <1>4, <1>5 DEF Calls, Continues

(* A new worker has no reader and no caller that knows it but this one.          *)
LEMMA SpawnKeepsAttached ==
  ASSUME TypeOK, AttachedOnce, NEW c \in Callers, Spawn(c)
  PROVE  AttachedOnce'
<1>0. CallerOK /\ caller[c] \in Caller
  BY TypeParts DEF CallerOK
<1>1. UNCHANGED reader
  BY DEF Spawn
<1>2. CASE Return(c)
  <2>1. Become(c, Idle) /\ Idle.at = "idle"
    BY <1>2 DEF Return, Idle
  <2>2. NobodyAttaches /\ NoReaderStarts
    BY <1>0, <1>1, <2>1, BecomeAttachesNothing DEF NoReaderStarts, Place
  <2> QED
    BY <2>2, AttachmentsStay
<1>3. CASE \E w \in Workers :
             /\ ~Spawned(w)
             /\ Become(c, [caller[c] EXCEPT !.at = "installing", !.worker = w])
  <2>1. PICK w \in Workers :
          /\ ~Spawned(w)
          /\ Become(c, [caller[c] EXCEPT !.at = "installing", !.worker = w])
    BY <1>3
  <2>2. /\ caller'[c].worker = w /\ \A d \in Callers : d # c => caller'[d] = caller[d]
    BY <1>0, <2>1 DEF Become, CallerOK, Caller
  <2>3. Place(w) = "none" /\ \A d \in Callers : caller[d].worker # w
    BY <2>1 DEF Spawned, Place
  <2> QED
    BY <1>1, <2>2, <2>3 DEF AttachedOnce, Attaches, Place
<1> QED
  BY <1>2, <1>3 DEF Spawn

(* A reader is started: if it is the only one, there was none, and no loss.      *)
LEMMA AttachKeepsLoss ==
  ASSUME TypeOK, LossInv, NEW c \in Callers, AttachReader(c)
  PROVE  LossInv'
<1>0. CallerOK /\ ReaderOK
  BY TypeParts
<1>1. PICK w \in Workers : w = caller[c].worker /\ Place(w) = "none" /\ Attaches(c)
  BY DEF AttachReader, At, Attaches, LossInv, AttachedOnce
<1>2. /\ reader'[w].at = "reading" /\ \A v \in Workers : v # w => reader'[v] = reader[v]
      /\ UNCHANGED <<active, pending, state, store>>
  BY <1>0, <1>1 DEF AttachReader, Turn, ReaderAt, ReaderOK, shared
<1>3. caller'[c].at = "slotting" /\ \A d \in Callers : d # c => caller'[d] = caller[d]
  BY <1>0 DEF AttachReader, Go, Become, CallerOK, Caller
<1>4. AttachedOnce'
  <2>1. \A d \in Callers : Attaches(d)' => d # c /\ caller'[d] = caller[d] /\ Attaches(d)
    BY <1>3 DEF Attaches
  <2>2. \A d \in Callers : Attaches(d)' => caller[d].worker \in Workers /\ caller[d].worker # w
    BY <1>1, <2>1 DEF LossInv, AttachedOnce
  <2> QED
    BY <1>2, <2>1, <2>2 DEF LossInv, AttachedOnce, Place
<1>5. ActiveIsHeld' /\ LossIsLast'
  BY <1>1, <1>2 DEF LossInv, ActiveIsHeld, LossIsLast, Holds, Busy, Place
<1>6. LoneLoss'
  <2> SUFFICES ASSUME Lone' PROVE LoneLoss'
    BY DEF LoneLoss
  <2>1. Place(w)' = "reading" /\ \A v \in Workers : v # w => Place(v)' = "none" /\ Place(v) = "none"
    BY <1>1, <1>2 DEF Lone, Place
  <2>2. Lone /\ \A v \in Workers : Place(v) = "none"
    BY <1>1, <2>1 DEF Lone
  <2>3. \A j \in Runs : state'[j] # "Interrupted"
    BY <1>2, <2>2 DEF LossInv, LoneLoss
  <2> QED
    BY <2>1, <2>3 DEF LoneLoss
<1> QED
  BY <1>4, <1>5, <1>6 DEF LossInv

(* A step of a caller interrupts nothing and records nothing.                *)
LEMMA CallerKeepsLoss ==
  ASSUME TypeOK, BegunIsNamed, WorkInv, LossInv, NEW c \in Callers, Calls(c) \/ Continues(c)
  PROVE  LossInv'
<1>0. CallerOK /\ StateOK /\ StoreOK /\ RunsAreKnown
  BY TypeParts DEF WorkInv
<1>1. CASE AttachReader(c)
  BY <1>1, AttachKeepsLoss
<1>2. CASE ~AttachReader(c)
  <2>1. UNCHANGED reader
    BY <1>2 DEF Calls, StartWorker, BeginRun, CancelRun, Shutdown, Continues, Spawn,
       InstallWorker, SlotReader, RefuseRun, AdmitRun, SetInitialState, MarkCancelling,
       SendCancel, TerminateWorker, CloseInput, TakeReader, JoinReader, TakeWorker
  <2>2. AttachedOnce'
    <3>1. CASE Spawn(c)
      BY <3>1, SpawnKeepsAttached DEF LossInv
    <3>2. CASE ~Spawn(c)
      <4>1. NoReaderStarts
        BY <2>1 DEF NoReaderStarts, Place
      <4> QED
        BY <3>2, <4>1, CallersAttachNothing, AttachmentsStay DEF LossInv
    <3> QED
      BY <3>1, <3>2
  <2>3. NoneRecorded
    <3>1. CASE BeginRun(c)
      <4>1. UNCHANGED store \/ store' = [store EXCEPT ![begun'] = "partial"]
        BY <3>1 DEF BeginRun
      <4> QED
        BY <1>0, <4>1 DEF NoneRecorded, NoOutcome, StoreOK
    <3>2. CASE ~BeginRun(c)
      BY <1>2, <3>2
         DEF Calls, StartWorker, CancelRun, Shutdown, Continues, Spawn, InstallWorker,
             SlotReader, RefuseRun, AdmitRun, SetInitialState, MarkCancelling, SendCancel,
             TerminateWorker, CloseInput, TakeReader, JoinReader, TakeWorker, NoneRecorded,
             NoOutcome
    <3> QED
      BY <3>1, <3>2
  <2>4. NoneInterrupted
    <3>1. CASE AdmitRun(c) \/ SetInitialState(c) \/ MarkCancelling(c)
      <4>1. UNCHANGED state \/ \E s \in Unsettled : state' = [state EXCEPT ![caller[c].run] = s]
        BY <3>1 DEF AdmitRun, SetInitialState, MarkCancelling, InitialState, Unsettled
      <4> QED
        BY <1>0, <4>1 DEF NoneInterrupted, StateOK, Unsettled
    <3>2. CASE ~(AdmitRun(c) \/ SetInitialState(c) \/ MarkCancelling(c))
      BY <1>2, <3>2
         DEF Calls, StartWorker, BeginRun, CancelRun, Shutdown, Continues, Spawn,
             InstallWorker, SlotReader, RefuseRun, SendCancel, TerminateWorker, CloseInput,
             TakeReader, JoinReader, TakeWorker, shared, NoneInterrupted
    <3> QED
      BY <3>1, <3>2
  <2>5. \/ active' = active /\ pending' = pending
        \/ active = None /\ active' \in pending'
    BY <1>2 DEF Calls, StartWorker, BeginRun, CancelRun, Shutdown, Continues, Spawn,
       InstallWorker, SlotReader, RefuseRun, AdmitRun, MayAdmit, SetInitialState,
       MarkCancelling, SendCancel, TerminateWorker, CloseInput, TakeReader, JoinReader,
       TakeWorker, shared
  <2> QED
    BY <1>0, <2>1, <2>2, <2>3, <2>4, <2>5, FrameKeepsLoss
<1> QED
  BY <1>1, <1>2

(* A step of which neither readers nor callers notice anything.                *)
LEMMA StillKeepsLoss ==
  ASSUME WorkInv, LossInv, UNCHANGED <<reader, active, pending, store>>, NobodyAttaches,
         NoneInterrupted
  PROVE  LossInv'
<1>1. AttachedOnce'
  BY AttachmentsStay DEF LossInv, NoReaderStarts, Place
<1> QED
  BY <1>1, FrameKeepsLoss DEF WorkInv, NoneRecorded, NoOutcome

(* The reader of the active run decides that it was lost.                      *)
LEMMA GoneKeepsLoss ==
  ASSUME TypeOK, LossInv, NEW w \in Workers, WorkerGone(w)
  PROVE  LossInv'
<1>0. ReaderOK
  BY TypeParts
<1>1. Place(w) = "reading" /\ UNCHANGED <<active, state, pending, store, caller>>
  BY DEF WorkerGone
<1>2. PICK r : /\ Turn(w, r) /\ r.at \in {"ended", "settling"}
               /\ r.at = "settling" => r.run = active /\ r.gone
  BY DEF WorkerGone, ReaderAt
<1>3. ~Holds(w, active)
  BY <1>1 DEF Holds
<1> QED
  BY <1>0, <1>1, <1>2, <1>3, TurnKeepsLoss

(* An interrupted run is left partial.                                       *)
LEMMA StoreKeepsLoss ==
  ASSUME TypeOK, BegunIsNamed, WorkInv, LossInv, NEW w \in Workers, StoreRun(w)
  PROVE  LossInv'
<1>0. ReaderOK /\ reader[w] \in Reader /\ StoreOK
  BY TypeParts DEF ReaderOK
<1>1. Place(w) = "storing" /\ UNCHANGED <<active, state, pending, caller>>
  BY DEF StoreRun, shared
<1>2. reader[w].run \in Runs
  BY <1>1 DEF WorkInv, RunsAreKnown, Busy
<1>3. reader[w].outcome = "Interrupted" => reader[w].gone
  BY <1>1 DEF LossInv, LossIsLast, Busy
<1>4. PICK r : /\ Turn(w, r) /\ r.at = "committing" /\ r.run = reader[w].run
               /\ r.gone = reader[w].gone
               /\ r.outcome = "Interrupted" =>
                    /\ reader[w].outcome = "Interrupted"
                    /\ store'[reader[w].run] \notin {"completed", "failed"}
  <2>1. CASE /\ store' = [store EXCEPT ![reader[w].run] = Records(reader[w].outcome)]
             /\ Step(w, "committing")
    <3> DEFINE r == [reader[w] EXCEPT !.at = "committing"]
    <3>1. /\ Turn(w, r) /\ r.at = "committing" /\ r.run = reader[w].run
          /\ r.gone = reader[w].gone /\ r.outcome = reader[w].outcome
      BY <1>0, <2>1 DEF Step, Reader
    <3>2. reader[w].outcome = "Interrupted" => store'[reader[w].run] = "partial"
      BY <1>0, <1>2, <2>1 DEF StoreOK, Records
    <3> HIDE DEF r
    <3> QED
      BY <3>1, <3>2
  <2>2. CASE /\ reader[w].outcome # "Interrupted"
             /\ Turn(w, [reader[w] EXCEPT !.at = "committing", !.outcome = IfNotStored(@)])
    <3> DEFINE o == IfNotStored(reader[w].outcome)
               r == [reader[w] EXCEPT !.at = "committing", !.outcome = o]
    <3>1. Turn(w, r)
      BY <1>0, <2>2 DEF Reader
    <3>2. /\ r.at = "committing" /\ r.run = reader[w].run /\ r.gone = reader[w].gone
          /\ r.outcome = o
      BY <1>0 DEF Reader
    <3>3. o # "Interrupted"
      BY <2>2 DEF IfNotStored
    <3> HIDE DEF r, o
    <3> QED
      BY <3>1, <3>2, <3>3
  <2> QED
    BY <2>1, <2>2 DEF StoreRun
<1>5. Holds(w, active) => r.run = active
  BY <1>4 DEF Holds
<1>6. active \in pending => active \in pending'
  BY <1>1
<1> QED
  BY <1>0, <1>1, <1>3, <1>4, <1>5, <1>6, TurnKeepsLoss

(* The interruption becomes visible, and the reader ends.                    *)
LEMMA CommitKeepsLoss ==
  ASSUME TypeOK, WorkInv, LossInv, NEW w \in Workers, CommitSettlement(w)
  PROVE  LossInv'
<1>0. ReaderOK /\ StateOK
  BY TypeParts
<1>1. Place(w) = "committing" /\ UNCHANGED <<pending, caller, store>>
  BY DEF CommitSettlement
<1>2. PICK r : /\ Turn(w, r) /\ r.at \in {"ended", "reading"}
               /\ reader[w].gone => r.at = "ended"
  BY DEF CommitSettlement, ReaderAt
<1>3. active' # None => active' = active /\ ~Holds(w, active)
  BY DEF CommitSettlement, FreeSlot, Holds
<1>4. ASSUME Lone, NEW j \in Runs, state'[j] = "Interrupted"
      PROVE  state[j] = "Interrupted" \/ (NoOutcome(j)' /\ r.at = "ended")
  <2>1. CASE j # reader[w].run
    BY <1>0, <1>4, <2>1 DEF CommitSettlement, StateOK
  <2>2. CASE j = reader[w].run
    <3>1. reader[w].outcome = "Interrupted"
      BY <1>0, <1>4, <2>2 DEF CommitSettlement, StateOK
    <3>2. reader[w].gone /\ NoOutcome(j)
      BY <1>1, <1>4, <2>2, <3>1 DEF LossInv, LossIsLast, LoneLoss, Busy
    <3> QED
      BY <1>1, <1>2, <3>2 DEF NoOutcome
  <2> QED
    BY <2>1, <2>2
<1> QED
  BY <1>0, <1>1, <1>2, <1>3, <1>4, TurnKeepsLoss

(* Every step of a reader.                                                   *)
LEMMA ReaderKeepsLoss ==
  ASSUME TypeOK, BegunIsNamed, WorkInv, LossInv, NEW w \in Workers, ReaderStep(w)
  PROVE  LossInv'
<1>0. ReaderOK /\ PipeOK /\ StateOK /\ reader[w] \in Reader
  BY TypeParts DEF ReaderOK
<1>1. UNCHANGED caller => NobodyAttaches
  BY DEF NobodyAttaches, Attaches
<1>2. CASE ReadProgress(w)
  <2>1. UNCHANGED state \/ state' = [state EXCEPT ![Head(pipe[w]).run] = "Running"]
    BY <1>2 DEF ReadProgress
  <2>2. NoneInterrupted
    BY <1>0, <2>1 DEF NoneInterrupted, StateOK
  <2> QED
    BY <1>1, <1>2, <2>2, StillKeepsLoss DEF ReadProgress
<1>3. CASE ReadOutcome(w)
  <2>1. CASE Moves(Head(pipe[w]).run)
    <3>1. Head(pipe[w]).run \in Runs /\ Head(pipe[w]).kind \in Outcomes /\ Place(w) = "reading"
      BY <1>0, <1>3, HeadIsMessage DEF ReadOutcome, Arrives, Message
    <3>2. Head(pipe[w]).kind # "Interrupted"
      BY <3>1 DEF Outcomes
    <3>3. Settles(w, Head(pipe[w]).run, Head(pipe[w]).kind) /\ UNCHANGED <<caller, active, state>>
      BY <1>3, <2>1 DEF ReadOutcome
    <3> QED
      BY <1>0, <3>1, <3>2, <3>3, SettlesKeepsLoss
  <2>2. CASE ~Moves(Head(pipe[w]).run)
    BY <1>1, <1>3, <2>2, StillKeepsLoss DEF ReadOutcome, NoneInterrupted
  <2> QED
    BY <2>1, <2>2
<1>4. CASE WorkerGone(w)
  BY <1>4, GoneKeepsLoss
<1>5. CASE SettleLost(w)
  <2>0. Place(w) = "settling" /\ UNCHANGED <<caller, active, state, store>>
    BY <1>5 DEF SettleLost
  <2>1. CASE IsTerminal(reader[w].run)
    <3>1. Turn(w, ReaderAt("ended")) /\ ReaderAt("ended").at = "ended" /\ UNCHANGED pending
      BY <1>5, <2>1 DEF SettleLost, ReaderAt
    <3>2. ~Holds(w, active)
      BY <2>0 DEF Holds
    <3> QED
      BY <1>0, <2>0, <3>1, <3>2, TurnKeepsLoss
  <2>2. CASE ~IsTerminal(reader[w].run)
    <3>1. /\ reader[w].run \in Runs
          /\ reader[w].outcome = "Interrupted" => reader[w].gone
      BY <2>0 DEF WorkInv, RunsAreKnown, LossInv, LossIsLast, Busy
    <3>2. Settles(w, reader[w].run, reader[w].outcome)
      BY <1>5, <2>2 DEF SettleLost
    <3> QED
      BY <1>0, <2>0, <3>1, <3>2, SettlesKeepsLoss
  <2> QED
    BY <2>1, <2>2
<1>6. CASE StoreRun(w)
  BY <1>6, StoreKeepsLoss
<1>7. CASE CommitSettlement(w)
  BY <1>7, CommitKeepsLoss
<1> QED
  BY <1>2, <1>3, <1>4, <1>5, <1>6, <1>7 DEF ReaderStep

(* Every step.                                                               *)
LEMMA StepKeepsLoss ==
  ASSUME TypeOK, BegunIsNamed, WorkInv, LossInv, [Next]_vars
  PROVE  LossInv'
<1>1. ASSUME NEW w \in Workers, WorkerStep(w)
      PROVE  LossInv'
  <2>1. UNCHANGED <<reader, active, pending, store, caller, state>>
    BY <1>1 DEF WorkerStep, WorkerReports, WorkerAnswers, WorkerExits, WorkerCrashes,
                procFrame, shared
  <2> QED
    BY <2>1, StillKeepsLoss DEF NobodyAttaches, Attaches, NoneInterrupted
<1>2. CASE DropService
  <2>1. UNCHANGED <<reader, active, pending, store, state>>
    BY <1>2 DEF DropService
  <2>2. \A d \in Callers : caller'[d].at = "gone"
    BY <1>2 DEF DropService, Idle
  <2> QED
    BY <2>1, <2>2, StillKeepsLoss DEF NobodyAttaches, Attaches, NoneInterrupted
<1>3. CASE UNCHANGED vars
  BY <1>3, StillKeepsLoss DEF vars, shared, NobodyAttaches, Attaches, NoneInterrupted
<1> QED
  BY <1>1, <1>2, <1>3, CallerKeepsLoss, ReaderKeepsLoss DEF Next

(* At first no reader and no run.                                            *)
LEMMA InitLoss == Init => LossInv
  BY DEF Init, LossInv, AttachedOnce, ActiveIsHeld, LossIsLast, LoneLoss, Attaches, Busy,
         Place, Idle, ReaderAt

(* As long as no second reader has been started, a job reported interrupted has   *)
(* no result on record: the reader that reports the loss is the one that would    *)
(* have stored the result, it finds the PendingRun of the active run still there, *)
(* and it ends without reading on.  A second reader breaks the argument, since    *)
(* the run it finds active may be one the first is still storing.               *)
THEOREM InterruptionsLeaveNoOutcome == Spec => []InterruptedHasNoOutcome
<1> DEFINE Inv == TypeOK /\ BegunIsNamed /\ SlotAgreesWithJobs /\ Settlement /\ WorkInv /\ LossInv
<1>1. Init => Inv
  BY InitTypeOK, InitSettlement, InitWork, InitLoss DEF Init, SlotAgreesWithJobs
<1>2. Inv /\ [Next]_vars => Inv'
  BY StepKeepsTypes, StepKeepsSlot, StepKeepsSettlement, StepKeepsWork, StepKeepsLoss
<1>3. Inv => InterruptedHasNoOutcome
  BY DEF LossInv, LoneLoss, Lone, Place, NoOutcome, InterruptedHasNoOutcome
<1> QED
  BY <1>1, <1>2, <1>3, PTL DEF Spec
=============================================================================
