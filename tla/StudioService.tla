---------------------------- MODULE StudioService ----------------------------
(***************************************************************************)
(* StudioAppService (scirust-studio-app-service): callers of the service,   *)
(* one reader thread per worker process, and the mutex-protected record      *)
(* `Shared`.  An action is one critical section on `Shared`, one operation   *)
(* on the run store, or one step of a worker process.  A run is named by the  *)
(* `start_run` call that began it: job id and request id are assigned         *)
(* together, so one name serves for both.  Publications on the event bus,     *)
(* which nothing here reads back, are left to EventBus.                      *)
(***************************************************************************)
EXTENDS Naturals, Sequences

CONSTANTS
  Callers,      \* threads that call the service
  MaxRuns,      \* bound: start_run calls that reach the store
  MaxWorkers,   \* bound: worker processes spawned
  MaxBoth,      \* bound: the two together
  Stiff,        \* runs of a capability that reports no progress
  StoreFails    \* whether operations of the run store may fail

ASSUME ServiceAssumption ==
  /\ MaxRuns \in Nat /\ MaxWorkers \in Nat /\ MaxBoth \in Nat
  /\ Stiff \subseteq 1 .. MaxRuns
  /\ StoreFails \in BOOLEAN

Runs    == 1 .. MaxRuns
Workers == 1 .. MaxWorkers
None    == 0

VARIABLES
  worker,       \* Shared.worker: the process it holds a handle of
  active,       \* Shared.active: the run in the single slot
  byRequest,    \* Shared.by_request: runs an answer is expected for
  state,        \* Shared.jobs: the JobState of each run
  pending,      \* Shared.jobs: runs whose PendingRun has not been taken
  shuttingDown, \* Shared.shutting_down
  terminatingForCancel,   \* Shared.terminating_for_cancel
  readerSlot,   \* the join handle of the reader thread, by worker
  store,        \* what the run store holds for each run
  begun,        \* start_run calls so far
  proc,         \* worker processes: is it up, can it be written to, which
                \* run it computes and whether that run was told to stop
  pipe,         \* their stdout, not yet read
  reader,       \* reader threads
  caller        \* callers

shared == <<worker, active, byRequest, state, pending, shuttingDown,
            terminatingForCancel>>
vars   == <<shared, readerSlot, store, begun, proc, pipe, reader, caller>>

(* Mutant: is_terminal forgets the state it is easiest to forget.              *)
SettledByTheWorker == {"Cancelled", "Completed", "Failed"}
Settled      == {"Cancelled", "Completed", "Failed", "Interrupted"}
Unsettled    == {"Queued", "Running", "RunningIndeterminate", "Cancelling"}
JobStates    == {"none"} \cup Settled \cup Unsettled
Outcomes     == {"Completed", "Cancelled", "Failed"}
Finalized    == {"completed", "cancelled", "failed"}
ReaderPlaces == {"none", "reading", "settling", "storing", "committing", "ended"}
CallerPlaces == {"idle", "spawning", "installing", "attaching", "slotting", "begun",
                 "admitted", "cancelling", "sending", "closing", "locking",
                 "joining", "taking", "gone"}

Process == [up : BOOLEAN, open : BOOLEAN, doing : Runs \cup {None}, told : BOOLEAN]
Reader  == [at : ReaderPlaces, run : Runs \cup {None}, outcome : Settled,
            gone : BOOLEAN]
Message == [kind : {"Progress"} \cup Outcomes, run : Runs]
Caller  == [at : CallerPlaces, run : Runs \cup {None}, worker : Workers \cup {None},
            known : BOOLEAN, next : {"idle", "closing"}]

NoProcess == [up |-> FALSE, open |-> FALSE, doing |-> None, told |-> FALSE]
ReaderAt(place) == [at |-> place, run |-> None, outcome |-> "Failed", gone |-> FALSE]
Idle     == [at |-> "idle", run |-> None, worker |-> None, known |-> FALSE, next |-> "idle"]

IsTerminal(j) == state[j] \in Settled

Init ==
  /\ worker = None /\ active = None /\ byRequest = {} /\ pending = {}
  /\ state = [j \in Runs |-> "none"]
  /\ shuttingDown = FALSE /\ terminatingForCancel = FALSE
  /\ readerSlot = None
  /\ store = [j \in Runs |-> "absent"]
  /\ begun = 0
  /\ proc = [w \in Workers |-> NoProcess]
  /\ pipe = [w \in Workers |-> <<>>]
  /\ reader = [w \in Workers |-> ReaderAt("none")]
  /\ caller = [c \in Callers |-> Idle]

-----------------------------------------------------------------------------
(* Worker processes, seen from the other end of their pipes (StudioWorker is  *)
(* the same program from inside).                                            *)

Msg(k, j) == [kind |-> k, run |-> j]
Up(w)     == proc[w].up
Doing(w)  == proc[w].doing
Change(w, p) == proc' = [proc EXCEPT ![w] = p]
Put(w, m) == pipe' = [pipe EXCEPT ![w] = Append(@, m)]
procFrame == <<shared, readerSlot, store, begun, reader, caller>>

(* Progress is capped per run; one outstanding message stands for them.       *)
WorkerReports(w) ==
  /\ Up(w) /\ Doing(w) # None /\ Doing(w) \notin Stiff
  /\ \A i \in 1 .. Len(pipe[w]) : pipe[w][i] # Msg("Progress", Doing(w))
  /\ Put(w, Msg("Progress", Doing(w)))
  /\ UNCHANGED <<proc, procFrame>>

(* A run ends cancelled only if it was told to, or the input has been closed. *)
WorkerAnswers(w) ==
  /\ Up(w) /\ Doing(w) # None
  /\ \E k \in Outcomes :
       /\ k = "Cancelled" => proc[w].told \/ ~proc[w].open
       /\ Put(w, Msg(k, Doing(w)))
  /\ Change(w, [proc[w] EXCEPT !.doing = None, !.told = FALSE])
  /\ UNCHANGED procFrame

Dead(w)   == [NoProcess EXCEPT !.open = proc[w].open]
Kill(w)   == IF w = None THEN UNCHANGED proc ELSE Change(w, Dead(w))

(* End of input makes the worker return from `serve`; else it may crash.       *)
WorkerExits(w)   == Up(w) /\ ~proc[w].open /\ Kill(w) /\ UNCHANGED <<pipe, procFrame>>
WorkerCrashes(w) == Up(w) /\ proc[w].open  /\ Kill(w) /\ UNCHANGED <<pipe, procFrame>>

WorkerStep(w) == WorkerReports(w) \/ WorkerAnswers(w) \/ WorkerExits(w) \/ WorkerCrashes(w)

-----------------------------------------------------------------------------
(* start_worker: the check and the installation are two critical sections.    *)

At(c, place) == caller[c].at = place
Become(c, r) == caller' = [caller EXCEPT ![c] = r]
Go(c, place) == Become(c, [caller[c] EXCEPT !.at = place])
Return(c)    == Become(c, Idle)

StartWorker(c) ==
  /\ At(c, "idle") /\ ~shuttingDown /\ worker = None
  /\ Go(c, "spawning")
  /\ UNCHANGED <<shared, readerSlot, store, begun, proc, pipe, reader>>

Spawned(w) ==
  \/ proc[w] # NoProcess \/ reader[w].at # "none"
  \/ \E c \in Callers : caller[c].worker = w

(* spawn_and_handshake: a process that answers `ready`, or an error.           *)
Spawn(c) ==
  /\ At(c, "spawning")
  /\ \/ \E w \in Workers :
          /\ ~Spawned(w) /\ \A v \in 1 .. w - 1 : Spawned(v)
          /\ w + begun <= MaxBoth
          /\ Change(w, [NoProcess EXCEPT !.up = TRUE, !.open = TRUE])
          /\ Become(c, [caller[c] EXCEPT !.at = "installing", !.worker = w])
     \/ Return(c) /\ UNCHANGED proc
  /\ UNCHANGED <<shared, readerSlot, store, begun, pipe, reader>>

(* Mutant: the pipe to a process whose handle is dropped stays open.           *)
LeakHandle == UNCHANGED proc

(* Dropping a worker handle closes its stdin; nothing kills the process.       *)
DropHandle == IF worker = None THEN UNCHANGED proc
                               ELSE Change(worker, [proc[worker] EXCEPT !.open = FALSE])

InstallWorker(c) ==
  /\ At(c, "installing")
  /\ DropHandle
  /\ worker' = caller[c].worker
  /\ Go(c, "attaching")
  /\ UNCHANGED <<active, byRequest, state, pending, shuttingDown,
                 terminatingForCancel, readerSlot, store, begun, pipe, reader>>

Turn(w, r) == reader' = [reader EXCEPT ![w] = r]

AttachReader(c) ==
  /\ At(c, "attaching")
  /\ Turn(caller[c].worker, ReaderAt("reading"))
  /\ Go(c, "slotting")
  /\ UNCHANGED <<shared, readerSlot, store, begun, proc, pipe>>

(* The slot has a mutex of its own, held by a shutdown while it joins.         *)
SlotIsUnlocked == \A d \in Callers : ~At(d, "joining")

SlotReader(c) ==
  /\ At(c, "slotting") /\ SlotIsUnlocked
  /\ readerSlot' = caller[c].worker
  /\ Return(c)
  /\ UNCHANGED <<shared, store, begun, proc, pipe, reader>>

-----------------------------------------------------------------------------
(* start_run: store entry, admission, then the initial state.                 *)

(* The store entry is opened before anything is checked.  If opening fails the *)
(* directory may already exist.                                              *)
BeginRun(c) ==
  /\ At(c, "idle") /\ begun < MaxRuns
  /\ \A w \in Workers : Spawned(w) => w + begun < MaxBoth
  /\ begun' = begun + 1
  /\ \/ /\ store' = [store EXCEPT ![begun'] = "partial"]
        /\ Become(c, [caller[c] EXCEPT !.at = "begun", !.run = begun'])
     \/ /\ StoreFails
        /\ store' \in {store, [store EXCEPT ![begun'] = "partial"]}
        /\ UNCHANGED caller
  /\ UNCHANGED <<shared, readerSlot, proc, pipe, reader>>

MayAdmit == ~shuttingDown /\ active = None /\ worker # None

(* ShuttingDown, Busy or WorkerUnavailable: the pending run is just dropped.   *)
RefuseRun(c) ==
  /\ At(c, "begun") /\ ~MayAdmit
  /\ Return(c)
  /\ UNCHANGED <<shared, readerSlot, store, begun, proc, pipe, reader>>

Reachable(w) == Up(w) /\ proc[w].open

(* The job is registered and then sent; a send to a dead process is an error   *)
(* that leaves the registration in place.                                     *)
AdmitRun(c) ==
  /\ At(c, "begun") /\ MayAdmit
  /\ state' = [state EXCEPT ![caller[c].run] = "Queued"]
  /\ pending' = pending \cup {caller[c].run}
  /\ active' = caller[c].run
  /\ byRequest' = byRequest \cup {caller[c].run}
  /\ IF Reachable(worker)
     THEN /\ Change(worker, [proc[worker] EXCEPT !.doing = caller[c].run, !.told = FALSE])
          /\ Go(c, "admitted")
     ELSE UNCHANGED proc /\ Return(c)
  /\ UNCHANGED <<worker, shuttingDown, terminatingForCancel, readerSlot, store, begun,
                 pipe, reader>>

InitialState(j) == IF j \in Stiff THEN "RunningIndeterminate" ELSE "Queued"

SetInitialState(c) ==
  /\ At(c, "admitted")
  /\ state' = [state EXCEPT ![caller[c].run] = InitialState(caller[c].run)]
  /\ Return(c)
  /\ UNCHANGED <<worker, active, byRequest, pending, shuttingDown,
                 terminatingForCancel, readerSlot, store, begun, proc, pipe, reader>>

-----------------------------------------------------------------------------
(* cancel_run, called by the user or by shutdown (`next` is where it returns). *)

CancelRun(c) == \E j \in Runs :
  /\ At(c, "idle") /\ state[j] # "none"
  /\ Become(c, [caller[c] EXCEPT !.at = "cancelling", !.run = j])
  /\ UNCHANGED <<shared, readerSlot, store, begun, proc, pipe, reader>>

CancelDone(c) == Become(c, [Idle EXCEPT !.at = caller[c].next])

MarkCancelling(c) ==
  /\ At(c, "cancelling")
  /\ IF IsTerminal(caller[c].run)
     THEN CancelDone(c) /\ UNCHANGED state
     ELSE /\ state' = [state EXCEPT ![caller[c].run] = "Cancelling"]
          /\ Become(c, [caller[c] EXCEPT !.at = "sending",
                                         !.known = caller[c].run \in byRequest])
  /\ UNCHANGED <<worker, active, byRequest, pending, shuttingDown,
                 terminatingForCancel, readerSlot, store, begun, proc, pipe, reader>>

(* A solver that checks for cancellation is sent a message, to whichever       *)
(* process is the worker by now, which ignores a request it is not running;    *)
(* for any other solver that process is killed.                              *)
SendCancel(c) ==
  /\ At(c, "sending") /\ caller[c].run \notin Stiff
  /\ IF caller[c].known /\ worker # None /\ Doing(worker) = caller[c].run
     THEN Change(worker, [proc[worker] EXCEPT !.told = TRUE]) ELSE UNCHANGED proc
  /\ CancelDone(c)
  /\ UNCHANGED <<shared, readerSlot, store, begun, pipe, reader>>

TerminateWorker(c) ==
  /\ At(c, "sending") /\ caller[c].run \in Stiff
  /\ terminatingForCancel' = TRUE
  /\ Kill(worker)
  /\ CancelDone(c)
  /\ UNCHANGED <<worker, active, byRequest, state, pending, shuttingDown, readerSlot,
                 store, begun, pipe, reader>>

-----------------------------------------------------------------------------
(* shutdown, and the destructor.                                             *)

Shutdown(c) ==
  /\ At(c, "idle")
  /\ shuttingDown' = TRUE
  /\ Become(c, [caller[c] EXCEPT !.at = IF active = None THEN "closing" ELSE "cancelling",
                                 !.run = active, !.next = "closing"])
  /\ UNCHANGED <<worker, active, byRequest, state, pending, terminatingForCancel,
                 readerSlot, store, begun, proc, pipe, reader>>

(* `shutdown` is sent and the input closed: either ends an idle worker, and    *)
(* both cancel a running one.                                                *)
CloseInput(c) ==
  /\ At(c, "closing")
  /\ DropHandle
  /\ Go(c, "locking")
  /\ UNCHANGED <<shared, readerSlot, store, begun, pipe, reader>>

TakeReader(c) ==
  /\ At(c, "locking") /\ SlotIsUnlocked
  /\ readerSlot' = None
  /\ Become(c, [caller[c] EXCEPT !.at = IF readerSlot = None THEN "taking" ELSE "joining",
                                 !.worker = readerSlot])
  /\ UNCHANGED <<shared, store, begun, proc, pipe, reader>>

JoinReader(c) ==
  /\ At(c, "joining") /\ reader[caller[c].worker].at = "ended"
  /\ Go(c, "taking")
  /\ UNCHANGED <<shared, readerSlot, store, begun, proc, pipe, reader>>

(* The handle is taken, its process killed unless it has exited.              *)
KillAndDrop == IF worker = None THEN UNCHANGED proc ELSE Change(worker, NoProcess)

TakeWorker(c) ==
  /\ At(c, "taking")
  /\ worker' = None /\ KillAndDrop
  /\ Return(c)
  /\ UNCHANGED <<active, byRequest, state, pending, shuttingDown,
                 terminatingForCancel, readerSlot, store, begun, pipe, reader>>

(* The service is dropped without a shutdown: no caller is inside it.          *)
DropService ==
  /\ \A c \in Callers : At(c, "idle")
  /\ shuttingDown' = TRUE
  /\ worker' = None /\ KillAndDrop
  /\ caller' = [c \in Callers |-> [Idle EXCEPT !.at = "gone"]]
  /\ UNCHANGED <<active, byRequest, state, pending, terminatingForCancel, readerSlot,
                 store, begun, pipe, reader>>

-----------------------------------------------------------------------------
(* The reader thread of a worker.                                            *)

Place(w)       == reader[w].at
Arrives(w, ks) == Place(w) = "reading" /\ pipe[w] # <<>> /\ Head(pipe[w]).kind \in ks
Consume(w)     == pipe' = [pipe EXCEPT ![w] = Tail(@)]
Step(w, place) == Turn(w, [reader[w] EXCEPT !.at = place])

(* Late progress is ignored once the job has settled.                         *)
Moves(j) == j \in byRequest /\ ~IsTerminal(j)

ReadProgress(w) ==
  /\ Arrives(w, {"Progress"})
  /\ Consume(w)
  /\ LET j == Head(pipe[w]).run
     IN  state' = IF Moves(j) THEN [state EXCEPT ![j] = "Running"] ELSE state
  /\ UNCHANGED <<worker, active, byRequest, pending, shuttingDown,
                 terminatingForCancel, readerSlot, store, begun, proc, reader, caller>>

(* Mutant: the pending run is copied, not taken.                              *)
SettlesACopy(w, j, o) ==
  /\ UNCHANGED pending
  /\ Turn(w, [reader[w] EXCEPT !.at = "storing", !.run = j, !.outcome = o])

(* settle, first half: an unsettled job gives up its pending run.  Without one *)
(* a completion cannot be stored and is a failure.                            *)
Settles(w, j, o) ==
  /\ pending' = pending \ {j}
  /\ Turn(w, [reader[w] EXCEPT
       !.at = IF j \in pending THEN "storing" ELSE "committing",
       !.run = j,
       !.outcome = IF o = "Completed" /\ j \notin pending THEN "Failed" ELSE o])

ReadOutcome(w) ==
  /\ Arrives(w, Outcomes)
  /\ Consume(w)
  /\ LET m == Head(pipe[w])
     IN  IF Moves(m.run) THEN Settles(w, m.run, m.kind) ELSE UNCHANGED <<pending, reader>>
  /\ UNCHANGED <<worker, active, byRequest, state, shuttingDown,
                 terminatingForCancel, readerSlot, store, begun, proc, caller>>

LossOutcome == IF terminatingForCancel \/ shuttingDown THEN "Cancelled" ELSE "Interrupted"

(* A result may be longer than a message may be, and a process that died while *)
(* writing leaves an incomplete last line.                                   *)
Unreadable(w) ==
  /\ pipe[w] # <<>>
  /\ Head(pipe[w]).kind = "Completed" \/ (~Up(w) /\ Len(pipe[w]) = 1)

(* The output ended, or is unreadable: forget the process, and decide from the *)
(* two flags whether the active job was cancelled or lost.                    *)
WorkerGone(w) ==
  /\ Place(w) = "reading"
  /\ (~Up(w) /\ pipe[w] = <<>>) \/ Unreadable(w)
  /\ terminatingForCancel' = FALSE
  /\ DropHandle
  /\ worker' = None
  /\ pipe' = [pipe EXCEPT ![w] = <<>>]
  /\ Turn(w, IF active = None THEN ReaderAt("ended")
              ELSE [at |-> "settling", run |-> active, outcome |-> LossOutcome, gone |-> TRUE])
  /\ UNCHANGED <<active, byRequest, state, pending, shuttingDown, readerSlot, store,
                 begun, caller>>

SettleLost(w) ==
  /\ Place(w) = "settling"
  /\ IF IsTerminal(reader[w].run)
     THEN Turn(w, ReaderAt("ended")) /\ UNCHANGED pending
     ELSE Settles(w, reader[w].run, reader[w].outcome)
  /\ UNCHANGED <<worker, active, byRequest, state, shuttingDown,
                 terminatingForCancel, readerSlot, store, begun, proc, pipe, caller>>

(* Mutant: an interruption is finalized like a failure.                        *)
RecordsALoss(o) == IF o = "Completed" THEN "completed"
                   ELSE IF o = "Cancelled" THEN "cancelled" ELSE "failed"

Records(o) == CASE o = "Completed"   -> "completed"
                [] o = "Cancelled"   -> "cancelled"
                [] o = "Failed"      -> "failed"
                [] o = "Interrupted" -> "partial"

(* Mutant: the result of the store operation is discarded for a completion too. *)
Regardless(o) == o
IfNotStored(o) == IF o = "Completed" THEN "Failed" ELSE o

(* The store operation, outside the mutex.  An interruption finalizes nothing. *)
(* A failed operation leaves the partial directory; only a completion notices. *)
StoreRun(w) ==
  /\ Place(w) = "storing"
  /\ \/ /\ store' = [store EXCEPT ![reader[w].run] = Records(reader[w].outcome)]
        /\ Step(w, "committing")
     \/ /\ StoreFails /\ reader[w].outcome # "Interrupted"
        /\ Turn(w, [reader[w] EXCEPT !.at = "committing", !.outcome = IfNotStored(@)])
        /\ UNCHANGED store
  /\ UNCHANGED <<shared, readerSlot, begun, proc, pipe, caller>>

(* Mutants: one of the two tables keeps the settled run.                       *)
FreeActiveOnly(j)  == active' = (IF active = j THEN None ELSE active) /\ UNCHANGED byRequest
FreeRequestOnly(j) == byRequest' = byRequest \ {j} /\ UNCHANGED active

FreeSlot(j) ==
  /\ active' = IF active = j THEN None ELSE active
  /\ byRequest' = byRequest \ {j}

(* settle, second half: the outcome becomes visible and the slot is freed.     *)
CommitSettlement(w) ==
  /\ Place(w) = "committing"
  /\ state' = [state EXCEPT ![reader[w].run] = reader[w].outcome]
  /\ FreeSlot(reader[w].run)
  /\ Turn(w, ReaderAt(IF reader[w].gone THEN "ended" ELSE "reading"))
  /\ UNCHANGED <<worker, pending, shuttingDown, terminatingForCancel, readerSlot,
                 store, begun, proc, pipe, caller>>

ReaderStep(w) ==
  \/ ReadProgress(w) \/ ReadOutcome(w) \/ WorkerGone(w) \/ SettleLost(w)
  \/ StoreRun(w) \/ CommitSettlement(w)

-----------------------------------------------------------------------------
(* A call once begun is carried on; nobody is obliged to make one.             *)
Continues(c) ==
  \/ Spawn(c) \/ InstallWorker(c) \/ AttachReader(c) \/ SlotReader(c)
  \/ RefuseRun(c) \/ AdmitRun(c) \/ SetInitialState(c)
  \/ MarkCancelling(c) \/ SendCancel(c) \/ TerminateWorker(c)
  \/ CloseInput(c) \/ TakeReader(c) \/ JoinReader(c) \/ TakeWorker(c)

Calls(c) == StartWorker(c) \/ BeginRun(c) \/ CancelRun(c) \/ Shutdown(c)

Next ==
  \/ \E c \in Callers : Calls(c) \/ Continues(c)
  \/ DropService
  \/ \E w \in Workers : WorkerStep(w) \/ ReaderStep(w)

Spec == Init /\ [][Next]_vars

(* Threads run, a worker finishes what it computes and exits on end of input;  *)
(* a crash is never certain.                                                 *)
FairSpec ==
  /\ Spec
  /\ \A c \in Callers : WF_vars(Continues(c))
  /\ \A w \in Workers : WF_vars(ReaderStep(w)) /\ WF_vars(WorkerAnswers(w))
                                               /\ WF_vars(WorkerExits(w))

-----------------------------------------------------------------------------
(* Properties.                                                               *)

(* Shared, the threads and the processes keep to their types.                  *)
TypeOK ==
  /\ worker \in Workers \cup {None} /\ active \in Runs \cup {None}
  /\ byRequest \subseteq Runs /\ pending \subseteq Runs
  /\ state \in [Runs -> JobStates]
  /\ shuttingDown \in BOOLEAN /\ terminatingForCancel \in BOOLEAN
  /\ readerSlot \in Workers \cup {None}
  /\ store \in [Runs -> {"absent", "partial"} \cup Finalized]
  /\ begun \in 0 .. MaxRuns
  /\ proc \in [Workers -> Process]
  /\ pipe \in [Workers -> Seq(Message)]
  /\ reader \in [Workers -> Reader]
  /\ caller \in [Callers -> Caller]

(* The slot, the request map and the job records agree: a request is expected  *)
(* for the active job and no other, and the active job has not settled.        *)
SlotAgreesWithJobs ==
  /\ byRequest = IF active = None THEN {} ELSE {active}
  /\ active # None => state[active] \in Unsettled

(* A job reported completed is in the store, whatever the store did.           *)
CompletedIsStored == \A j \in Runs : state[j] = "Completed" => store[j] = "completed"

(* A job reported interrupted has no outcome on record: neither the reader of   *)
(* a dead worker nor one still storing has finalized a result for it.  A second *)
(* worker, which two concurrent start_worker calls put behind the first, may    *)
(* die while the reader of the first still stores its outcome.                 *)
InterruptedHasNoOutcome ==
  (\E v \in Workers : \A w \in Workers : reader[w].at # "none" => w = v)
    => \A j \in Runs : state[j] = "Interrupted" => store[j] \notin {"completed", "failed"}

(* A worker the service can still talk to computes the active job or nothing:   *)
(* no calculation goes on that the interface calls finished.                  *)
WorkFollowsSlot ==
  \A w \in Workers :
    Up(w) /\ proc[w].open /\ Doing(w) # None => w = worker /\ Doing(w) = active

(* Every live worker is in `Shared`, or about to be, or has been told to go:    *)
(* no process is left that nobody owns.                                       *)
NoHiddenWorker ==
  \A w \in Workers :
    Up(w) /\ proc[w].open
      => w = worker \/ \E c \in Callers : At(c, "installing") /\ caller[c].worker = w

(* A finalized record is never replaced: one settlement per run, however the    *)
(* outcome, the cancellation and the death of the worker race.                 *)
FinalizedForGood ==
  [][\A j \in Runs : store[j] \in Finalized => store'[j] = store[j]]_store

(* The active slot is always freed: no admitted run blocks the next one for     *)
(* ever.                                                                      *)
SlotIsFreed == \A j \in Runs : (active = j) ~> (active # j)

NoneRuns == \A w \in Workers : ~Up(w)

(* A start_worker that has looked at shutting_down and not installed yet.       *)
StartUnderWay == \E c \in Callers : At(c, "spawning") \/ At(c, "installing")

(* A shutdown that no start_worker overlaps returns, and leaves no worker       *)
(* running, whoever else cancels, or shuts down too, and waits for the reader    *)
(* or for its mutex.  An overlapping start_worker is let through and installs    *)
(* its worker after the shutdown: service.rs:608 does not hold of that one.      *)
ShutdownStopsWorkers ==
  [](shuttingDown => ~StartUnderWay) => (shuttingDown ~> []NoneRuns)

-----------------------------------------------------------------------------
(* What the code says of itself and does not do: the property of a run that     *)
(* finds it violated.                                                         *)

(* job.rs:62: a terminal state says "this job has stopped for good".            *)
TerminalIsForGood ==
  [][\A j \in Runs : IsTerminal(j) => state'[j] = state[j]]_state
=============================================================================
