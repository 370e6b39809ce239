--------------------------- MODULE StudioFrontend ---------------------------
(***************************************************************************)
(* The interface of Studio (apps/scirust-studio) over the service and its    *)
(* event bus.  The interface is single-threaded: an action of it is what it    *)
(* does between two awaits.  Every command runs on a thread of its own, so     *)
(* answers, snapshots and batches cross each other on the way.  The service    *)
(* is reduced to what the interface can see of it (StudioService has the       *)
(* rest): the state of each job, the worker it holds, and the moments at       *)
(* which its threads publish what happened.                                   *)
(***************************************************************************)
EXTENDS EventBus

CONSTANTS
  MaxJobs,     \* bound: runs admitted
  MaxWorkers,  \* bound: worker processes installed
  MaxBoth,     \* bound: the two together
  MaxCalls,    \* bound: commands in flight, besides the polling loop's
  Answers,     \* outcomes a worker reports (the interface treats them alike)
  Stiff        \* jobs of a capability that reports no progress

ASSUME FrontAssumption ==
  /\ MaxCalls \in Nat \ {0}
  /\ MaxJobs \in Nat /\ MaxWorkers \in Nat \ {0} /\ MaxBoth \in Nat
  /\ 2 <= MaxEvents
  /\ Answers \subseteq {"Completed", "Cancelled", "Failed"}

Jobs    == 1 .. MaxJobs
Workers == 1 .. MaxWorkers
Calls   == 1 .. MaxCalls
None    == 0

VARIABLES
  held,          \* Shared.worker
  slot,          \* Shared.active
  state,         \* Shared.jobs: the JobState of each job
  life,          \* where the reader thread of each worker is
  settling,      \* the job it is settling
  news,          \* what each event not yet delivered says of the worker
  workerRunning, \* AppModel.worker_running
  job, run,      \* AppModel.job_id, AppModel.run
  call,          \* commands in flight
  poll,          \* the polling loop: where it is, what it asked and was told
  belief,        \* history: what last changed worker_running
  missed,        \* history: an exit was dropped from a full buffer
  overlapped,    \* history: two starts have been in flight at once
  contested      \* history: two readers have settled one job at once

busVars     == <<events, dropped, published, batch, told>>
serviceVars == <<held, slot, state, life, settling, contested>>
modelVars   == <<workerRunning, job, run, belief>>
frontVars   == <<busVars, serviceVars, news, modelVars, call, poll, missed, overlapped>>

Settled   == {"Completed", "Cancelled", "Failed", "Interrupted"}
JobStates == {"none", "Queued", "Running", "RunningIndeterminate", "Cancelling"} \cup Settled
Displays  == {"Idle", "Queued", "Determinate", "Indeterminate", "Cancelling"} \cup Settled
Committing == {"answering", "losing"}
Lives     == {"unborn", "installed", "reading", "lost", "exiting", "gone"} \cup Committing
StartPlaces == {"starting", "admitted", "started"}
CallPlaces  == {"idle", "cancelling", "restarting", "spawning", "publishing", "viewing",
                "answered"} \cup StartPlaces
Call == [at : CallPlaces, job : Jobs \cup {None}, worker : Workers \cup {None},
         up : BOOLEAN]
Poll == [at : {"waiting", "drained", "asking", "answered"}, job : Jobs \cup {None},
         state : JobStates]

CallOf(place, j)    == [at |-> place, job |-> j, worker |-> None, up |-> FALSE]
CallAt(place)       == CallOf(place, None)
PollAt(place, j, s) == [at |-> place, job |-> j, state |-> s]
NoPoll              == PollAt("waiting", None, "none")

(* The shell has bootstrapped the service before it opens the window, and the  *)
(* first command of the interface asks what came of it.                       *)
FrontInit ==
  /\ events = <<1>> /\ dropped = 0 /\ published = 1 /\ told = 0
  /\ batch = [events |-> <<>>, dropped |-> 0]
  /\ news = [n \in 1 .. MaxEvents |-> IF n = 1 THEN "started" ELSE "none"]
  /\ held = 1 /\ slot = None
  /\ state = [j \in Jobs |-> "none"]
  /\ life = [w \in Workers |-> IF w = 1 THEN "reading" ELSE "unborn"]
  /\ settling = [w \in Workers |-> None]
  /\ workerRunning = FALSE /\ job = None /\ run = "Idle"
  /\ call = [c \in Calls |-> CallAt(IF c = 1 THEN "viewing" ELSE "idle")]
  /\ poll = NoPoll
  /\ belief = "answer" /\ missed = FALSE /\ overlapped = FALSE /\ contested = FALSE

-----------------------------------------------------------------------------
(* The service: publications, jobs and workers.                               *)

Overflows == Len(events) >= Limit

(* An event that concerns the worker, or any other, which only the activity    *)
(* panel shows.                                                              *)
Announce(what) ==
  /\ Publish
  /\ news' = [news EXCEPT ![published'] = what]
  /\ missed' = (missed \/ (Overflows /\ news[Head(events)] = "exited"))

(* How many events the workers still owe: the bound leaves room for them.       *)
Owed(w) == CASE life[w] \in {"unborn", "gone"} -> 0
             [] life[w] = "installed"          -> 2
             [] OTHER                          -> 1
Reserve[w \in 0 .. MaxWorkers] == IF w = 0 THEN 0 ELSE Owed(w) + Reserve[w - 1]
Room(n) == published + Reserve[MaxWorkers] + n <= MaxEvents

PublishOther ==
  /\ Room(1)
  /\ Announce("none")
  /\ UNCHANGED <<serviceVars, modelVars, call, poll, overlapped>>

serviceFrame == <<busVars, news, modelVars, call, poll, missed, overlapped>>
Working      == slot # None /\ \E w \in Workers : life[w] = "reading"

(* A progress message makes the job Running, whatever it was (it has a slot,    *)
(* so it has not settled).                                                   *)
JobProgresses ==
  /\ Working /\ slot \notin Stiff
  /\ state' = [state EXCEPT ![slot] = "Running"]
  /\ UNCHANGED <<held, slot, life, settling, contested, serviceFrame>>

Live(w, place) == life' = [life EXCEPT ![w] = place]

(* settle, in its two critical sections: the first finds the job unsettled and   *)
(* takes what is to be stored; the second, after the store, writes the outcome   *)
(* whatever has become of the job meanwhile.                                   *)
TakeJob(w, j, place) ==
  /\ settling' = [settling EXCEPT ![w] = j]
  /\ contested' = (contested \/ \E v \in Workers : life[v] \in Committing /\ settling[v] = j)
  /\ Live(w, place)

Commit(w, outcomes, place) ==
  /\ \E o \in outcomes : state' = [state EXCEPT ![settling[w]] = o]
  /\ slot' = IF slot = settling[w] THEN None ELSE slot
  /\ settling' = [settling EXCEPT ![w] = None]
  /\ Live(w, place)

JobAnswered(w) ==
  /\ life[w] = "reading" /\ slot # None
  /\ TakeJob(w, slot, "answering")
  /\ UNCHANGED <<held, slot, state, serviceFrame>>

CommitAnswer(w) ==
  /\ life[w] = "answering"
  /\ Commit(w, Answers, "reading")
  /\ UNCHANGED <<held, contested, serviceFrame>>

(* handle_worker_gone: the handle and the active job, the settlement of that    *)
(* job, and the publication after both.                                       *)
WorkerGone(w) ==
  /\ life[w] = "reading"
  /\ held' = None
  /\ settling' = [settling EXCEPT ![w] = slot]
  /\ Live(w, "lost")
  /\ UNCHANGED <<slot, state, contested, serviceFrame>>

SettleLost(w) ==
  /\ life[w] = "lost"
  /\ settling[w] # None /\ state[settling[w]] \notin Settled
  /\ TakeJob(w, settling[w], "losing")
  /\ UNCHANGED <<held, slot, state, serviceFrame>>

NothingToSettle(w) ==
  /\ life[w] = "lost"
  /\ settling[w] # None => state[settling[w]] \in Settled
  /\ settling' = [settling EXCEPT ![w] = None]
  /\ Live(w, "exiting")
  /\ UNCHANGED <<held, slot, state, contested, serviceFrame>>

CommitLost(w) ==
  /\ life[w] = "losing"
  /\ Commit(w, {"Cancelled", "Interrupted"}, "exiting")
  /\ UNCHANGED <<held, contested, serviceFrame>>

PublishExited(w) ==
  /\ life[w] = "exiting"
  /\ Announce("exited")
  /\ Live(w, "gone")
  /\ UNCHANGED <<held, slot, state, settling, contested, modelVars, call, poll, overlapped>>

-----------------------------------------------------------------------------
(* The commands, on their threads.                                           *)

At(c, place)    == call[c].at = place
Become(c, r)    == call' = [call EXCEPT ![c] = r]
Go(c, place)    == Become(c, CallAt(place))
Return(c)       == Go(c, "idle")
commandFrame    == <<busVars, news, modelVars, poll, missed, overlapped>>

(* start_run: refused (busy, or no worker), or admitted; the send may fail on a *)
(* process that has just died, which leaves the registered job behind.         *)
RunRefused(c) ==
  /\ At(c, "starting") /\ (slot # None \/ held = None)
  /\ Return(c)
  /\ UNCHANGED <<serviceVars, commandFrame>>

AdmitRun(c) == \E j \in Jobs :
  /\ At(c, "starting") /\ slot = None /\ held # None
  /\ state[j] = "none" /\ \A i \in 1 .. j - 1 : state[i] # "none"
  /\ \A w \in Workers : life[w] # "unborn" => w + j <= MaxBoth
  /\ state' = [state EXCEPT ![j] = "Queued"]
  /\ slot' = j
  /\ Return(c) \/ Become(c, CallOf("admitted", j))
  /\ UNCHANGED <<held, life, settling, contested, commandFrame>>

InitialState(j) == IF j \in Stiff THEN "RunningIndeterminate" ELSE "Queued"

SetInitialState(c) ==
  /\ At(c, "admitted")
  /\ state' = [state EXCEPT ![call[c].job] = InitialState(call[c].job)]
  /\ Become(c, CallOf("started", call[c].job))
  /\ UNCHANGED <<held, slot, life, settling, contested, commandFrame>>

(* cancel_run; that it may also stop or kill the worker is among what workers   *)
(* and jobs may do anyway.                                                   *)
CancelJob(c) ==
  /\ At(c, "cancelling")
  /\ state' = IF state[call[c].job] \in Settled THEN state
              ELSE [state EXCEPT ![call[c].job] = "Cancelling"]
  /\ Return(c)
  /\ UNCHANGED <<held, slot, life, settling, contested, commandFrame>>

(* start_worker: nothing to do, or spawn and install.                          *)
CheckWorker(c) ==
  /\ At(c, "restarting")
  /\ Go(c, IF held # None THEN "viewing" ELSE "spawning")
  /\ UNCHANGED <<serviceVars, commandFrame>>

InstallWorker(c) == \E w \in Workers :
  /\ At(c, "spawning")
  /\ life[w] = "unborn" /\ \A v \in 1 .. w - 1 : life[v] # "unborn"
  /\ \A j \in Jobs : state[j] # "none" => w + j <= MaxBoth
  /\ Room(2)
  /\ held' = w
  /\ Live(w, "installed")
  /\ Become(c, [at |-> "publishing", job |-> None, worker |-> w, up |-> FALSE])
  /\ UNCHANGED <<slot, state, settling, contested, commandFrame>>

SpawnFails(c) ==
  /\ At(c, "spawning")
  /\ Return(c)
  /\ UNCHANGED <<serviceVars, commandFrame>>

(* The reader thread starts after the announcement.                            *)
PublishStarted(c) ==
  /\ At(c, "publishing")
  /\ Announce("started")
  /\ Live(call[c].worker, "reading")
  /\ Go(c, "viewing")
  /\ UNCHANGED <<held, slot, state, settling, contested, modelVars, poll, overlapped>>

ViewWorker(c) ==
  /\ At(c, "viewing")
  /\ Become(c, [at |-> "answered", job |-> None, worker |-> None, up |-> held # None])
  /\ UNCHANGED <<serviceVars, commandFrame>>

Command(c) ==
  \/ RunRefused(c) \/ AdmitRun(c) \/ SetInitialState(c) \/ CancelJob(c)
  \/ CheckWorker(c) \/ InstallWorker(c) \/ SpawnFails(c) \/ PublishStarted(c)
  \/ ViewWorker(c)

-----------------------------------------------------------------------------
(* The user's actions and the answers.                                       *)

(* Mutant: a run that is being cancelled occupies nothing.                     *)
ActiveUntilCancelled(r) == r \in {"Queued", "Determinate", "Indeterminate"}
IsActive(r) == r \in {"Queued", "Determinate", "Indeterminate", "Cancelling"}

(* A new call takes the first free place.                                      *)
Free(c) == At(c, "idle") /\ \A d \in 1 .. c - 1 : ~At(d, "idle")

serviceSide == <<busVars, serviceVars, news, missed>>

StartRun(c) ==
  /\ Free(c) /\ workerRunning /\ ~IsActive(run)
  /\ overlapped' = (overlapped \/ \E d \in Calls : call[d].at \in StartPlaces)
  /\ Go(c, "starting")
  /\ UNCHANGED <<serviceSide, modelVars, poll>>

RunStarted(c) ==
  /\ At(c, "started")
  /\ job' = call[c].job
  /\ run' = IF call[c].job \in Stiff THEN "Indeterminate" ELSE "Queued"
  /\ Return(c)
  /\ UNCHANGED <<serviceSide, workerRunning, belief, poll, overlapped>>

(* Mutant: what was asked for is shown as done.                                *)
CancelledAtOnce(r) == IF IsActive(r) THEN "Cancelled" ELSE r
CancelRequested(r) == IF IsActive(r) THEN "Cancelling" ELSE r

CancelRun(c) ==
  /\ Free(c) /\ IsActive(run)
  /\ run' = CancelRequested(run)
  /\ Become(c, CallOf("cancelling", job))
  /\ UNCHANGED <<serviceSide, workerRunning, job, belief, poll, overlapped>>

RestartWorker(c) ==
  /\ Free(c) /\ ~workerRunning
  /\ Go(c, "restarting")
  /\ UNCHANGED <<serviceSide, modelVars, poll, overlapped>>

WorkerAnswer(c) ==
  /\ At(c, "answered")
  /\ workerRunning' = call[c].up /\ belief' = "answer"
  /\ Return(c)
  /\ UNCHANGED <<serviceSide, job, run, poll, overlapped>>

-----------------------------------------------------------------------------
(* The polling loop.                                                         *)

PollEvents ==
  /\ poll.at = "waiting"
  /\ Drain
  /\ poll' = PollAt("drained", None, "none")
  /\ UNCHANGED <<serviceVars, news, modelVars, call, missed, overlapped>>

(* Mutant: an exit is written into the activity panel only.                    *)
StartsOnly(n) == news[n] = "started"
Concerns(n)   == news[n] # "none"

Said      == {i \in 1 .. Len(batch.events) : Concerns(batch.events[i])}
LastSaid(i) == i \in Said /\ \A k \in Said : k <= i

(* The batch is applied in order, so the last event about the worker decides,   *)
(* and is used up; then the loop looks, at once, whether there is a run to      *)
(* follow.                                                                   *)
ApplyBatch ==
  /\ poll.at = "drained"
  /\ \/ \E i \in Said :
          /\ LastSaid(i)
          /\ workerRunning' = (news[batch.events[i]] = "started")
          /\ belief' = "event"
     \/ Said = {} /\ UNCHANGED <<workerRunning, belief>>
  /\ batch' = [events |-> <<>>, dropped |-> 0]
  /\ news' = [n \in 1 .. MaxEvents |->
                IF \E i \in 1 .. Len(events) : events[i] = n THEN news[n] ELSE "none"]
  /\ poll' = IF IsActive(run) THEN PollAt("asking", job, "none") ELSE NoPoll
  /\ UNCHANGED <<events, dropped, published, told, serviceVars, job, run, call, missed,
                 overlapped>>

JobSnapshot ==
  /\ poll.at = "asking"
  /\ poll' = PollAt("answered", None, state[poll.job])
  /\ UNCHANGED <<serviceSide, modelVars, call, overlapped>>

(* Mutant: late progress undoes a cancellation.                                *)
ProgressAnyway(r) == IF IsActive(r) THEN "Determinate" ELSE r
RunProgress(r)    == IF IsActive(r) /\ r # "Cancelling" THEN "Determinate" ELSE r

(* The answer is applied to whatever run is shown by now.                      *)
ApplySnapshot ==
  /\ poll.at = "answered"
  /\ run' = CASE poll.state = "Running"  -> RunProgress(run)
              [] poll.state \in Settled  -> poll.state
              [] OTHER                   -> run
  /\ IF poll.state = "Interrupted" THEN workerRunning' = FALSE /\ belief' = "answer"
                                   ELSE UNCHANGED <<workerRunning, belief>>
  /\ poll' = NoPoll
  /\ UNCHANGED <<serviceSide, job, call, overlapped>>

PollStep == PollEvents \/ ApplyBatch \/ JobSnapshot \/ ApplySnapshot

-----------------------------------------------------------------------------
UserAction(c) == StartRun(c) \/ CancelRun(c) \/ RestartWorker(c)
Answer(c)     == RunStarted(c) \/ WorkerAnswer(c)
ReaderStep(w) ==
  \/ JobAnswered(w) \/ CommitAnswer(w)
  \/ WorkerGone(w) \/ SettleLost(w) \/ NothingToSettle(w) \/ CommitLost(w)
  \/ PublishExited(w)
ServiceStep   == PublishOther \/ JobProgresses \/ \E w \in Workers : ReaderStep(w)

FrontNext ==
  \/ ServiceStep \/ PollStep
  \/ \E c \in Calls : Command(c) \/ UserAction(c) \/ Answer(c)

FrontSpec == FrontInit /\ [][FrontNext]_frontVars

(* The loop of the interface never ends, and each of its commands is answered.  *)
FrontFairSpec == FrontSpec /\ WF_frontVars(PollStep)

-----------------------------------------------------------------------------
(* Properties.                                                               *)

(* The buffer, the service's record, the interface's model and the calls keep   *)
(* to their types.                                                           *)
FrontTypeOK ==
  /\ TypeOK
  /\ held \in Workers \cup {None} /\ slot \in Jobs \cup {None}
  /\ state \in [Jobs -> JobStates]
  /\ life \in [Workers -> Lives] /\ settling \in [Workers -> Jobs \cup {None}]
  /\ news \in [1 .. MaxEvents -> {"none", "started", "exited"}]
  /\ workerRunning \in BOOLEAN /\ job \in Jobs \cup {None} /\ run \in Displays
  /\ call \in [Calls -> Call] /\ poll \in Poll
  /\ belief \in {"event", "answer"} /\ missed \in BOOLEAN /\ overlapped \in BOOLEAN
  /\ contested \in BOOLEAN

(* What the interface shows as the end of a run is the end of that run, unless  *)
(* two starts have been in flight at once: only then may an answer about one     *)
(* run arrive when another is shown.  Two readers that settle one run at once    *)
(* may give it two ends one after the other, and the interface may show the      *)
(* first.                                                                    *)
SettledIsTrue ==
  ~overlapped /\ run \in Settled =>
    state[job] \in Settled /\ (state[job] = run \/ contested)

(* A run is only ever shown further on than before, although the service moves  *)
(* a job from Cancelling back to Running when progress was on its way.          *)
Rank(r) == CASE r \in {"Idle", "Queued", "Indeterminate"} -> 0
             [] r = "Determinate"                         -> 1
             [] r = "Cancelling"                          -> 2
             [] OTHER                                     -> 3
NeverBackwards == [][job' = job => Rank(run) <= Rank(run')]_<<job, run>>

(* The interface does not go on showing a worker that is gone: as long as it    *)
(* shows one, some worker has not been reported, its exit is still to be told,   *)
(* or was dropped; events published after the mutex was released may come in    *)
(* another order than what they tell of, but the last one is an exit.  A         *)
(* command's answer may cross the event, and then stands.                     *)
ExitToCome ==
  \/ \E w \in Workers : life[w] \notin {"unborn", "gone"}
  \/ \E n \in DOMAIN news : news[n] = "exited"
LostWorkerIsNoticed == workerRunning /\ belief = "event" => ExitToCome \/ missed

(* When the run that is shown has settled in the service, it is shown settled.    *)
(* (That a settled job stays settled is not the interface's to ensure: see      *)
(* StudioService, TerminalIsForGood.)                                        *)
ShownHasSettled == job # None /\ state[job] \in Settled
ShownRunFollows == ShownHasSettled ~> (run \in Settled \/ ~ShownHasSettled)
=============================================================================
