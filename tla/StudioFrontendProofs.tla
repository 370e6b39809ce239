------------------------ MODULE StudioFrontendProofs ------------------------
(***************************************************************************)
(* Theorems of StudioFrontend, for every capacity of the buffer and any        *)
(* number of jobs, workers and commands in flight.                           *)
(***************************************************************************)
EXTENDS StudioFrontend, EventBusProofs

AllGone == \A w \in Workers : life[w] \in {"unborn", "gone"}

InSeq(n, s) == \E i \in 1 .. Len(s) : s[i] = n

(* The batch in hand is in order, and there is one only until it is applied.    *)
BatchOK ==
  /\ \A i, k \in 1 .. Len(batch.events) : i < k => batch.events[i] < batch.events[k]
  /\ \A i \in 1 .. Len(batch.events) : batch.events[i] \in 1 .. published
  /\ poll.at # "drained" => batch.events = <<>>

(* Where the news of a worker may be; when every worker has gone, the newest    *)
(* that is under way is of an exit.                                           *)
NewsOK ==
  /\ \A n \in 1 .. MaxEvents : news[n] # "none" => n <= published
  /\ \A n \in 1 .. MaxEvents :
       news[n] = "exited" => missed \/ InSeq(n, events) \/ InSeq(n, batch.events)
  /\ AllGone => \A n \in 1 .. MaxEvents :
       news[n] # "none" => \E m \in 1 .. MaxEvents : n <= m /\ news[m] = "exited"

(* The active job has begun and has not settled; a run that is shown, or asked   *)
(* about, has begun.                                                         *)
JobsOK ==
  /\ slot # None => state[slot] \notin Settled \cup {"none"}
  /\ job # None => state[job] # "none"
  /\ IsActive(run) \/ run \in Settled \/ poll.at \in {"asking", "answered"} => job # None
  /\ poll.at = "asking" => poll.job # None

Answering == {"admitted", "started"}

(* A start that has not been answered is of a job of its own, not shown yet.     *)
CallsOK ==
  /\ \A c \in Calls : call[c].at = "publishing" => call[c].worker # None
  /\ \A c \in Calls : call[c].at \in Answering =>
       call[c].job # None /\ call[c].job # job /\ state[call[c].job] # "none"
  /\ \A c, d \in Calls :
       c # d /\ call[c].at \in Answering /\ call[d].at \in Answering
         => call[c].job # call[d].job

EndIs(s) == state[job] \in Settled /\ (state[job] = s \/ contested)

(* While starts do not overlap, a snapshot on its way is about the run shown.   *)
ShownOK ==
  ~overlapped =>
    /\ \A c, d \in Calls :
         call[c].at \in StartPlaces /\ call[d].at \in StartPlaces => c = d
    /\ IsActive(run) => \A c \in Calls : call[c].at \notin StartPlaces
    /\ poll.at = "asking" => IsActive(run) /\ poll.job = job
    /\ poll.at = "answered" =>
         IsActive(run) /\ (poll.state \in Settled => EndIs(poll.state))
    /\ run \in Settled => EndIs(run)

(* A reader that is to write an outcome has found its job unsettled; it is         *)
(* settled by now only if another reader is at it too.                         *)
Writes(w) == life[w] \in Committing
CommitOK ==
  /\ \A w \in Workers : settling[w] # None => state[settling[w]] # "none"
  /\ \A w \in Workers : Writes(w) =>
       settling[w] # None /\ (state[settling[w]] \notin Settled \/ contested)
  /\ \A v, w \in Workers :
       v # w /\ Writes(v) /\ Writes(w) /\ settling[v] = settling[w] => contested

FrontInv ==
  /\ FrontTypeOK /\ IInv /\ BatchOK /\ NewsOK /\ LostWorkerIsNoticed
  /\ JobsOK /\ CallsOK /\ ShownOK /\ CommitOK

-----------------------------------------------------------------------------
(* The initial states.                                                       *)
LEMMA FrontInitInv == FrontInit => FrontInv
<1> SUFFICES ASSUME FrontInit PROVE FrontInv
  OBVIOUS
<1> USE FrontAssumption, BusAssumption
<1>1. events = <<1>> /\ Len(events) = 1 /\ events[1] = 1 /\ batch.events = <<>>
  BY DEF FrontInit
<1>2. Limit \in Nat \ {0}
  BY LimitIsPositive
<1>3. TypeOK
  BY <1>1, <1>2 DEF FrontInit, TypeOK, EventBatch
<1>4. IInv
  BY <1>1, <1>2, <1>3 DEF FrontInit, IInv, LossIsCounted, NewestAreKept, LossOnlyWhenFull
<1>5. FrontTypeOK
  <2>1. call \in [Calls -> Call] /\ poll \in Poll
    <3>1. CallAt("viewing") \in Call /\ CallAt("idle") \in Call
      BY DEF CallAt, CallOf, Call, CallPlaces, None
    <3> QED
      BY <3>1 DEF FrontInit, Poll, PollAt, NoPoll, None, JobStates
  <2>2. life \in [Workers -> Lives] /\ held \in Workers
    BY DEF FrontInit, Workers, Lives
  <2> QED
    BY <1>3, <2>1, <2>2 DEF FrontInit, FrontTypeOK, JobStates, Displays, None
<1>6. BatchOK
  BY <1>1 DEF BatchOK
<1>7. NewsOK /\ LostWorkerIsNoticed
  BY <1>1 DEF FrontInit, NewsOK, InSeq, AllGone, Workers, LostWorkerIsNoticed
<1>8. JobsOK /\ CallsOK /\ ShownOK /\ CommitOK
  BY DEF FrontInit, JobsOK, CallsOK, ShownOK, CommitOK, Writes, Committing, IsActive, Settled, None, CallAt, CallOf, PollAt, NoPoll,
         StartPlaces, Answering
<1> QED
  BY <1>3, <1>4, <1>5, <1>6, <1>7, <1>8 DEF FrontInv

-----------------------------------------------------------------------------
(* Types.                                                                    *)
LEMMA TypesKept ==
  ASSUME FrontTypeOK, IInv, JobsOK, CallsOK, FrontNext, TypeOK' PROVE FrontTypeOK'
<1> USE FrontAssumption, BusAssumption
<1> USE DEF FrontTypeOK, Jobs, Workers, Calls, None, Live, Become, Go, Return, CallAt, CallOf,
            Settled, JobStates, Lives, Committing, CallPlaces, StartPlaces, Call, busVars, serviceVars,
            modelVars, serviceFrame, commandFrame, serviceSide
<1>1. CASE PublishOther
  BY <1>1 DEF PublishOther, Announce, Publish, TypeOK
<1>2. CASE JobProgresses
  BY <1>2 DEF JobProgresses, Working
<1>3. ASSUME NEW w \in Workers, NEW outcomes \in SUBSET Settled, NEW place \in Lives,
             Commit(w, outcomes, place), UNCHANGED <<held, contested, serviceFrame>>
      PROVE  FrontTypeOK'
  <2>1. PICK o \in outcomes : state' = [state EXCEPT ![settling[w]] = o]
    BY <1>3 DEF Commit
  <2>2. state' \in [Jobs -> JobStates] /\ slot' \in Jobs \cup {None}
    BY <1>3, <2>1 DEF Commit
  <2>3. life' \in [Workers -> Lives] /\ settling' \in [Workers -> Jobs \cup {None}]
    BY <1>3 DEF Commit
  <2> QED
    BY <1>3, <2>2, <2>3
<1>4. ASSUME NEW w \in Workers, JobAnswered(w) \/ SettleLost(w) \/ NothingToSettle(w)
      PROVE  FrontTypeOK'
  <2>1. life' \in [Workers -> Lives]
    BY <1>4 DEF JobAnswered, SettleLost, NothingToSettle, TakeJob
  <2>2. settling' \in [Workers -> Jobs \cup {None}]
    <3>1. CASE JobAnswered(w)
      BY <3>1 DEF JobAnswered, TakeJob
    <3>2. CASE SettleLost(w)
      BY <3>2 DEF SettleLost, TakeJob
    <3>3. CASE NothingToSettle(w)
      BY <3>3 DEF NothingToSettle
    <3> QED BY <1>4, <3>1, <3>2, <3>3
  <2> QED
    BY <1>4, <2>1, <2>2 DEF JobAnswered, SettleLost, NothingToSettle, TakeJob
<1>5. ASSUME NEW w \in Workers, WorkerGone(w) PROVE FrontTypeOK'
  BY <1>5 DEF WorkerGone
<1>6. ASSUME NEW w \in Workers, PublishExited(w) PROVE FrontTypeOK'
  BY <1>6 DEF PublishExited, Announce, Publish, TypeOK
<1>7. CASE PollEvents
  BY <1>7 DEF PollEvents, Poll, PollAt, Drain
<1>8. CASE ApplyBatch
  BY <1>8 DEF ApplyBatch, Poll, PollAt, NoPoll, IsActive
<1>9. CASE JobSnapshot
  <2>1. poll.job \in Jobs
    BY <1>9 DEF JobSnapshot, Poll, JobsOK
  <2>2. poll' \in Poll
    BY <1>9, <2>1 DEF JobSnapshot, Poll, PollAt
  <2> QED
    BY <1>9, <2>2 DEF JobSnapshot
<1>10. CASE ApplySnapshot
  <2>1. run' \in {run, poll.state, "Determinate"} /\ (run' = poll.state => run' \in Displays)
    BY <1>10 DEF ApplySnapshot, RunProgress, Displays
  <2>2. run' \in Displays /\ workerRunning' \in BOOLEAN /\ belief' \in {"event", "answer"}
    BY <1>10, <2>1 DEF ApplySnapshot, Displays
  <2> QED
    BY <1>10, <2>2 DEF ApplySnapshot, Poll, PollAt, NoPoll
<1>11. ASSUME NEW c \in Calls, Command(c) PROVE FrontTypeOK'
  <2>1. CASE RunRefused(c)
    BY <2>1, <1>11 DEF RunRefused
  <2>2. CASE AdmitRun(c)
    <3>1. PICK j \in Jobs : /\ state' = [state EXCEPT ![j] = "Queued"] /\ slot' = j
                            /\ Return(c) \/ Become(c, CallOf("admitted", j))
      BY <2>2 DEF AdmitRun
    <3>2. call' \in [Calls -> Call]
      <4>1. CallOf("admitted", j) \in Call /\ CallAt("idle") \in Call
        OBVIOUS
      <4>2. call' = [call EXCEPT ![c] = CallAt("idle")]
            \/ call' = [call EXCEPT ![c] = CallOf("admitted", j)]
        BY <3>1
      <4> QED
        BY <4>1, <4>2 DEF FrontTypeOK
    <3>3. state' \in [Jobs -> JobStates]
      BY <3>1
    <3> QED
      BY <2>2, <3>1, <3>2, <3>3 DEF AdmitRun
  <2>3. CASE SetInitialState(c)
    BY <2>3, <1>11 DEF SetInitialState, InitialState
  <2>4. CASE CancelJob(c)
    BY <2>4, <1>11 DEF CancelJob
  <2>5. CASE CheckWorker(c)
    BY <2>5, <1>11 DEF CheckWorker
  <2>6. CASE InstallWorker(c)
    BY <2>6, <1>11 DEF InstallWorker
  <2>7. CASE SpawnFails(c)
    BY <2>7, <1>11 DEF SpawnFails
  <2>8. CASE PublishStarted(c)
    BY <2>8, <1>11 DEF PublishStarted, Announce, Publish, TypeOK
  <2>9. CASE ViewWorker(c)
    BY <2>9, <1>11 DEF ViewWorker
  <2> QED
    BY <1>11, <2>1, <2>2, <2>3, <2>4, <2>5, <2>6, <2>7, <2>8, <2>9 DEF Command
<1>12. ASSUME NEW c \in Calls, UserAction(c) \/ Answer(c) PROVE FrontTypeOK'
  <2>1. CASE StartRun(c)
    BY <2>1, <1>12 DEF StartRun
  <2>2. CASE RunStarted(c)
    BY <2>2, <1>12 DEF RunStarted, Displays
  <2>3. CASE CancelRun(c)
    BY <2>3, <1>12 DEF CancelRun, CancelRequested, Displays
  <2>4. CASE RestartWorker(c)
    BY <2>4, <1>12 DEF RestartWorker
  <2>5. CASE WorkerAnswer(c)
    BY <2>5, <1>12 DEF WorkerAnswer
  <2> QED
    BY <1>12, <2>1, <2>2, <2>3, <2>4, <2>5 DEF UserAction, Answer
<1>13. ASSUME NEW w \in Workers, ReaderStep(w) PROVE FrontTypeOK'
  <2>1. CASE CommitAnswer(w)
    BY <2>1, <1>3, <1>13 DEF CommitAnswer
  <2>2. CASE CommitLost(w)
    BY <2>2, <1>3, <1>13 DEF CommitLost
  <2> QED
    BY <1>4, <1>5, <1>6, <1>13, <2>1, <2>2 DEF ReaderStep
<1> QED
  BY <1>1, <1>2, <1>7, <1>8, <1>9, <1>10, <1>11, <1>12, <1>13
     DEF FrontNext, ServiceStep, PollStep
-----------------------------------------------------------------------------
(* The buffer.                                                               *)

(* A step publishes, drains, applies what was drained, or leaves buffer and     *)
(* batch alone.                                                              *)
OtherStep == /\ UNCHANGED <<busVars, news, missed>>
             /\ poll'.at = "drained" <=> poll.at = "drained"
LEMMA BusSteps ==
  ASSUME FrontNext
  PROVE  \/ UNCHANGED poll /\ \E what \in {"none", "started", "exited"} : Announce(what)
         \/ PollEvents \/ ApplyBatch \/ OtherStep
<1> USE DEF busVars, serviceSide, serviceFrame, commandFrame, OtherStep
<1>1. CASE ServiceStep
  BY <1>1 DEF ServiceStep, PublishOther, JobProgresses, ReaderStep, JobAnswered,
              CommitAnswer, WorkerGone, SettleLost, NothingToSettle, CommitLost, TakeJob, Commit,
              PublishExited
<1>2. CASE PollStep
  BY <1>2 DEF PollStep, JobSnapshot, ApplySnapshot, PollAt, NoPoll
<1>3. ASSUME NEW c \in Calls, Command(c)
      PROVE UNCHANGED poll /\ (Announce("started") \/ UNCHANGED <<busVars, news, missed>>)
  BY <1>3 DEF Command, RunRefused, AdmitRun, SetInitialState, CancelJob, CheckWorker,
              InstallWorker, SpawnFails, PublishStarted, ViewWorker
<1>4. ASSUME NEW c \in Calls, UserAction(c) \/ Answer(c)
      PROVE UNCHANGED <<busVars, news, missed, poll>>
  BY <1>4 DEF UserAction, Answer, StartRun, CancelRun, RestartWorker, RunStarted, WorkerAnswer
<1> QED
  BY <1>1, <1>2, <1>3, <1>4 DEF FrontNext

(* The buffer keeps its invariant under the interface that uses it.             *)
LEMMA BufferKept == ASSUME IInv, FrontNext PROVE IInv'
<1>1. CASE \E what \in {"none", "started", "exited"} : Announce(what)
  BY <1>1, PublishKeeps DEF Announce
<1>2. CASE PollEvents
  BY <1>2, DrainKeeps DEF PollEvents
<1>3. CASE ApplyBatch
  <2>1. batch' \in EventBatch
    BY <1>3 DEF ApplyBatch, EventBatch
  <2> QED
    BY <1>3, <2>1 DEF ApplyBatch, IInv, TypeOK, LossIsCounted, NewestAreKept, LossOnlyWhenFull,
                      Limit
<1>4. CASE OtherStep
  BY <1>4 DEF OtherStep, busVars, IInv, TypeOK, LossIsCounted, NewestAreKept, LossOnlyWhenFull,
              Limit
<1> QED
  BY <1>1, <1>2, <1>3, <1>4, BusSteps

LEMMA BatchKept == ASSUME IInv, BatchOK, FrontNext PROVE BatchOK'
<1>1. CASE UNCHANGED poll /\ \E what \in {"none", "started", "exited"} : Announce(what)
  BY <1>1 DEF Announce, Publish, BatchOK, IInv, TypeOK, EventBatch
<1>2. CASE PollEvents
  <2>1. batch'.events = events /\ poll'.at = "drained" /\ published' = published
    BY <1>2 DEF PollEvents, Drain, PollAt
  <2> QED
    BY <2>1 DEF BatchOK, IInv, TypeOK, NewestAreKept, LossIsCounted
<1>3. CASE ApplyBatch
  BY <1>3 DEF ApplyBatch, BatchOK
<1>4. CASE OtherStep
  BY <1>4 DEF OtherStep, busVars, BatchOK
<1> QED
  BY <1>1, <1>2, <1>3, <1>4, BusSteps

-----------------------------------------------------------------------------
(* What is known of the worker.                                              *)

(* A step that neither publishes nor touches the batch leaves a worker behind    *)
(* if it changes the stage of any.                                            *)
LEMMA LivesLeft ==
  ASSUME FrontTypeOK, CallsOK, FrontNext, AllGone'
  PROVE  AllGone \/ \E w \in Workers : PublishExited(w)
<1> USE DEF AllGone, Live, Lives, Committing, FrontTypeOK
<1>1. CASE ServiceStep
  <2>1. \A w \in Workers : ReaderStep(w) => PublishExited(w)
    BY DEF ReaderStep, JobAnswered, CommitAnswer, WorkerGone, SettleLost, NothingToSettle,
           CommitLost, TakeJob, Commit
  <2> QED
    BY <1>1, <2>1 DEF ServiceStep, PublishOther, JobProgresses, serviceVars
<1>2. CASE PollStep
  BY <1>2 DEF PollStep, PollEvents, ApplyBatch, JobSnapshot, ApplySnapshot, serviceVars,
              serviceSide
<1>3. ASSUME NEW c \in Calls, Command(c) PROVE UNCHANGED life
  <2>1. ~InstallWorker(c)
    BY DEF InstallWorker
  <2>2. ~PublishStarted(c)
    <3>1. SUFFICES ASSUME PublishStarted(c) PROVE FALSE
      OBVIOUS
    <3>2. call[c].worker \in Workers
      BY <3>1 DEF PublishStarted, At, CallsOK, Call
    <3> QED
      BY <3>1, <3>2 DEF PublishStarted
  <2> QED
    BY <1>3, <2>1, <2>2 DEF Command, RunRefused, AdmitRun, SetInitialState, CancelJob, CheckWorker,
              SpawnFails, ViewWorker, serviceVars
<1>4. ASSUME NEW c \in Calls, UserAction(c) \/ Answer(c) PROVE UNCHANGED life
  BY <1>4 DEF UserAction, Answer, StartRun, CancelRun, RestartWorker, RunStarted, WorkerAnswer,
              serviceSide, serviceVars
<1> QED
  BY <1>1, <1>2, <1>3, <1>4 DEF FrontNext

(* Publishing adds to the end of the buffer; what falls out of it is noted.     *)
LEMMA AnnounceKeepsNews ==
  ASSUME FrontTypeOK, IInv, NewsOK, NEW what, Announce(what),
         NEW n \in 1 .. MaxEvents, news'[n] = "exited"
  PROVE  missed' \/ InSeq(n, events)' \/ InSeq(n, batch.events)'
<1>1. IInv'
  BY PublishKeeps DEF Announce
<1>2. /\ published' = published + 1 /\ published' \in 1 .. MaxEvents /\ published \in Nat
      /\ events' = Append(MakeRoom(events), published') /\ MakeRoom(events) \in Seq(Nat)
      /\ events' \in Seq(Nat) /\ Len(events') = Len(MakeRoom(events)) + 1
  BY BusAssumption, RoomForOne DEF Announce, Publish, IInv, TypeOK
<1>3. CASE n = published'
  BY <1>2, <1>3 DEF InSeq
<1>4. CASE n # published'
  <2>1. news[n] = "exited" /\ batch' = batch /\ (missed => missed')
    BY <1>2, <1>4 DEF Announce, Publish, FrontTypeOK
  <2>2. CASE InSeq(n, events)
    <3>1. PICK i \in 1 .. Len(events) : events[i] = n
      BY <2>2 DEF InSeq
    <3>2. CASE Len(events) < Limit
      <4>1. MakeRoom(events) = events
        BY <3>2, LimitIsPositive DEF MakeRoom, IInv, TypeOK
      <4>2. events'[i] = n /\ i \in 1 .. Len(events')
        BY <3>1, <4>1, <1>2 DEF IInv, TypeOK
      <4> QED
        BY <4>2 DEF InSeq
    <3>3. CASE Len(events) >= Limit /\ i = 1
      <4>1. Head(events) = n
        BY <3>1, <3>3 DEF IInv, TypeOK
      <4> QED
        BY <2>1, <4>1, <3>3 DEF Announce, Overflows
    <3>4. CASE Len(events) >= Limit /\ i # 1
      <4>1. MakeRoom(events) = Tail(events)
        BY <3>4 DEF MakeRoom
      <4>2. Tail(events)[i - 1] = n /\ i - 1 \in 1 .. Len(Tail(events))
        BY <3>1, <3>4 DEF IInv, TypeOK
      <4>3. events'[i - 1] = n /\ i - 1 \in 1 .. Len(events')
        BY <4>1, <4>2, <1>2
      <4> QED
        BY <4>3 DEF InSeq
    <3> QED
      BY <3>2, <3>3, <3>4, <3>1, LimitIsPositive DEF IInv, TypeOK
  <2>3. CASE ~InSeq(n, events)
    BY <2>1, <2>3 DEF NewsOK, InSeq
  <2> QED
    BY <2>2, <2>3
<1> QED
  BY <1>3, <1>4

LEMMA AnnouncedNewsOK ==
  ASSUME FrontTypeOK, IInv, NewsOK, CallsOK, FrontNext,
         NEW what \in {"none", "started", "exited"}, Announce(what), UNCHANGED poll
  PROVE  NewsOK'
<1>1. published' = published + 1 /\ published' \in 1 .. MaxEvents /\ published \in Nat
  BY BusAssumption DEF Announce, Publish, IInv, TypeOK
<1>2. \A n \in 1 .. MaxEvents : news'[n] = IF n = published' THEN what ELSE news[n]
  BY DEF Announce, FrontTypeOK
<1>3. \A n \in 1 .. MaxEvents : news'[n] # "none" => n <= published'
  BY <1>1, <1>2 DEF NewsOK
<1>4. \A n \in 1 .. MaxEvents :
        news'[n] = "exited" => missed' \/ InSeq(n, events)' \/ InSeq(n, batch.events)'
  BY AnnounceKeepsNews
<1>5. ASSUME AllGone', NEW n \in 1 .. MaxEvents, news'[n] # "none"
      PROVE  \E m \in 1 .. MaxEvents : n <= m /\ news'[m] = "exited"
  <2>1. CASE what = "exited"
    BY <2>1, <1>1, <1>2, <1>3, <1>5
  <2>2. CASE what # "exited"
    <3>1. ~\E w \in Workers : PublishExited(w)
      BY <2>2, <1>1, <1>2 DEF PublishExited, Announce, FrontTypeOK
    <3>2. AllGone
      BY <3>1, <1>5, LivesLeft
    <3>3. what = "none"
      <4>1. SUFFICES ASSUME what = "started" PROVE FALSE
        BY <2>2
      <4>2. PICK c \in Calls : PublishStarted(c)
        <5>1. news' # [news EXCEPT ![published'] = "none"] /\ published' # published
          <6>1. [news EXCEPT ![published'] = "none"][published'] = "none"
            BY <1>1 DEF FrontTypeOK
          <6>2. news'[published'] = "started"
            BY <4>1, <1>1, <1>2
          <6>3. published' # published
            BY <1>1
          <6> QED
            BY <6>1, <6>2, <6>3, Zenon
        <5>2. ~ServiceStep
          BY <5>1, <3>1 DEF ServiceStep, PublishOther, Announce, JobProgresses,
                            ReaderStep, JobAnswered, CommitAnswer, WorkerGone, SettleLost,
                            NothingToSettle, CommitLost, serviceFrame, busVars
        <5>3. ~PollStep
          BY <5>1 DEF PollStep, PollEvents, Drain, ApplyBatch, JobSnapshot, ApplySnapshot,
                      serviceSide, busVars
        <5>4. \A c \in Calls : ~UserAction(c) /\ ~Answer(c)
          BY <5>1 DEF UserAction, Answer, StartRun, CancelRun, RestartWorker, RunStarted,
                      WorkerAnswer, serviceSide, busVars
        <5> QED
          BY <5>1, <5>2, <5>3, <5>4
             DEF FrontNext, Command, RunRefused, AdmitRun, SetInitialState, CancelJob,
                 CheckWorker, InstallWorker, SpawnFails, ViewWorker, commandFrame, busVars
      <4>3. call[c].worker \in Workers
        BY <4>2 DEF PublishStarted, At, CallsOK, FrontTypeOK, Call
      <4> QED
        BY <4>2, <4>3, <1>5 DEF PublishStarted, Live, AllGone, FrontTypeOK
    <3>4. n # published' /\ news[n] # "none"
      BY <3>3, <1>2, <1>5
    <3>5. PICK m \in 1 .. MaxEvents : n <= m /\ news[m] = "exited"
      BY <3>2, <3>4 DEF NewsOK
    <3>6. m # published'
      BY <3>5, <1>1 DEF NewsOK
    <3> QED
      BY <3>5, <3>6, <1>2
  <2> QED
    BY <2>1, <2>2
<1> QED
  BY <1>3, <1>4, <1>5 DEF NewsOK

LEMMA DrainedNewsOK ==
  ASSUME FrontTypeOK, IInv, BatchOK, NewsOK, PollEvents PROVE NewsOK'
  BY DEF PollEvents, Drain, PollAt, NewsOK, InSeq, BatchOK, AllGone, serviceVars

(* After a batch only what is still buffered is under way, and the buffer has no *)
(* gap: it holds whatever is newer than something it holds.                     *)
LEMMA AppliedNewsOK ==
  ASSUME FrontTypeOK, IInv, NewsOK, ApplyBatch PROVE NewsOK'
<1>1. /\ \A n \in 1 .. MaxEvents : news'[n] = IF InSeq(n, events) THEN news[n] ELSE "none"
      /\ UNCHANGED <<events, published, life, missed>>
  BY DEF ApplyBatch, InSeq, serviceVars
<1>2. \A n \in 1 .. MaxEvents : news'[n] # "none" => news[n] # "none" /\ InSeq(n, events)
  BY <1>1
<1>3. ASSUME AllGone', NEW n \in 1 .. MaxEvents, news'[n] # "none"
      PROVE  \E m \in 1 .. MaxEvents : n <= m /\ news'[m] = "exited"
  <2>1. PICK m \in 1 .. MaxEvents : n <= m /\ news[m] = "exited"
    BY <1>1, <1>2, <1>3 DEF NewsOK, AllGone
  <2>2. PICK i \in 1 .. Len(events) : events[i] = n
    BY <1>2, <1>3 DEF InSeq
  <2>3. m <= published /\ published \in Nat /\ Len(events) \in Nat
    BY <2>1 DEF NewsOK, IInv, TypeOK
  <2>4. n = published - Len(events) + i
    BY <2>2 DEF IInv, NewestAreKept
  <2>5. m - published + Len(events) \in 1 .. Len(events)
    BY <2>1, <2>2, <2>3, <2>4
  <2>6. events[m - published + Len(events)] = m
    BY <2>3, <2>5 DEF IInv, NewestAreKept
  <2> QED
    BY <1>1, <2>1, <2>5, <2>6 DEF InSeq
<1> QED
  BY <1>1, <1>2, <1>3 DEF NewsOK, InSeq

LEMMA NewsKept ==
  ASSUME FrontTypeOK, IInv, BatchOK, NewsOK, CallsOK, FrontNext PROVE NewsOK'
<1>1. CASE UNCHANGED poll /\ \E what \in {"none", "started", "exited"} : Announce(what)
  BY <1>1, AnnouncedNewsOK
<1>2. CASE PollEvents
  BY <1>2, DrainedNewsOK
<1>3. CASE ApplyBatch
  BY <1>3, AppliedNewsOK
<1>4. CASE OtherStep
  <2>1. UNCHANGED <<events, published, batch, news, missed>>
    BY <1>4 DEF OtherStep, busVars
  <2>2. AllGone' => AllGone
    <3>1. ~\E w \in Workers : PublishExited(w)
      BY <2>1 DEF PublishExited, Announce, Publish, IInv, TypeOK
    <3> QED
      BY <3>1, LivesLeft
  <2> QED
    BY <2>1, <2>2 DEF NewsOK, InSeq
<1> QED
  BY <1>1, <1>2, <1>3, <1>4, BusSteps

(* LostWorkerIsNoticed: the batch ends on an exit when every worker has gone, or  *)
(* the exit is still to be told, or was dropped.                              *)
LEMMA LostKept ==
  ASSUME FrontTypeOK, FrontTypeOK', IInv, BatchOK, NewsOK, CallsOK, LostWorkerIsNoticed,
         FrontNext
  PROVE  LostWorkerIsNoticed'
<1> SUFFICES ASSUME workerRunning', belief' = "event", AllGone', ~missed'
             PROVE  \E n \in 1 .. MaxEvents : news'[n] = "exited"
  BY DEF FrontTypeOK, LostWorkerIsNoticed, ExitToCome, AllGone, Lives
<1>1. CASE ApplyBatch
  <2> DEFINE kept(n) == \E i \in 1 .. Len(events) : events[i] = n
  <2>1. /\ \A n \in 1 .. MaxEvents : news'[n] = IF kept(n) THEN news[n] ELSE "none"
        /\ AllGone /\ ~missed
    BY <1>1 DEF ApplyBatch, serviceVars, AllGone
  <2>2. \A n \in 1 .. MaxEvents : news[n] = "exited" => kept(n) \/ InSeq(n, batch.events)
    BY <2>1 DEF NewsOK, InSeq
  <2>3. CASE Said = {}
    <3>1. workerRunning /\ belief = "event"
      BY <1>1, <2>3 DEF ApplyBatch
    <3>2. PICK n \in 1 .. MaxEvents : news[n] = "exited"
      BY <2>1, <3>1 DEF LostWorkerIsNoticed, ExitToCome, AllGone, FrontTypeOK
    <3>3. ~InSeq(n, batch.events)
      BY <2>3, <3>2 DEF InSeq, Said, Concerns
    <3> QED
      BY <2>1, <2>2, <3>2, <3>3
  <2>4. CASE Said # {}
    <3>1. PICK i \in Said : LastSaid(i) /\ workerRunning' = (news[batch.events[i]] = "started")
      BY <1>1, <2>4 DEF ApplyBatch
    <3>2. i \in 1 .. Len(batch.events) /\ news[batch.events[i]] = "started"
      BY <3>1 DEF Said
    <3>3. batch.events[i] \in 1 .. MaxEvents
      BY <3>2, BusAssumption DEF BatchOK, IInv, TypeOK, EventBatch
    <3>4. PICK m \in 1 .. MaxEvents : batch.events[i] <= m /\ news[m] = "exited"
      BY <2>1, <3>2, <3>3 DEF NewsOK
    <3>5. ~InSeq(m, batch.events)
      <4>1. SUFFICES ASSUME NEW k \in 1 .. Len(batch.events), batch.events[k] = m PROVE FALSE
        BY DEF InSeq
      <4>2. k \in Said
        BY <3>4, <4>1 DEF Said, Concerns
      <4>3. k <= i
        BY <3>1, <4>2 DEF LastSaid
      <4>4. k # i
        BY <3>2, <3>4, <4>1
      <4>5. batch.events[k] < batch.events[i]
        BY <3>2, <4>3, <4>4 DEF BatchOK, IInv, TypeOK, EventBatch
      <4> QED
        BY <3>3, <3>4, <4>1, <4>5
    <3> QED
      BY <2>1, <2>2, <3>4, <3>5
  <2> QED
    BY <2>3, <2>4
<1>2. CASE ~ApplyBatch
  <2>1. workerRunning /\ belief = "event"
    BY <1>2 DEF FrontNext, ServiceStep, PollStep, Command, UserAction, Answer, PublishOther,
                JobProgresses, ReaderStep, JobAnswered, CommitAnswer, WorkerGone, SettleLost,
                NothingToSettle, CommitLost, TakeJob, Commit, PublishExited, PollEvents,
                JobSnapshot, ApplySnapshot, RunRefused, AdmitRun, SetInitialState, CancelJob,
                CheckWorker, InstallWorker, SpawnFails, PublishStarted, ViewWorker, StartRun,
                RunStarted, CancelRun, RestartWorker, WorkerAnswer, serviceFrame, serviceSide,
                commandFrame, modelVars
  <2>2. missed => missed'
    BY <1>2, BusSteps DEF Announce, PollEvents, OtherStep
  <2>3. CASE AllGone
    <3>1. PICK n \in 1 .. MaxEvents : news[n] = "exited"
      BY <2>1, <2>2, <2>3 DEF LostWorkerIsNoticed, ExitToCome, AllGone, FrontTypeOK
    <3>2. n <= published /\ published \in Nat
      BY <3>1 DEF NewsOK, IInv, TypeOK
    <3>3. news'[n] = news[n]
      <4>1. CASE UNCHANGED news
        BY <4>1
      <4>2. CASE \E what \in {"none", "started", "exited"} : Announce(what)
        BY <3>2, <4>2 DEF Announce, Publish, FrontTypeOK
      <4> QED
        BY <1>2, <4>1, <4>2, BusSteps DEF PollEvents, OtherStep
    <3> QED
      BY <3>1, <3>3
  <2>4. CASE ~AllGone
    <3>1. PICK w \in Workers : PublishExited(w)
      BY <2>4, LivesLeft
    <3>2. published' \in 1 .. MaxEvents
      BY <3>1, BusAssumption DEF PublishExited, Announce, Publish, IInv, TypeOK
    <3>3. news'[published'] = "exited"
      BY <3>1, <3>2 DEF PublishExited, Announce, FrontTypeOK
    <3> QED
      BY <3>2, <3>3
  <2> QED
    BY <2>3, <2>4
<1> QED
  BY <1>1, <1>2

-----------------------------------------------------------------------------
(* What is shown of the run.                                                 *)

RunInv == JobsOK /\ CallsOK /\ ShownOK /\ CommitOK

(* An outcome is written.                                                      *)
LEMMA CommitKeeps ==
  ASSUME FrontTypeOK, RunInv, UNCHANGED <<job, run, call, poll, overlapped, contested>>,
         NEW w \in Workers, Writes(w), NEW outcomes \in SUBSET Settled,
         NEW place \in Lives \ Committing, Commit(w, outcomes, place)
  PROVE  RunInv'
<1> DEFINE j == settling[w]
<1>1. PICK o \in Settled : state' = [state EXCEPT ![j] = o]
  BY DEF Commit
<1>2. j \in Jobs /\ state[j] # "none" /\ (state[j] \in Settled => contested)
  BY DEF FrontTypeOK, RunInv, CommitOK
<1>3. /\ \A i \in Jobs : state'[i] = IF i = j THEN o ELSE state[i]
      /\ \A v \in Workers : settling'[v] = IF v = w THEN None ELSE settling[v]
      /\ \A v \in Workers : life'[v] = IF v = w THEN place ELSE life[v]
      /\ slot' = IF slot = j THEN None ELSE slot
  BY <1>1, <1>2 DEF FrontTypeOK, Commit, Live
<1>4. JobsOK'
  BY <1>2, <1>3 DEF RunInv, JobsOK, FrontTypeOK, Settled
<1>5. CallsOK'
  BY <1>2, <1>3 DEF RunInv, CallsOK, FrontTypeOK, Call, Settled, Answering
<1>6. \A s \in Settled : job # None /\ EndIs(s) => EndIs(s)'
  BY <1>2, <1>3 DEF EndIs, FrontTypeOK
<1>7. ShownOK'
  <2>1. SUFFICES ASSUME ~overlapped PROVE ShownOK'
    BY DEF ShownOK
  <2>2. run \in Settled => EndIs(run)'
    BY <2>1, <1>6 DEF RunInv, ShownOK, JobsOK
  <2>3. poll.at = "answered" /\ poll.state \in Settled => EndIs(poll.state)'
    BY <2>1, <1>6 DEF RunInv, ShownOK, JobsOK
  <2> QED
    BY <2>1, <2>2, <2>3 DEF RunInv, ShownOK, EndIs
<1>8. CommitOK'
  <2>1. \A v \in Workers : Writes(v)' => v # w /\ Writes(v)
    BY <1>3 DEF Writes
  <2>2. \A v \in Workers : settling'[v] # None => state'[settling'[v]] # "none"
    BY <1>2, <1>3 DEF RunInv, CommitOK, FrontTypeOK, Settled
  <2>3. \A v \in Workers : Writes(v)' =>
          settling'[v] # None /\ (state'[settling'[v]] \notin Settled \/ contested')
    BY <1>2, <1>3, <2>1 DEF RunInv, CommitOK, FrontTypeOK
  <2>4. \A u, v \in Workers :
          u # v /\ Writes(u)' /\ Writes(v)' /\ settling'[u] = settling'[v] => contested'
    BY <1>3, <2>1 DEF RunInv, CommitOK
  <2> QED
    BY <2>2, <2>3, <2>4 DEF CommitOK
<1> QED
  BY <1>4, <1>5, <1>7, <1>8 DEF RunInv

(* A job that has begun and not settled changes its state, but does not settle.   *)
LEMMA StateKept ==
  ASSUME FrontTypeOK, RunInv, UNCHANGED <<slot, job, run, poll, overlapped, life, settling, contested>>,
         NEW j \in Jobs, state[j] \notin Settled, NEW s \in JobStates \ {"none"}, s \notin Settled,
         state' = [state EXCEPT ![j] = s],
         \A c \in Calls : \/ call'[c] = call[c]
                          \/ call'[c].at \notin StartPlaces \cup {"publishing"}
  PROVE  RunInv'
<1>1. \A i \in Jobs : state'[i] = IF i = j THEN s ELSE state[i]
  BY DEF FrontTypeOK
<1>2. JobsOK'
  BY <1>1 DEF RunInv, JobsOK, FrontTypeOK
<1>3. CallsOK'
  <2>1. \A c \in Calls : call'[c].at \in Answering \cup {"publishing"} => call'[c] = call[c]
    BY DEF StartPlaces, Answering
  <2> QED
    BY <1>1, <2>1 DEF RunInv, CallsOK, FrontTypeOK, Call
<1>4. ShownOK'
  <2>1. \A c \in Calls : call'[c].at \in StartPlaces => call[c].at \in StartPlaces
    OBVIOUS
  <2>2. \A e \in Settled : job # None /\ EndIs(e) => EndIs(e)'
    BY <1>1 DEF EndIs, FrontTypeOK
  <2> QED
    BY <2>1, <2>2 DEF RunInv, JobsOK, ShownOK, EndIs
<1>5. CommitOK'
  BY <1>1 DEF RunInv, CommitOK, Writes, FrontTypeOK
<1> QED
  BY <1>2, <1>3, <1>4, <1>5 DEF RunInv

(* A call moves, to a place that is not of a start.                            *)
LEMMA CallMoves ==
  ASSUME FrontTypeOK, RunInv,
         UNCHANGED <<slot, state, job, run, poll, overlapped, settling, contested>>,
         NEW c \in Calls, NEW r, call' = [call EXCEPT ![c] = r], r.at \notin StartPlaces,
         r.at = "publishing" => r.worker # None, \A w \in Workers : Writes(w)' => Writes(w)
  PROVE  RunInv'
<1>1. \A d \in Calls : call'[d] = IF d = c THEN r ELSE call[d]
  BY DEF FrontTypeOK
<1>2. JobsOK'
  BY DEF RunInv, JobsOK
<1>3. CallsOK'
  BY <1>1 DEF RunInv, CallsOK, Answering, StartPlaces
<1>4. ShownOK'
  BY <1>1 DEF RunInv, ShownOK, EndIs
<1>5. CommitOK'
  BY DEF RunInv, CommitOK
<1> QED
  BY <1>2, <1>3, <1>4, <1>5 DEF RunInv

LEMMA CommandKeepsRun ==
  ASSUME FrontTypeOK, RunInv, NEW c \in Calls, Command(c) PROVE RunInv'
<1> USE DEF At, Return, Go, Become, CallAt, CallOf, serviceVars, modelVars, commandFrame, Writes
<1>1. CASE RunRefused(c)
  BY <1>1, CallMoves DEF RunRefused, StartPlaces
<1>2. CASE AdmitRun(c)
  <2>1. PICK j \in Jobs : /\ slot = None /\ state[j] = "none"
                          /\ state' = [state EXCEPT ![j] = "Queued"] /\ slot' = j
                          /\ Return(c) \/ Become(c, CallOf("admitted", j))
                          /\ UNCHANGED <<job, run, poll, overlapped, life, settling, contested>>
    BY <1>2 DEF AdmitRun
  <2>2. \A i \in Jobs : state'[i] = IF i = j THEN "Queued" ELSE state[i]
    BY <2>1 DEF FrontTypeOK
  <2>3. /\ \A d \in Calls : d # c => call'[d] = call[d]
        /\ call'[c].at \in {"idle", "admitted"} /\ call[c].at = "starting"
        /\ call'[c].at = "admitted" => call'[c].job = j
    BY <2>1, <1>2 DEF FrontTypeOK, AdmitRun
  <2>4. j # job /\ j # None
    BY <2>1 DEF RunInv, JobsOK, Jobs, None
  <2>5. JobsOK'
    BY <2>1, <2>2, <2>4 DEF RunInv, JobsOK, FrontTypeOK, Settled
  <2>6. CallsOK'
    BY <2>1, <2>2, <2>3, <2>4 DEF RunInv, CallsOK, FrontTypeOK, Call, Answering
  <2>7. ShownOK'
    <3>1. SUFFICES ASSUME ~overlapped PROVE ShownOK'
      BY <2>1 DEF ShownOK
    <3>2. \A d \in Calls : call'[d].at \in StartPlaces => call[d].at \in StartPlaces
      BY <2>3 DEF StartPlaces
    <3>3. ~IsActive(run) /\ poll.at \notin {"asking", "answered"}
      BY <3>1, <2>3 DEF RunInv, ShownOK, StartPlaces
    <3>4. run \in Settled => EndIs(run)'
      BY <3>1, <2>1, <2>2, <2>4 DEF RunInv, ShownOK, JobsOK, FrontTypeOK, EndIs
    <3> QED
      BY <3>1, <3>2, <3>3, <3>4, <2>1 DEF RunInv, ShownOK, EndIs
  <2>8. CommitOK'
    BY <2>1, <2>2 DEF RunInv, CommitOK, FrontTypeOK, Settled
  <2> QED
    BY <2>5, <2>6, <2>7, <2>8 DEF RunInv
<1>3. CASE SetInitialState(c)
  <2> DEFINE j == call[c].job
  <2>1. /\ j \in Jobs /\ j # job /\ state[j] # "none"
        /\ UNCHANGED <<slot, job, run, poll, overlapped, life, settling, contested>>
    BY <1>3 DEF SetInitialState, RunInv, CallsOK, Answering, FrontTypeOK, Call
  <2>2. PICK s \in {"RunningIndeterminate", "Queued"} : state' = [state EXCEPT ![j] = s]
    BY <1>3 DEF SetInitialState, InitialState
  <2>3. \A i \in Jobs : state'[i] = IF i = j THEN s ELSE state[i]
    BY <2>2 DEF FrontTypeOK
  <2>4. /\ \A d \in Calls : d # c => call'[d] = call[d]
        /\ call[c].at = "admitted" /\ call'[c].at = "started" /\ call'[c].job = j
    BY <1>3 DEF SetInitialState, FrontTypeOK
  <2>5. JobsOK'
    BY <2>1, <2>2, <2>3 DEF RunInv, JobsOK, FrontTypeOK, Settled
  <2>6. CallsOK'
    BY <2>1, <2>2, <2>3, <2>4 DEF RunInv, CallsOK, FrontTypeOK, Call, Answering
  <2>7. \A d \in Calls : call'[d].at \in StartPlaces <=> call[d].at \in StartPlaces
    BY <2>4 DEF StartPlaces
  <2>8. job # None => state'[job] = state[job]
    BY <2>1, <2>3 DEF FrontTypeOK
  <2>9. ShownOK'
    BY <2>1, <2>7, <2>8 DEF RunInv, ShownOK, JobsOK, EndIs
  <2>10. CommitOK'
    BY <2>1, <2>2, <2>3 DEF RunInv, CommitOK, FrontTypeOK, Settled
  <2> QED
    BY <2>5, <2>6, <2>9, <2>10 DEF RunInv
<1>4. CASE CancelJob(c)
  <2> DEFINE j == call[c].job
  <2>1. CASE state[j] \in Settled \/ j = None
    <3>1. state' = state
      BY <1>4, <2>1 DEF CancelJob, FrontTypeOK, Jobs, None
    <3> QED
      BY <1>4, <3>1, CallMoves DEF CancelJob, StartPlaces
  <2>2. CASE ~(state[j] \in Settled \/ j = None)
    <3>1. j \in Jobs /\ state' = [state EXCEPT ![j] = "Cancelling"]
      BY <1>4, <2>2 DEF CancelJob, FrontTypeOK, Call
    <3>2. "Cancelling" \in JobStates \ {"none"} /\ "Cancelling" \notin Settled
      BY DEF JobStates, Settled
    <3>3. \A d \in Calls : call'[d] = call[d] \/ call'[d].at = "idle"
      BY <1>4 DEF CancelJob, FrontTypeOK
    <3>4. \A d \in Calls : call'[d] = call[d] \/ call'[d].at \notin StartPlaces \cup {"publishing"}
      BY <3>3 DEF StartPlaces
    <3> QED
      BY <1>4, <2>2, <3>1, <3>2, <3>4, StateKept DEF CancelJob
  <2> QED
    BY <2>1, <2>2
<1>5. CASE CheckWorker(c)
  BY <1>5, CallMoves DEF CheckWorker, StartPlaces
<1>6. CASE InstallWorker(c)
  <2>1. PICK w \in Workers :
          call' = [call EXCEPT ![c] = [at |-> "publishing", job |-> None, worker |-> w,
                                       up |-> FALSE]]
    BY <1>6 DEF InstallWorker
  <2>2. w # None
    BY DEF Workers, None
  <2>3. \A v \in Workers : Writes(v)' => Writes(v)
    BY <1>6 DEF InstallWorker, Live, FrontTypeOK, Committing
  <2> QED
    BY <1>6, <2>1, <2>2, <2>3, CallMoves DEF InstallWorker, StartPlaces
<1>7. CASE SpawnFails(c)
  BY <1>7, CallMoves DEF SpawnFails, StartPlaces
<1>8. CASE PublishStarted(c)
  <2>1. \A v \in Workers : Writes(v)' => Writes(v)
    BY <1>8 DEF PublishStarted, Live, FrontTypeOK, Committing
  <2> QED
    BY <1>8, <2>1, CallMoves DEF PublishStarted, StartPlaces
<1>9. CASE ViewWorker(c)
  BY <1>9, CallMoves DEF ViewWorker, StartPlaces
<1> QED
  BY <1>1, <1>2, <1>3, <1>4, <1>5, <1>6, <1>7, <1>8, <1>9 DEF Command

LEMMA UserKeepsRun ==
  ASSUME FrontTypeOK, RunInv, NEW c \in Calls, UserAction(c) \/ Answer(c) PROVE RunInv'
<1> USE DEF At, Return, Go, Become, CallAt, CallOf, serviceVars, modelVars, serviceSide, Writes
<1>1. CASE StartRun(c)
  <2>1. /\ UNCHANGED <<slot, state, job, run, poll, life, settling, contested>> /\ ~IsActive(run)
        /\ call[c].at = "idle" /\ call'[c].at = "starting"
        /\ \A d \in Calls : d # c => call'[d] = call[d]
        /\ overlapped' = (overlapped \/ \E d \in Calls : call[d].at \in StartPlaces)
    BY <1>1 DEF StartRun, Free, FrontTypeOK
  <2>2. JobsOK'
    BY <2>1 DEF RunInv, JobsOK
  <2>3. CallsOK'
    BY <2>1 DEF RunInv, CallsOK, Answering
  <2>4. ShownOK'
    BY <2>1 DEF RunInv, ShownOK, EndIs
  <2>5. CommitOK'
    BY <2>1 DEF RunInv, CommitOK
  <2> QED
    BY <2>2, <2>3, <2>4, <2>5 DEF RunInv
<1>2. CASE RunStarted(c)
  <2>1. /\ UNCHANGED <<slot, state, poll, overlapped, life, settling, contested>>
        /\ call[c].at = "started" /\ call'[c].at = "idle"
        /\ \A d \in Calls : d # c => call'[d] = call[d]
        /\ job' = call[c].job /\ run' \in {"Indeterminate", "Queued"}
    BY <1>2 DEF RunStarted, FrontTypeOK
  <2>2. JobsOK'
    BY <2>1 DEF RunInv, JobsOK, CallsOK, Answering
  <2>3. CallsOK'
    BY <2>1 DEF RunInv, CallsOK, Answering
  <2>4. ShownOK'
    <3>1. SUFFICES ASSUME ~overlapped PROVE ShownOK'
      BY <2>1 DEF ShownOK
    <3>2. \A d \in Calls : call'[d].at \notin StartPlaces
      BY <3>1, <2>1 DEF RunInv, ShownOK, StartPlaces
    <3>3. poll.at \notin {"asking", "answered"}
      BY <3>1, <2>1 DEF RunInv, ShownOK, StartPlaces
    <3> QED
      BY <3>2, <3>3, <2>1 DEF ShownOK, Settled
  <2>5. CommitOK'
    BY <2>1 DEF RunInv, CommitOK
  <2> QED
    BY <2>2, <2>3, <2>4, <2>5 DEF RunInv
<1>3. CASE CancelRun(c)
  <2>1. /\ UNCHANGED <<slot, state, job, poll, overlapped, life, settling, contested>>
        /\ IsActive(run) /\ run' = "Cancelling" /\ IsActive(run') /\ run' \notin Settled
        /\ call[c].at = "idle" /\ call'[c].at = "cancelling"
        /\ \A d \in Calls : d # c => call'[d] = call[d]
    BY <1>3 DEF CancelRun, CancelRequested, Free, FrontTypeOK, IsActive, Settled
  <2>2. JobsOK'
    BY <2>1 DEF RunInv, JobsOK
  <2>3. CallsOK'
    BY <2>1 DEF RunInv, CallsOK, Answering
  <2>4. ShownOK'
    BY <2>1 DEF RunInv, ShownOK, StartPlaces, EndIs
  <2>5. CommitOK'
    BY <2>1 DEF RunInv, CommitOK
  <2> QED
    BY <2>2, <2>3, <2>4, <2>5 DEF RunInv
<1>4. CASE RestartWorker(c)
  BY <1>4, CallMoves DEF RestartWorker, StartPlaces
<1>5. CASE WorkerAnswer(c)
  BY <1>5, CallMoves DEF WorkerAnswer, StartPlaces
<1> QED
  BY <1>1, <1>2, <1>3, <1>4, <1>5 DEF UserAction, Answer

LEMMA PollKeepsRun == ASSUME FrontTypeOK, RunInv, PollStep PROVE RunInv'
<1> USE DEF serviceVars, serviceSide, PollAt, NoPoll, EndIs
<1>5. CommitOK'
  BY DEF PollStep, PollEvents, ApplyBatch, JobSnapshot, ApplySnapshot, RunInv, CommitOK, Writes
<1>1. CASE PollEvents
  <2>1. UNCHANGED <<slot, state, job, run, call, overlapped, contested>> /\ poll'.at = "drained"
    BY <1>1 DEF PollEvents, modelVars
  <2> QED
    BY <1>5, <2>1 DEF RunInv, JobsOK, CallsOK, ShownOK
<1>2. CASE ApplyBatch
  BY <1>2, <1>5 DEF ApplyBatch, RunInv, JobsOK, CallsOK, ShownOK
<1>3. CASE JobSnapshot
  <2>1. JobsOK' /\ CallsOK'
    BY <1>3 DEF JobSnapshot, modelVars, RunInv, JobsOK, CallsOK
  <2>2. ShownOK'
    BY <1>3 DEF JobSnapshot, modelVars, RunInv, ShownOK
  <2> QED
    BY <1>5, <2>1, <2>2 DEF RunInv
<1>4. CASE ApplySnapshot
  <2>1. /\ UNCHANGED <<slot, state, job, call, overlapped, contested>>
        /\ poll.at = "answered" /\ poll' = NoPoll
    BY <1>4 DEF ApplySnapshot
  <2>2. \/ poll.state \in Settled /\ run' = poll.state
        \/ ~(poll.state \in Settled) /\ run' = run
        \/ ~(poll.state \in Settled) /\ IsActive(run) /\ run' = "Determinate"
    BY <1>4 DEF ApplySnapshot, RunProgress, Settled
  <2>3. JobsOK'
    BY <2>1, <2>2 DEF RunInv, JobsOK
  <2>4. CallsOK'
    BY <2>1 DEF RunInv, CallsOK
  <2>5. ShownOK'
    BY <2>1, <2>2 DEF RunInv, ShownOK, IsActive, Settled
  <2> QED
    BY <1>5, <2>3, <2>4, <2>5 DEF RunInv
<1> QED
  BY <1>1, <1>2, <1>3, <1>4 DEF PollStep

(* A reader finds a job unsettled and is to settle it.                           *)
LEMMA TakeKeeps ==
  ASSUME FrontTypeOK, RunInv, UNCHANGED <<slot, state, job, run, call, poll, overlapped>>,
         NEW w \in Workers, NEW j \in Jobs, state[j] \notin Settled \cup {"none"}, j # None,
         NEW place \in Committing, TakeJob(w, j, place)
  PROVE  RunInv'
<1>1. /\ \A v \in Workers : settling'[v] = IF v = w THEN j ELSE settling[v]
      /\ \A v \in Workers : life'[v] = IF v = w THEN place ELSE life[v]
      /\ contested => contested'
      /\ \A v \in Workers : v # w /\ Writes(v) /\ settling[v] = j => contested'
  BY DEF TakeJob, Live, FrontTypeOK, Writes
<1>2. JobsOK' /\ CallsOK'
  BY DEF RunInv, JobsOK, CallsOK
<1>3. ShownOK'
  BY <1>1 DEF RunInv, ShownOK, EndIs
<1>4. CommitOK'
  BY <1>1 DEF RunInv, CommitOK, Writes
<1> QED
  BY <1>2, <1>3, <1>4 DEF RunInv

LEMMA ServiceKeepsRun == ASSUME FrontTypeOK, RunInv, ServiceStep PROVE RunInv'
<1> USE DEF serviceVars, modelVars, serviceFrame
<1>1. slot # None => slot \in Jobs /\ state[slot] \notin Settled \cup {"none"}
  BY DEF FrontTypeOK, RunInv, JobsOK
<1>2. CASE PublishOther
  BY <1>2 DEF PublishOther, RunInv, JobsOK, CallsOK, ShownOK, CommitOK, EndIs, Writes
<1>3. CASE JobProgresses
  <2>1. "Running" \in JobStates \ {"none"} /\ "Running" \notin Settled
    BY DEF JobStates, Settled
  <2> QED
    BY <1>1, <1>3, <2>1, StateKept DEF JobProgresses, Working
<1>4. ASSUME NEW w \in Workers, JobAnswered(w) PROVE RunInv'
  BY <1>1, <1>4, TakeKeeps DEF JobAnswered, Committing
<1>5. ASSUME NEW w \in Workers, SettleLost(w) PROVE RunInv'
  <2>1. settling[w] \in Jobs /\ state[settling[w]] \notin Settled \cup {"none"}
    BY <1>5 DEF SettleLost, FrontTypeOK, RunInv, CommitOK
  <2> QED
    BY <1>5, <2>1, TakeKeeps DEF SettleLost, Committing
<1>6. ASSUME NEW w \in Workers, CommitAnswer(w) PROVE RunInv'
  <2>1. Answers \in SUBSET Settled /\ "reading" \in Lives \ Committing /\ Writes(w)
    BY <1>6, FrontAssumption DEF CommitAnswer, Settled, Lives, Committing, Writes
  <2> QED
    BY <1>6, <2>1, CommitKeeps DEF CommitAnswer
<1>7. ASSUME NEW w \in Workers, CommitLost(w) PROVE RunInv'
  <2>1. /\ {"Cancelled", "Interrupted"} \in SUBSET Settled
        /\ "exiting" \in Lives \ Committing /\ Writes(w)
    BY <1>7 DEF CommitLost, Settled, Lives, Committing, Writes
  <2> QED
    BY <1>7, <2>1, CommitKeeps DEF CommitLost
<1>8. ASSUME NEW w \in Workers, WorkerGone(w) \/ NothingToSettle(w) \/ PublishExited(w)
      PROVE  RunInv'
  <2>1. /\ UNCHANGED <<slot, state, job, run, call, poll, overlapped, contested>>
        /\ \A v \in Workers : settling'[v] \in {settling[v], slot, None}
        /\ \A v \in Workers : Writes(v)' => Writes(v) /\ settling'[v] = settling[v]
    BY <1>8 DEF WorkerGone, NothingToSettle, PublishExited, Live, FrontTypeOK, Writes, Committing
  <2>2. JobsOK' /\ CallsOK' /\ ShownOK'
    BY <2>1 DEF RunInv, JobsOK, CallsOK, ShownOK, EndIs
  <2>3. CommitOK'
    BY <1>1, <2>1 DEF RunInv, CommitOK
  <2> QED
    BY <2>2, <2>3 DEF RunInv
<1> QED
  BY <1>2, <1>3, <1>4, <1>5, <1>6, <1>7, <1>8 DEF ServiceStep, ReaderStep

-----------------------------------------------------------------------------
(* The invariant, and what follows.                                          *)
LEMMA FrontStepInv == FrontInv /\ [FrontNext]_frontVars => FrontInv'
<1> SUFFICES ASSUME FrontInv, [FrontNext]_frontVars PROVE FrontInv'
  OBVIOUS
<1> USE DEF FrontInv
<1>1. CASE FrontNext
  <2>1. IInv'
    BY <1>1, BufferKept
  <2>2. FrontTypeOK'
    BY <1>1, <2>1, TypesKept DEF IInv
  <2>3. BatchOK' /\ NewsOK' /\ LostWorkerIsNoticed'
    BY <1>1, <2>2, BatchKept, NewsKept, LostKept
  <2>4. RunInv'
    BY <1>1, ServiceKeepsRun, PollKeepsRun, CommandKeepsRun, UserKeepsRun DEF FrontNext, RunInv
  <2> QED
    BY <2>1, <2>2, <2>3, <2>4 DEF RunInv
<1>2. CASE UNCHANGED frontVars
  <2>1. UNCHANGED <<events, dropped, published, batch, told, held, slot, state, life, settling, contested, news,
                    workerRunning, job, run, belief, call, poll, missed, overlapped>>
    BY <1>2 DEF frontVars, busVars, serviceVars, modelVars
  <2>2. FrontTypeOK' /\ IInv'
    BY <2>1 DEF FrontTypeOK, IInv, TypeOK, LossIsCounted, NewestAreKept, LossOnlyWhenFull, Limit
  <2>3. BatchOK' /\ NewsOK' /\ LostWorkerIsNoticed'
    BY <2>1 DEF BatchOK, NewsOK, LostWorkerIsNoticed, ExitToCome, AllGone, InSeq
  <2>4. JobsOK' /\ CallsOK' /\ ShownOK' /\ CommitOK'
    BY <2>1 DEF JobsOK, CallsOK, ShownOK, CommitOK, EndIs, Writes
  <2> QED
    BY <2>2, <2>3, <2>4
<1> QED
  BY <1>1, <1>2

(* All of it, in every state that is reached.                                  *)
THEOREM FrontAlways == FrontSpec => []FrontInv
  BY FrontInitInv, FrontStepInv, PTL DEF FrontSpec

(* The types of the service's record, the interface's model and the calls.      *)
THEOREM FrontTypesHold == FrontSpec => []FrontTypeOK
<1>1. FrontInv => FrontTypeOK
  BY DEF FrontInv
<1> QED
  BY <1>1, FrontAlways, PTL

(* Model::update shows a run as settled only when it has settled that way, while *)
(* no two starts are in flight at once.                                        *)
THEOREM SettledShownTruly == FrontSpec => []SettledIsTrue
<1>1. FrontInv => SettledIsTrue
  BY DEF FrontInv, ShownOK, SettledIsTrue, EndIs
<1> QED
  BY <1>1, FrontAlways, PTL

(* drain_events and Model::update do not leave a worker shown that is gone, in    *)
(* whatever order its threads publish, unless a command's answer crossed the    *)
(* event or the buffer overflowed.                                            *)
THEOREM LostWorkersAreNoticed == FrontSpec => []LostWorkerIsNoticed
<1>1. FrontInv => LostWorkerIsNoticed
  BY DEF FrontInv
<1> QED
  BY <1>1, FrontAlways, PTL

(* Model::update never shows a run less advanced than before.                   *)
THEOREM ShownOnlyForwards == FrontSpec => NeverBackwards
<1> DEFINE Forwards == job' = job => Rank(run) <= Rank(run')
<1>1. FrontInv /\ [FrontNext]_frontVars => [Forwards]_<<job, run>>
  <2> SUFFICES ASSUME FrontInv, [FrontNext]_frontVars, job' = job, run' # run
               PROVE  Rank(run) <= Rank(run')
    OBVIOUS
  <2>1. FrontNext
    BY DEF frontVars, modelVars
  <2>2. \A c \in Calls : ~RunStarted(c)
    BY DEF RunStarted, At, FrontInv, CallsOK, Answering
  <2>3. ApplySnapshot \/ \E c \in Calls : CancelRun(c)
    BY <2>1, <2>2 DEF FrontNext, ServiceStep, PollStep, Command, UserAction, Answer, PublishOther,
                JobProgresses, ReaderStep, JobAnswered, CommitAnswer, WorkerGone, SettleLost,
                NothingToSettle, CommitLost, TakeJob, Commit, PublishExited, PollEvents,
                ApplyBatch, JobSnapshot, RunRefused, AdmitRun, SetInitialState, CancelJob,
                CheckWorker, InstallWorker, SpawnFails, PublishStarted, ViewWorker, StartRun,
                RestartWorker, WorkerAnswer, serviceFrame, serviceSide, commandFrame, modelVars
  <2>4. CASE ApplySnapshot
    BY <2>4 DEF ApplySnapshot, RunProgress, IsActive, Settled, Rank, FrontInv, FrontTypeOK,
                Displays
  <2>5. CASE \E c \in Calls : CancelRun(c)
    BY <2>5 DEF CancelRun, CancelRequested, IsActive, Rank
  <2> QED
    BY <2>3, <2>4, <2>5
<1> QED
  BY <1>1, FrontAlways, PTL DEF FrontSpec, NeverBackwards

(* EventBus::drain still counts the gap before its first event exactly, among     *)
(* the threads that publish and the loop that drains.                          *)
THEOREM GapsStayExact == FrontSpec => GapIsExact
<1> DEFINE Gap == batch' # batch /\ batch'.events # <<>>
                    => Head(batch'.events) = told + batch'.dropped + 1
<1>1. FrontInv /\ [FrontNext]_frontVars => [Gap]_vars
  <2> SUFFICES ASSUME FrontInv, [FrontNext]_frontVars, batch' # batch, batch'.events # <<>>
               PROVE  Head(batch'.events) = told + batch'.dropped + 1
    OBVIOUS
  <2>1. FrontNext
    BY DEF frontVars, busVars
  <2>2. Drain
    BY <2>1, BusSteps DEF Announce, Publish, PollEvents, ApplyBatch, OtherStep, busVars
  <2>3. batch'.events = events /\ batch'.dropped = dropped
    BY <2>2 DEF Drain
  <2>4. Len(events) \in Nat /\ Len(events) >= 1 /\ Head(events) = events[1]
    BY <2>3 DEF FrontInv, IInv, TypeOK
  <2>5. events[1] = published - Len(events) + 1
    BY <2>4 DEF FrontInv, IInv, NewestAreKept
  <2> QED
    BY <2>3, <2>4, <2>5 DEF FrontInv, IInv, TypeOK, LossIsCounted
<1> QED
  BY <1>1, FrontAlways, PTL DEF FrontSpec, GapIsExact
=============================================================================
