---------------------------- MODULE StudioWorker ----------------------------
(***************************************************************************)
(* The out-of-process capability worker (scirust-studio-worker): a stdin    *)
(* reader thread, one thread per started job and one event loop, `serve`,   *)
(* which alone writes to stdout.  Reader and jobs talk to the loop over one  *)
(* mpsc channel.  The client is the environment: any sequence of at most    *)
(* MaxSends messages, then possibly end of input or an unreadable line.     *)
(***************************************************************************)
EXTENDS Naturals, SequencesExt

CONSTANTS
  Requests,     \* RequestId values the client may use, each for one request
  NoRequest,    \* the `None` of Option<(RequestId, ExecutionControl)>
  Stiff,        \* requests whose solver has no per-step callback
  MaxSteps,     \* bound: steps of one job that may report progress (20 in the code)
  MaxSends,     \* bound: messages the client sends in one session
  MayCrash      \* whether the process may die without leaving its loop

ASSUME WorkerAssumption ==
  /\ NoRequest \notin Requests
  /\ Stiff \subseteq Requests
  /\ MaxSteps \in Nat \ {0}
  /\ MaxSends \in Nat
  /\ MayCrash \in BOOLEAN

VARIABLES
  reading,      \* the stdin reader thread still reads
  sends,        \* messages the client has sent
  used,         \* request ids the client has used
  chan,         \* the mpsc channel, oldest first
  serving,      \* `serve` has not returned: the process is alive
  handshaken, running, queue, cancelledBeforeStart, shuttingDown,
  control,      \* the ExecutionControl flag of each job
  job,          \* where the thread of each job is
  steps,        \* steps of each job that could report progress
  outcome,      \* the outcome a closing job is about to report
  out,          \* everything written to stdout
  accepted      \* history: requests the loop has read, in that order

clientVars == <<reading, sends, used>>
loopVars   == <<handshaken, running, queue, cancelledBeforeStart, shuttingDown,
                accepted>>
jobVars    == <<job, steps, outcome>>
vars       == <<clientVars, chan, serving, loopVars, control, jobVars, out>>

Outcomes     == {"Completed", "Cancelled", "Failed"}
Events       == {"Started", "Progress"} \cup Outcomes
ClientKinds  == {"Hello", "Catalog", "Validate", "Run", "Cancel", "Shutdown",
                 "Garbage", "Eof"}
TerminalKinds == {"Catalog", "Validated"} \cup Outcomes
WireKinds    == {"Ready", "ProtocolError", "Progress", "ShuttingDown"} \cup TerminalKinds
Bodies       == {"none", "current", "stale"} \cup Events
JobPlaces    == {"none", "starting", "precheck", "integrating", "checking",
                 "closing", "done"}

Incoming == [kind : ClientKinds \cup {"Event", "Finished"},
             id   : Requests \cup {NoRequest},
             body : Bodies]
WorkerMessage == [kind : WireKinds, id : Requests \cup {NoRequest}]

In(k, r, b) == [kind |-> k, id |-> r, body |-> b]
Msg(k, r)   == [kind |-> k, id |-> r]

Init ==
  /\ reading = TRUE /\ sends = 0 /\ used = {}
  /\ chan = <<>>
  /\ serving = TRUE
  /\ handshaken = FALSE /\ running = NoRequest /\ queue = <<>>
  /\ cancelledBeforeStart = {} /\ shuttingDown = FALSE
  /\ control = [r \in Requests |-> FALSE]
  /\ job = [r \in Requests |-> "none"]
  /\ steps = [r \in Requests |-> 0]
  /\ outcome = [r \in Requests |-> "Failed"]
  /\ out = <<>>
  /\ accepted = <<>>

-----------------------------------------------------------------------------
(* The client and the stdin reader thread: a line read is a message sent     *)
(* into the channel.                                                         *)

Reads(k, r, b) ==
  /\ reading /\ serving /\ sends < MaxSends
  /\ sends' = sends + 1
  /\ chan' = Append(chan, In(k, r, b))
  /\ UNCHANGED <<serving, loopVars, control, jobVars, out>>

SendHello == \E v \in {"current", "stale"} :
  Reads("Hello", NoRequest, v) /\ UNCHANGED <<reading, used>>

SendRequest == \E k \in {"Catalog", "Validate", "Run"} : \E r \in Requests \ used :
  /\ Reads(k, r, "none")
  /\ used' = used \cup {r}
  /\ UNCHANGED reading

SendCancel == \E r \in Requests :
  Reads("Cancel", r, "none") /\ UNCHANGED <<reading, used>>

SendShutdown == Reads("Shutdown", NoRequest, "none") /\ UNCHANGED <<reading, used>>

(* End of input or an unreadable line: the reader forwards it and returns.   *)
ReaderStops == \E k \in {"Eof", "Garbage"} :
  /\ reading /\ serving
  /\ reading' = FALSE
  /\ chan' = Append(chan, In(k, NoRequest, "none"))
  /\ UNCHANGED <<sends, used, serving, loopVars, control, jobVars, out>>

-----------------------------------------------------------------------------
(* The event loop: one action per arm of the match in `serve`.               *)

Head1      == Head(chan)
Receive(k) == serving /\ chan # <<>> /\ Head1.kind = k /\ chan' = Tail(chan)
Write(ms)  == out' = out \o ms
Break      == serving' = FALSE
Stay       == UNCHANGED serving

StartJob(r) ==
  /\ running' = r
  /\ job' = [job EXCEPT ![r] = "starting"]
  /\ UNCHANGED <<steps, outcome>>

(* Mutant: whoever stops the session leaves the running job to finish.         *)
LetItFinish == UNCHANGED control

CancelRunning == control' = IF running = NoRequest THEN control
                                                   ELSE [control EXCEPT ![running] = TRUE]

ClientEof ==
  /\ Receive("Eof")
  /\ CancelRunning /\ Break
  /\ UNCHANGED <<clientVars, loopVars, jobVars, out>>

ClientProtocolError ==
  /\ Receive("Garbage")
  /\ Write(<<Msg("ProtocolError", NoRequest)>>)
  /\ CancelRunning /\ Break
  /\ UNCHANGED <<clientVars, loopVars, jobVars>>

(* The first message: only `hello` of this build's version opens the session. *)
Handshake ==
  /\ ~handshaken
  /\ \E k \in ClientKinds \ {"Eof", "Garbage"} : Receive(k)
  /\ IF Head1.kind = "Hello" /\ Head1.body = "current"
     THEN /\ handshaken' = TRUE
          /\ Write(<<Msg("Ready", NoRequest)>>)
          /\ Stay
     ELSE /\ Write(<<Msg("ProtocolError", NoRequest)>>)
          /\ Break
          /\ UNCHANGED handshaken
  /\ UNCHANGED <<clientVars, running, queue, cancelledBeforeStart, shuttingDown,
                 accepted, control, jobVars>>

HelloAgain ==
  /\ handshaken /\ Receive("Hello")
  /\ Write(<<Msg("ProtocolError", NoRequest)>>)
  /\ Break
  /\ UNCHANGED <<clientVars, loopVars, control, jobVars>>

Accept == accepted' = Append(accepted, Head1.id)

Catalog ==
  /\ handshaken /\ Receive("Catalog")
  /\ Write(<<Msg("Catalog", Head1.id)>>)
  /\ Accept /\ Stay
  /\ UNCHANGED <<clientVars, handshaken, running, queue, cancelledBeforeStart,
                 shuttingDown, control, jobVars>>

Validate ==
  /\ handshaken /\ Receive("Validate")
  /\ \E k \in {"Validated", "Failed"} : Write(<<Msg(k, Head1.id)>>)
  /\ Accept /\ Stay
  /\ UNCHANGED <<clientVars, handshaken, running, queue, cancelledBeforeStart,
                 shuttingDown, control, jobVars>>

RunRefused ==
  /\ handshaken /\ Receive("Run") /\ shuttingDown
  /\ Write(<<Msg("Failed", Head1.id)>>)
  /\ Accept /\ Stay
  /\ UNCHANGED <<clientVars, handshaken, running, queue, cancelledBeforeStart,
                 shuttingDown, control, jobVars>>

(* Mutant: the newest request is taken first.                                 *)
EnqueueFirst(q, r) == <<r>> \o q
Enqueue(q, r) == Append(q, r)

RunQueued ==
  /\ handshaken /\ Receive("Run") /\ ~shuttingDown /\ running # NoRequest
  /\ queue' = Enqueue(queue, Head1.id)
  /\ Accept /\ Stay
  /\ UNCHANGED <<clientVars, handshaken, running, cancelledBeforeStart,
                 shuttingDown, control, jobVars, out>>

RunStarted ==
  /\ handshaken /\ Receive("Run") /\ ~shuttingDown /\ running = NoRequest
  /\ StartJob(Head1.id)
  /\ Accept /\ Stay
  /\ UNCHANGED <<clientVars, handshaken, queue, cancelledBeforeStart,
                 shuttingDown, control, out>>

(* `queue.iter().position(..)`: the first place of r in the queue.           *)
IsPosition(r, i) ==
  /\ i \in 1 .. Len(queue) /\ queue[i] = r
  /\ \A k \in 1 .. i - 1 : queue[k] # r

Cancel ==
  /\ handshaken /\ Receive("Cancel")
  /\ control' = IF running = Head1.id THEN [control EXCEPT ![running] = TRUE] ELSE control
  /\ \/ \E i \in 1 .. Len(queue) :
          /\ IsPosition(Head1.id, i)
          /\ queue' = RemoveAt(queue, i)
          /\ cancelledBeforeStart' = cancelledBeforeStart \cup {Head1.id}
          /\ Write(<<Msg("Cancelled", Head1.id)>>)
     \/ /\ \A i \in 1 .. Len(queue) : queue[i] # Head1.id
        /\ UNCHANGED <<queue, cancelledBeforeStart, out>>
  /\ Stay
  /\ UNCHANGED <<clientVars, handshaken, running, shuttingDown, accepted, jobVars>>

(* Mutant: queued requests are dropped without an answer.                     *)
ForgetAll(q) == <<>>

CancelledAll(q) == [i \in 1 .. Len(q) |-> Msg("Cancelled", q[i])]
Farewell        == <<Msg("ShuttingDown", NoRequest)>>

Shutdown ==
  /\ handshaken /\ Receive("Shutdown")
  /\ shuttingDown' = TRUE
  /\ queue' = <<>>
  /\ IF running # NoRequest THEN Write(CancelledAll(queue)) /\ Stay
                            ELSE Write(CancelledAll(queue) \o Farewell) /\ Break
  /\ CancelRunning
  /\ UNCHANGED <<clientVars, handshaken, running, cancelledBeforeStart, accepted, jobVars>>

(* Mutant: terminal events are forwarded too, as they were emitted.           *)
ForwardEveryEvent(r, e) == <<Msg(e, r)>>

(* `event_to_message`: only progress crosses the wire.                       *)
EventToMessage(r, e) == IF e = "Progress" THEN <<Msg("Progress", r)>> ELSE <<>>

Event ==
  /\ Receive("Event")
  /\ Write(EventToMessage(Head1.id, Head1.body))
  /\ Stay
  /\ UNCHANGED <<clientVars, loopVars, control, jobVars>>

Terminal(r, o) == IF r \in cancelledBeforeStart THEN <<>> ELSE <<Msg(o, r)>>

(* Mutant: the next request waits for another event to start it.              *)
RestAfterJob == running' = NoRequest /\ UNCHANGED <<queue, jobVars>>

StartNext ==
  IF queue = <<>> THEN running' = NoRequest /\ UNCHANGED <<queue, jobVars>>
                  ELSE StartJob(Head(queue)) /\ queue' = Tail(queue)

Finished ==
  /\ Receive("Finished")
  /\ cancelledBeforeStart' = cancelledBeforeStart \ {Head1.id}
  /\ IF shuttingDown
     THEN /\ Write(Terminal(Head1.id, Head1.body) \o Farewell)
          /\ Break
          /\ running' = NoRequest
          /\ UNCHANGED <<queue, jobVars>>
     ELSE /\ Write(Terminal(Head1.id, Head1.body))
          /\ Stay
          /\ StartNext
  /\ UNCHANGED <<clientVars, handshaken, shuttingDown, accepted, control>>

-----------------------------------------------------------------------------
(* A job thread, `run_job`: it ends by sending its outcome, once.            *)

Alive(r, place) == serving /\ job[r] = place
Goto(r, place)  == job' = [job EXCEPT ![r] = place]
Emit(r, e)      == chan' = Append(chan, In("Event", r, e))
Closing(r, o)   == Goto(r, "closing") /\ outcome' = [outcome EXCEPT ![r] = o]
jobFrame        == <<clientVars, serving, loopVars, control, out>>

(* Parsing and validation come first; a refusal emits no event.              *)
JobRefused(r) ==
  /\ Alive(r, "starting")
  /\ Closing(r, "Failed")
  /\ UNCHANGED <<steps, chan, jobFrame>>

JobStarted(r) ==
  /\ Alive(r, "starting")
  /\ Goto(r, "precheck") /\ Emit(r, "Started")
  /\ UNCHANGED <<steps, outcome, jobFrame>>

(* The flag is read before integrating, by every adapter.                    *)
JobPrecheck(r) ==
  /\ Alive(r, "precheck")
  /\ IF control[r] THEN Closing(r, "Cancelled") /\ Emit(r, "Cancelled")
                   ELSE Goto(r, "integrating") /\ UNCHANGED <<outcome, chan>>
  /\ UNCHANGED <<steps, jobFrame>>

(* One accepted step of an observed integration, and then the observer reads  *)
(* the flag.  Only so many steps report progress, but any number may follow:   *)
(* nothing here says that an integration ends.                               *)
JobStep(r) ==
  /\ Alive(r, "integrating") /\ r \notin Stiff
  /\ Goto(r, "checking")
  /\ \/ /\ steps[r] < MaxSteps
        /\ steps' = [steps EXCEPT ![r] = @ + 1]
        /\ Emit(r, "Progress") \/ UNCHANGED chan
     \/ steps[r] = MaxSteps /\ UNCHANGED <<steps, chan>>
  /\ UNCHANGED <<outcome, jobFrame>>

JobCheck(r) ==
  /\ Alive(r, "checking")
  /\ IF control[r] THEN Closing(r, "Cancelled") /\ Emit(r, "Cancelled")
                   ELSE Goto(r, "integrating") /\ UNCHANGED <<outcome, chan>>
  /\ UNCHANGED <<steps, jobFrame>>

(* The solver failed, or it reached the end of its span; then the result may   *)
(* still be refused as invalid, which emits no event.                         *)
JobSolved(r) ==
  /\ Alive(r, "integrating")
  /\ \/ Closing(r, "Failed") /\ (Emit(r, "Failed") \/ UNCHANGED chan)
     \/ /\ r \in Stiff \/ steps[r] > 0
        /\ Closing(r, "Completed") /\ Emit(r, "Completed")
  /\ UNCHANGED <<steps, jobFrame>>

JobEnds(r) ==
  /\ Alive(r, "closing")
  /\ Goto(r, "done")
  /\ chan' = Append(chan, In("Finished", r, outcome[r]))
  /\ UNCHANGED <<steps, outcome, jobFrame>>

(* The process dies: killed by its supervisor, or aborted by a capability.   *)
Crash ==
  /\ MayCrash /\ serving
  /\ Break
  /\ UNCHANGED <<clientVars, chan, loopVars, control, jobVars, out>>

-----------------------------------------------------------------------------
ClientStep == SendHello \/ SendRequest \/ SendCancel \/ SendShutdown \/ ReaderStops

LoopStep ==
  \/ ClientEof \/ ClientProtocolError \/ Handshake \/ HelloAgain
  \/ Catalog \/ Validate \/ RunRefused \/ RunQueued \/ RunStarted
  \/ Cancel \/ Shutdown \/ Event \/ Finished

JobThread(r) ==
  \/ JobRefused(r) \/ JobStarted(r) \/ JobPrecheck(r) \/ JobStep(r)
  \/ JobCheck(r) \/ JobSolved(r) \/ JobEnds(r)

Next == ClientStep \/ LoopStep \/ (\E r \in Requests : JobThread(r)) \/ Crash

Spec == Init /\ [][Next]_vars

(* The operating system runs every live thread; the client promises nothing,  *)
(* and an observed integration may go on for ever.                           *)
FairSpec == Spec /\ WF_vars(LoopStep) /\ \A r \in Requests : WF_vars(JobThread(r))

-----------------------------------------------------------------------------
(* Properties.                                                               *)

(* Every variable keeps to the states the Rust types allow, and the channel   *)
(* and stdout carry only messages of the two enums.                          *)
TypeOK ==
  /\ reading \in BOOLEAN /\ sends \in 0 .. MaxSends /\ used \subseteq Requests
  /\ chan \in Seq(Incoming) /\ out \in Seq(WorkerMessage)
  /\ serving \in BOOLEAN /\ handshaken \in BOOLEAN /\ shuttingDown \in BOOLEAN
  /\ running \in Requests \cup {NoRequest}
  /\ queue \in Seq(Requests) /\ accepted \in Seq(Requests)
  /\ cancelledBeforeStart \subseteq Requests
  /\ control \in [Requests -> BOOLEAN]
  /\ job \in [Requests -> JobPlaces]
  /\ steps \in [Requests -> 0 .. MaxSteps]
  /\ outcome \in [Requests -> Outcomes]

IsTerminal(m, r) == m.id = r /\ m.kind \in TerminalKinds

(* A request's terminal message is the last thing stdout says about it: no    *)
(* second terminal message from the other path (queue cancellation, shutdown  *)
(* drain, job outcome, forwarded runtime event) and no late progress.         *)
TerminalIsFinal ==
  \A i, j \in 1 .. Len(out) :
    i < j /\ out[i].id \in Requests /\ IsTerminal(out[i], out[i].id)
      => out[j].id # out[i].id

(* Runs start in arrival order: no job has started while a request the loop   *)
(* read earlier still waits in the queue.                                    *)
StartsInArrivalOrder ==
  \A i, j \in 1 .. Len(accepted) :
    i < j /\ (\E k \in 1 .. Len(queue) : queue[k] = accepted[i])
      => job[accepted[j]] = "none"

(* Between requests the loop never idles on a backlog: with no job running    *)
(* the queue is empty.                                                       *)
NoIdleBacklog == running = NoRequest => queue = <<>>

(* A shutdown, or the client going away, ends the process, even if the        *)
(* integration that is running would never end: its observer hears the flag   *)
(* that the loop raises.  A stiff solve, which hears nothing, has to return,    *)
(* and a job thread has to report: the loop waits for it.                     *)
ShutdownEnds == (shuttingDown \/ ~reading) ~> ~serving

-----------------------------------------------------------------------------
(* What a session promises its client, and how it is read off the worker.      *)

(* The terminal messages of one request, with their places on stdout.          *)
AnswersTo(r) ==
  {<<i, out[i].kind>> : i \in {k \in 1 .. Len(out) : IsTerminal(out[k], r)}}

Contract == INSTANCE RequestContract WITH
  Answers <- TerminalKinds,
  asked   <- ToSet(accepted),
  answers <- [r \in Requests |-> AnswersTo(r)],
  session <- IF serving THEN "open"
             ELSE IF out # <<>> /\ Last(out).kind = "ShuttingDown" THEN "closed" ELSE "lost"

(* The worker implements the request contract: ADR 0003's exactly-one         *)
(* terminal message, with all its queueing and threading in between.          *)
ImplementsContract == Contract!Spec

(* Every integration ends some day: the solvers stop at 10,000,000 steps.      *)
IntegrationsEnd == \A r \in Requests :
  (job[r] = "integrating") ~> (job[r] = "closing" \/ ~serving)

(* Under the scheduling the operating system gives, asked means answered, if    *)
(* integrations end: one that did not would keep its own client, and all that   *)
(* wait in the queue behind it, without an answer.                            *)
ContractAnswering == IntegrationsEnd => Contract!Answering
=============================================================================
