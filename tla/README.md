# A verification project for SciRust

SciRust is a Rust workspace of some hundred and fifty crates. Nearly all of its
990,000 lines are floating-point libraries; a few crates run concurrently, talk to
other processes and keep state on disk, and those are what this project models:

* **SciRust Studio**, the desktop application around the scientific engine, where
  threads, processes, files and users meet;
* the **study store** of the scientific operating system (SOS), where results are
  cached across crashes and upgrades and taken for those of a fresh execution;
* the **approval path of SciAgent**, where a tool call is questioned, cancelled,
  authorized and recorded by threads that share a policy and three chained files.

```
 interface (Dioxus) --commands--> Tauri shell --> application service --NDJSON--> capability
   |  ^  ScenarioEditor          (a thread each)   |            |                 worker
   |  | polls                                      v            v               (own process)
   |  +--------------------------------------- event bus    run store <-- CLI
   StudioFrontend                              EventBus     RunStore       StudioWorker
                       StudioService

 sos run / sos verify --> stages, memo, ledger, objects                    SosStudy
 DeepSeek bridge --> approval service --> gate --> tool --> trail          DeepSeekBridge
                        audit file     policy log        (ChainedLog, ApprovalPolicy)
```

## 1. Inventory

| Component | State | Operations | What is hard | Correct when |
|---|---|---|---|---|
| Capability worker, `scirust-studio-worker` | `handshaken`, `running`, `queue`, `cancelled_before_start`, `shutting_down`; one mpsc channel; one thread per job | hello, catalog, validate, run, cancel, shutdown, end of input | three kinds of threads meet in one channel; four paths to a terminal message | every request has exactly one terminal message, in a session that ends when told to |
| Application service, `scirust-studio-app-service` | `Shared` under one mutex, the reader-thread slot under another | `start_worker`, `start_run`, `cancel_run`, `shutdown`, `Drop`; reader thread: `handle_worker_message`, `settle`, `handle_worker_gone` | every operation is several critical sections with a spawn, a send or a disk write in between; the worker may die at any moment | tables agree, one settlement per run, results stored before they are announced, no process left behind |
| Event bus, same crate | bounded queue, drop count | `publish`, `drain` | overflow | losses are counted and placed |
| Run store, `scirust-studio-store` | directories on disk, no lock | `begin`, `complete`, `cancel`, `fail`, `discard_interrupted`, `verify` | several processes; each may die between two calls | a final name always holds a complete run, for good |
| Runtime, `scirust-studio-runtime` | cancellation flag | `simulate_cancellable`, adapters | the flag is polled between steps, or, for the stiff solver, only before the solve | cancellation is noticed, events come in order |
| IPC, `scirust-studio-ipc` | none | `read_message`, `write_message` | end of stream inside a message, over-long messages | a broken stream is an error, a closed one is not |
| Interface, `apps/scirust-studio`, and its Tauri shell | reducer model; commands in flight; polling loop | start, cancel, restart, poll, edit, load, save, validate | every answer is about the state of when it was computed | what is shown is what happened |
| SOS, `sos/` | content-addressed objects, plans and ledgers, `memo.json` | `sos run`, `sos verify --rerun`, and planner, knowledge, reference commands | resume after a kill, cache validity across studies and builds | what is recorded is what execution from scratch gives |
| SciAgent, `scirust-sciagent/src/agentic` | approvals, session grants, policy cell and log, audit, trail, budgets | question, cancel, authorize, escalate, execute, record, switch policy | detached answerer, revocation, concurrent appends, torn files | nothing runs without a live and recorded approval |
| `scirust-core` distributed | buffers per rank | exchange, reduce | ordering of ranks | same result for every schedule |
| `scirust-func-safety`, `scirust-mlops` | mode and version machines | switch, update, roll back | hysteresis, failed updates | a bad step leads back to a safe mode |
| Protocol crates, numerical crates | codecs; none | | | left aside: data, not control |

`PROJECT.json` lists each of these as a component with its status, and under
`hazards` what in the modelled code is hard to test, at the line where it
bites, with the properties that would catch it.

## 2. Modules

| Module | Models | Instance, theorems |
|---|---|---|
| `StudioWorker` | the worker process from inside: stdin reader, loop, job threads | `MCStudioWorker`, `StudioWorkerProofs` |
| `RequestContract` | what a session promises its client, with no queue or thread | refined in `StudioWorker` |
| `StudioService` | callers, the two mutexes, reader threads, worker processes from outside | `MCStudioService`, `StudioServiceProofs` |
| `RunStore` | file-system steps of writers and discarders | `MCRunStore`, `RunStoreProofs` |
| `EventBus` | the bounded buffer | inside `StudioFrontend`; `EventBusProofs` |
| `StudioFrontend` | extends `EventBus`: the interface, commands, polling loop, and the service as it sees it | `StudioFrontendProofs` |
| `ScenarioEditor` | the editor and the commands it awaits | |
| `SosStudy` | `sos run` and `sos verify --rerun` over one store | `MCSosStudy`, `SosStudyProofs` |
| `PureStudy` | what a recorded run promises, with no cache | refined in `SosStudy` |
| `ChainedLog` | the hash-chained files, as operators | `ApprovalPolicyProofs` |
| `ApprovalPolicy` | extends `ChainedLog`: policy cell and policy log | `ApprovalPolicyProofs` |
| `DeepSeekBridge` | extends `ApprovalPolicy`: tool calls from question to trail | `MCDeepSeekBridge`, `DeepSeekBridgeProofs` |

Mutants (`PROJECT.json`, `mutants`) are operators placed just before the
definition they distort; each says in its comment which plausible bug it is.
No action uses them.

### StudioWorker

An action is one arm of the `match` in `serve` (`main.rs:81-252`), one step of
a job thread, or one line of input. `chan` is the mpsc channel, `out` all
of stdout. The reader thread and the client are merged: a line sent is a
line put into the channel, and `ReaderStops` is end of input or an
unreadable line. Jobs follow `run_job` and `simulate_cancellable`: refused
before `Started`, flag read once before integrating, then after every accepted
step. A *stiff* request (`adapters/robertson.rs`) has no callback and reads the
flag only before the solve. An integration may go on for ever: `MaxSteps` bounds the steps that report progress
(the sink lets 20 through), and after them any number of silent ones may follow. `Crash` is the end of the process by a signal.

Abstracted: scenario texts, results and warnings (no adapter emits one; the
variant is never constructed outside tests); request ids are unique, as
`RequestIds` makes them; writes to stdout do not fail (a failing one ends
`serve`, like a crash does); a panic inside a job thread is not modelled (see
hazards).

### RequestContract

Three variables: what has been asked, the answers given, and whether the session is
open, closed with a farewell or lost. Derived from ADR 0003's "Exactly one
terminal message per request" and kept free of everything in `serve`. The refinement
mapping ends `StudioWorker`: `asked` is what the loop has accepted, the `answers` to a request
are its terminal messages, each with its place on stdout (so that a second one, of whatever kind, is
a second answer), and a session is `closed` if the
process has ended with `shutting_down` as its last message.

### StudioService

The grain is the critical section: between two of them every other thread may
run. `start_run` is `BeginRun` (store), then `RefuseRun` or `AdmitRun` (first
section, which includes the send), then `SetInitialState` (second section, in
`set_state`). `cancel_run` is `CancelRun` (call), `MarkCancelling`, then
`SendCancel` or `TerminateWorker`. `start_worker` is `StartWorker`, `Spawn`,
`InstallWorker`, `AttachReader`, `SlotReader`. `shutdown` is `Shutdown`, the sections of
`cancel_run` if a job is active, then `CloseInput`, `TakeReader`, `JoinReader`,
`TakeWorker`. A reader takes one message (`ReadProgress`, `ReadOutcome`), or finds its
worker gone (`WorkerGone`, `SettleLost`), and settles in three steps, as the code does:
take the pending run, call the store (`StoreRun`), commit (`CommitSettlement`).

A job, its request id and its store entry are one number, assigned by
`start_run`. Losing the last handle of a process closes its stdin and does not kill it,
which is what dropping a Rust `Child` does. The process side follows
`StudioWorker`: told to stop it may answer `Cancelled` or have finished; end of
input makes it exit without an answer. A message from the service reaches it at once:
the pipe to it holds at most a request and a cancel, and a cancel
for a request it no longer runs is ignored by the worker in either order.

Abstracted: `job_for`'s lock and the one after it are one step (only the
reader itself removes a request from the table while its worker lives, and the
second lock repeats the test that matters); the three failure kinds are one. Publications are
in `StudioFrontend`. An outcome is `Unreadable` if it is a result (which may
exceed the 64 MiB limit) or the torn last line of a dead process.

### RunStore

An action is one file-system call. Directories are named by the writer that
created them, so that a path leading to somebody else's directory can be
told. POSIX semantics: `create_dir` fails on an existing name, `rename` replaces an
empty directory and no other, an open directory is emptied wherever it has been moved,
`rmdir` fails on a non-empty one. A `Stop` is a crash, a failed call, or a dropped
`PendingRun`, and may leave the file being written torn. `Allocate` tests both names of
a candidate in one step; a rename between the two tests is as good as one after
both. `Careful` says that only a run nobody is writing any more is
discarded, which the interface suggests and the code does not check.

### StudioFrontend

The interface is a single-threaded WebAssembly program: an action of it is what it does between two
awaits (a reducer call and what follows it). `call` is a set of places for commands in flight; each
command runs on a thread of its own (the shell's `blocking`, `commands.rs:309`), so its steps (`Command`)
interleave with everything and its answer may arrive late. `PollEvents`, `ApplyBatch`, `JobSnapshot` and
`ApplySnapshot` are one round of the polling loop: drain, apply the events in order (the last one about
the worker decides), look whether a run is active, ask for it, apply the answer to *whatever run is shown by
then*.

The service is what the interface can see of it: `held`, `slot`, the `JobState`s and each reader's place.
Settlement keeps its two critical sections (`TakeJob`, `Commit`): the first finds the job unsettled, the
second writes without looking. Publications happen after the mutex is released, so `PublishStarted` and
`PublishExited` are steps of their own. Where the detail of `StudioService` does not show, it is a free
choice: a worker may die, answer or progress at any time it has a reader; a job may end `Cancelled` or
`Interrupted` when its worker is gone. There is no formal refinement between the two modules; both are
translated from the same lines, which `map` gives for each.

`news` says what each event under way means to the interface (`started`, `exited` or nothing). Four history
variables record circumstances that properties except: `belief` (was `worker_running` last set by an event
or by an answer), `missed` (an exit was dropped from a full buffer), `overlapped` (two starts in flight at
once), `contested` (two readers between the sections of settling one job).

### ScenarioEditor

`source`, `saved_source`, `validated_ok` and the file on disk. Saving and validating capture the text, await,
and apply the answer to the editor of then. One save and one validation are in flight at a time; more would
add nothing to the one divergence the module is there for.

### SosStudy and PureStudy

An id is a content address, so an object is its id, and a cache key is the record of what it hashes: plugin
descriptor, stage configuration (with its seed), resolved inputs and environment. One command runs at a time.
`SosRun` reads the memo file; `Scheduled` is the topological order with the least stage id first; `CacheHit`, `Run` and
`StageFails` are one iteration of `run_plan`; `Flush` writes the memo if it is dirty; `Seal` and `SealLast`
put the plan and then the ledger. `Verify` starts from an empty memo under a fixed environment, executes the stored plan
again and `Judge`s id by id. `Crash` may come anywhere: in a handler that has put some of its objects, or while
`memo.json`, which is written in place, is cut short; a memo that does not parse stops every later run until somebody
deletes it. `Upgrade` replaces the binary between commands: `Produce(build, work)` is what a build computes,
an uninterpreted function, so that "from scratch" means the same in the model and in the promise.
`PureStudy` has one variable, the reports made, each of which must be coherent; `ReportOf` maps a ledger to
its report.

### ChainedLog, ApprovalPolicy, DeepSeekBridge

A line of a chained file holds its body and the bodies its writer had read, which is what the hash of the
line before stands for; it is whole, unended (only its newline is missing), torn or garbled (two writes on one line).
A reader accepts all or nothing (`Readable`). `ApprovalPolicy` has the cell the gate and the approval service share, and the log: a
switch through the gate reads the log, appends and then writes the cell, with no lock over the three; `set_policy` of the
approval service writes the cell only.

A call of `DeepSeekBridge` is a thread: record the question (two steps: load and append), dispatch the answerer or
resolve at once, wait in intervals that look at the token first, look once more at the token, record the
resolution; then authorization by the gate (session grants, explicit ask rules, policy), escalation of the
sandbox as a question of its own, execution, and the record in the enterprise trail, whose load and append are
one transaction. The answerer is detached and may answer at any time or never. Steps that read two
things nobody can observe apart are merged: the token check and the policy read in `Dispatch`, session and policy
in `Authorize`. `Crash` loses what is in memory, may cut one write in progress, and `Restart` refuses a policy log that does not verify.
Each `Crash`, switch, cancellation and revocation counts against `MaxUpsets`.

## 3. Runs

| Run | Instance | Shows |
|---|---|---|
| `worker_safety` | 3 requests, 5 messages, 1 step; 5.0 M states | runs start in arrival order, no backlog behind an idle loop, a terminal message is the last about its request |
| `worker_contract` | 2 requests (one stiff), 4 messages, crash, fair; 0.47 M states | `StudioWorker` implements `RequestContract`, every request is answered if integrations end, a shutdown or a vanished client ends the process even if they do not |
| `service_race` | 2 callers, 2 runs (one stiff) and 2 workers, of both together 3, failing store; 1.03 M states | tables agree, one settlement, completions stored, an interruption has no outcome, no calculation or process nobody owns |
| `service_liveness` | 2 callers, 2 runs (one stiff), 1 worker, fair; 0.43 M states | the slot is always freed; a shutdown that no `start_worker` overlaps stops every worker, also when two callers wait for one reader |
| `store_record` | 3 writers of one id base, 2 suffixes, a careful discarder; 0.13 M states | what is final verifies and stays, no shared directory |
| `frontend` | capacity 2, 4 events, 2 runs (one stiff) and 2 workers, of both together 3, 2 commands in flight, fair; 2.4 M states | ends shown are true, a lost worker is noticed, nothing goes back, gaps are exact, what has settled is shown settled |
| `sos_study` | 3 stages, 2 studies that share stages, 2 builds, 4 commands; 0.12 M states | records are stored, cached, verifiable and what execution from scratch gives |
| `bridge` | 2 calls (an ask; an explicit ask that escalates), 1 tool, 1 setter, 2 upsets, torn writes, fair; 0.94 M states | cancellation, Never, explicit questions and records hold against every order |

Runs that find the code contradicting what it says of itself, each with its
finding in `PROJECT.json`:

| Run | The code |
|---|---|
| `service_terminal` | overwrites a terminal state with the initial one |
| `store_discard` | deletes files of a run being finalized |
| `editor_saved` | marks as saved what was typed while the save dialog was open |
| `bridge_audit` | lets two calls write the same place of the approval audit, which then verifies no more |

**Bounds.** Two requests are enough for anything between a running and a queued
job, three for the order of a queue behind a running one; four or five client messages
fit hello, two runs, a cancel and a shutdown. One accepted step that reports separates the
two places the flag is read; what follows it is unbounded. `worker_safety` leaves out the
death of the process (`MayCrash`), which adds to each state only itself, with nothing moving any more; `worker_contract` has it.
Two callers are what it takes to interleave two operations; a third adds no new pair. Two workers are what a restart or a double start
needs, two runs what a confusion of runs needs; `MaxBoth` keeps the two apart (two runs of one worker, or one run while two
workers come up), because the full product (24 M states, checked once) is too long for a routine run.
`service_liveness` has two callers, so that two shutdowns contend for the reader's mutex and a start or a cancellation crosses a shutdown; its one worker may die at any time. Both properties also hold with two workers in succession or at
once (1 caller, 2 runs: 0.07 M states; 2 callers, 1 run: 1.03 M states), checked apart because the larger takes four minutes.
Three writers and two suffixes let a name be taken, exhausted, and freed by a rename.

In `frontend` the start-up event, an exit, and either the start and exit of a second worker or two other events fit
into `MaxEvents`; `Room` keeps back what installed workers still owe, so that no exit is held up by the bound.
Capacity 2 makes overflow reachable, also of an exit (`missed`). Two commands in flight are what a
crossing needs; the polling loop's are extra. Outcomes other than `Completed` are treated alike by reducers and
readers; `Cancelled` and `Interrupted` still come from a worker's death. No exception that a history variable makes
is idle: take one out of its property and TLC finds a violation (see 5).

In `sos_study` one stage feeds two others, the studies differ in the configuration of each stage and share some of
it across stages, a binding may lack a stage, and a handler has one output. Four commands fit a run, an upgrade, another study's run, a run from the
cache and a verification, in any choice. In `bridge` the two calls share one tool, so a session grant of the first is
remembered for the second. Two upsets allow a switch and a crash, or a cancellation and a switch.
A write is cut to a torn line (`Cuts = {"torn"}`) and one thread switches the policy; section 5 says what fails otherwise.

The counters `MaxSends`, `MaxRuns`, `MaxWorkers`, `MaxJobs`, `MaxCalls`, `MaxEvents` and `MaxUpsets` bound inputs, not
the code; `MaxSteps` stands for the 20 progress reports of a run (it does not bound the integration), and `MaxAttempts` is the code's 1000.

Symmetry: requests that are not stiff, callers and writers are interchangeable; only runs
without liveness properties use it. `CHECK_DEADLOCK FALSE` throughout: a session ends, callers, users and operators may
stop acting, and inputs are bounded.

**Fairness.** The worker's loop and each job thread are weakly fair, because the operating system
schedules live threads and `recv` returns while there is something to receive; the
client is not. That a job thread runs does not make its integration end: a solver that accepts steps may do so for ever, and
`ShutdownEnds` holds all the same, because the flag is read after every step and both `Shutdown` and end of input raise it. (A stiff solve, which does not look at
the flag, has to return, and a job thread that panics is not modelled: section 5.) A request that nobody cancels is answered only when its integration ends, so `ContractAnswering` is conditional on
`IntegrationsEnd`, which the solvers' budget of 10,000,000 steps gives (`scirust-sim/src/engine.rs:11`, 215, 610).
In the service a caller that has entered an operation carries on, readers run, and a worker that computes
answers in the end (every solver is bounded: `MAX_STEPS` in
`scirust-sim/src/engine.rs`) and exits on end of input. Nobody has to call anything, and crashes are
never forced. The flag and the two places it is read carry no fairness of their own. In the interface only the polling loop is fair:
it never ends and sleeps between rounds; `ShownRunFollows` needs nothing of users, workers or commands. In the bridge the
thread of a call is scheduled while it is being questioned; the answerer, an operator and whoever restarts the process owe nothing.

## 4. Proofs

Each proof module extends the module the runs check, so theorem and run are about the same definitions. Every
invariant was first given to TLC on the instances of section 3.

`EventBusProofs`: the five properties of the bus, for every capacity (zero included)
and any number of events. The inductive invariant `IInv` is the conjunction of the four
state invariants: the count and the order each need the other's account of what the buffer holds.
`GapIsExact` follows from it for every step.

`StudioServiceProofs`, from `ServiceAssumption` and for any number of callers, runs and workers:

* `TypesAreKept`. `TypeOK` is inductive once it is known that a run in the hands of a caller
  has been begun (`BegunIsNamed`).
* `SlotAlwaysAgrees`. `SlotAgreesWithJobs` is inductive relative to the types: the slot and the
  request table are written together, when a run is admitted into an empty slot and
  when it is freed by the step that writes its terminal state, and every other write
  of a state is of an unsettled one. That last fact is also why a terminal state that `start_run` overwrites
  (`service_terminal`) cannot bring the tables out of step.
* `CompletionsAreStored` and `RecordsAreFinal`. A state predicate about the store alone is not
  inductive. What is preserved is a right: the `PendingRun`, the right to finalize a run, is
  held by exactly one of the caller that opened it, the job table, and the
  reader that took it (`HeldOnce`), and while somebody holds it the store
  entry is partial (`HeldIsPartial`). `UnbegunIsAbsent` and `CommittedIsStored` (a completion about to be committed
  is in the store) complete `Settlement`. It holds with any
  number of readers settling the same run, which is the point: `PendingRun` is a Rust value that moves.
* `NoWorkerIsHidden`. A step is of one of two kinds: it lets nothing new become reachable (alive, with its input open), or it is `Spawn`, and then
  the caller holds the process; and the step that puts a process into `Shared`, or takes one out, has dropped the handle that was there
  (`NothingStarts`, `NoneAppears`).
* `WorkStaysInTheSlot`. `WorkFollowsSlot` alone is not inductive: a commit frees the slot, and nothing says that the run it commits is not being
  computed. `WorkInv` adds what does: a run nobody has heard of is the only kind that is given to a process (`RunsAreKnown`), to one process only
  (`OneDoer`), and once its answer is in a pipe (`OverOnceAnswered`), or a reader is settling it (`OverOnceSettled`), no reachable process computes it.
* `InterruptionsLeaveNoOutcome`. Under the property's own premise, that at most one worker has ever had a reader (`Lone`), the reader that finds its worker gone is the one that would have stored
  the outcome, and it reads nothing more. The invariant (`LossInv`) is about any number of readers as far as it can be: each worker gets one
  reader (`AttachedOnce`), the active run still has its `PendingRun` or is being settled by somebody (`ActiveIsHeld`), only a reader that is about to end
  interrupts a run (`LossIsLast`). `LoneLoss` says what follows when there is only one.

`StudioWorkerProofs`, for any requests, stiff or not, any number of messages and steps, and the process dying anywhere. `WorkerInv` follows a request through
the loop: an id is asked with once, so a request in the channel is not yet accepted (`AskedOnce`); what is accepted is answered, or runs, or waits in
the queue, and never two of these (`AnswersOK`); the queue is in the order of acceptance and nothing in it has started (`QueueOK`); only the running request has a thread,
whose outcome is the last thing it puts into the channel (`JobsOK`). Hence `WorkerTypes`, `OneTerminalMessage`, `ArrivalOrder`,
`BacklogRuns`. There are four paths to a terminal message, each in an arm of its own; that a second one never follows is the disjointness in `AnswersOK`.
`WorkerImplementsContract` is the safety half of the contract, by simulation: a step writes to stdout at its end, adds
at most one answer to a request that had none, and a farewell is written with the queue drained and nothing running (`Grows`, `Ends`, `NoFarewell`).
The other half, `ContractAnswering`, needs fairness and is model-checked.

`RunStoreProofs`, for any writers, id bases, suffixes and crashes. `StoreTypes` needs no assumption. `OwnDirectories`, `FinalsVerify` and `FinalsAreForGood` follow from
`StoreInv`, which is about paths: a directory under a pending name was made under that name by a writer that works or has stopped (`PendingIsOwn`), one under a final
name was put there by its own writer (`FinalIsOwn`), what a discarder has looked at or is emptying has been abandoned (`DoomedIsAbandoned`), and what a writer has written so far
is in its directory (`WorkIsThere`). They assume `OneCarefulDiscarder`: at most one process discards at a time, and only runs that nobody writes any more. The code checks
neither; `store_discard` shows what happens without the second, section 5 without the first.

`StudioFrontendProofs`, from `FrontAssumption` and the assumption of the bus, for any number of jobs, workers and commands and every
capacity: `FrontTypesHold`, `SettledShownTruly`, `LostWorkersAreNoticed`, `ShownOnlyForwards`, `GapsStayExact`. The invariant `FrontInv` extends the bus's `IInv`:

* `BatchOK`, `NewsOK`: every exit that has been published is in the buffer, in the batch or `missed`, and *when
  every worker has gone, no news under way is newer than the newest exit*. A reader publishes its exit before it counts as
  gone and after its worker's start, so the last publication of the last worker is an exit; the buffer drops the oldest first and a batch is applied in order,
  so the interface hears that exit last. `LostWorkerIsNoticed` by itself is not inductive: it does not say that the exit still to come is not
  overtaken by a start.
* `JobsOK`, `CallsOK`, `ShownOK`, `CommitOK`: the active job has not settled; a command holds the job it admitted; unless starts have
  overlapped, an answer or snapshot under way is about the run that is shown; and a job whose settlement is being committed by one reader alone is still
  unsettled, so the end written last is the only one.

`SosStudyProofs`, from `StudyAssumption`, for any plans, studies, builds and handlers. `IInv` says that every entry of the cache on disk and in memory,
and every step made so far, is honest: the outputs are what the build of that environment produces from the work that the key hashes
(`CacheIsHonest`, `MemoIsHonest`, `StepsAreHonest`, the induction over the store's whole life); that what is listed is stored (`MemoryIsStored`), that steps
are cached (`StepsAreCached`), and that the plan is sealed first (`SealsInOrder`). Hence `RecordedStored`,
`RecordedCached`, `LedgersHavePlans`, and `RefinesPureStudy`: `SealLast` is a step of `PureStudy`, everything else a stutter.
`VerdictsAreTrue` adds that the steps of a verification are those of its build alone (`RerunAgrees`), because its memo starts empty.

`ApprovalPolicyProofs` (which holds the lemmas about `ChainedLog` too) and `DeepSeekBridgeProofs`, for any calls, tools, rules and setters:

* from `ControlOK` (where a call is, its channel, its answer and its history agree): `TypeCorrect`, `CancelledHeld`, `ChannelsAsked`;
* from `LogsOK` and `TrailOK` (whoever is in the transaction has read the trail as it is): `TrailChained`, with every cut allowed;
* from `GrantsOK`: `GrantsRecorded`, with every cut allowed. A file whose last line has no newline is garbled by the first record after the restart, for good, and from then on
  no resolution is recorded; so a call that gets as far as recording a grant has its question whole on record and a line of its own to write;
* from `OutputsOK` (whoever is in the transaction found the trail whole): `OutputsAudited`, which assumes `NoSilentCut`: no crash cuts a write between its line and its newline;
* from `PolicyOK` and `ForbiddenOK` (while a switch is firm, cell and last line agree, or the log is unreadable and the gate is never built again): `SwitchesSurvive` and
  `NeverObeyed`, which assume `OneSetter`, one thread that switches through the gate.

`NoSilentCut`, `OneSetter` and `OneCarefulDiscarder` are hypotheses of the theorems that name them, not of the modules; the runs that check the same properties meet them.

So every invariant and every action property that a passing run checks is also a theorem, `TypeOK`s and two refinements included. Only model-checked: liveness under
fairness (`ContractAnswering`, `ShutdownEnds`, `SlotIsFreed`, `ShutdownStopsWorkers`, `ShownRunFollows`, `CancelIsHeard`), which is out of the prover's reach, as is `ENABLED`.

## 5. Known behaviours, and what is not modelled

What the code does, which bounds what can be claimed of it:

* *Refusals leave directories.* The store entry is opened before admission (`service.rs:374`); a refusal leaves a partial directory, listed as an interrupted run.
* *A cancel may hit another run.* `cancel_run` decides from a record read in an earlier critical section (`service.rs:488`): the worker it kills may run a job nobody cancelled,
  and a job settled by a worker's death is then called cancelled. `job.rs:30` says of it: "Stopped because the user asked." With a history of the runs anybody asked to cancel TLC finds the other in 21 steps: the run to be cancelled
  has just been answered, and the next one is admitted before the reader sees the killed process's output end. The process may as well be computing the next run when it is killed.
* *A double start forgets a live worker* until that process sees the end of its input.
* *A start that overlaps a shutdown outlives it*: a `start_worker` that looked before the `shutdown` (`service.rs:199`) installs its worker after it (`:215`), and nothing stops that
  worker until the service is dropped. `ShutdownStopsWorkers` is therefore about shutdowns that no `start_worker` overlaps; without that condition TLC finds a violation in 10 steps, against what `service.rs:608-612` says of `shutdown`; `Drop`, which has the service to itself, closes the gap.
* *A job thread that panics keeps a worker alive*: it sends no outcome, so a shutdown waits for it. Jobs that go on for ever do not.
* *`InterruptedHasNoOutcome` speaks of sessions in which at most one worker ever had a reader*: with two, the reader of the one may settle as lost what the other has answered.
* *Two discards of one abandoned run may hit a live one.* `discard_interrupted` tests the path (`store.rs:360`) and then removes what is there (`store.rs:366`). If another discard has removed the directory in
  between, and a new recording of the same scenario in the same second has taken the free name, the second discard removes the new directory or its files. With two discarders TLC
  finds `OwnDirectory` violated in 12 states and `FinalVerifies` in 16. `store_record` has one discarder, and the theorems on the store say so (`OneCarefulDiscarder`).
* *Crossing answers.* The answer of a restart, or of the start-up command, may arrive after the exit it crossed. The interface then shows a worker that is gone and does not let the
  user restart it. `LostWorkerIsNoticed` is therefore stated of a belief that came from an event; without that condition TLC finds a violation in eight steps.
* *A late exit* hides the worker that has replaced the one it is about (14 steps); a restart, which the interface then offers, finds the worker and shows it again.
* *A dropped exit.* An exit may be dropped from a full buffer (`missed`); the batch then says that something was lost, and the interface goes on showing the worker.
* *Overlapping starts.* Two starts in flight let a snapshot of one run be applied to the other (`overlapped`).
* *Contested settlements.* Two readers may settle one job, if a worker dies while another, which took over from it, dies too: the interface shows the end written first, the record
  holds the second (`contested`; 20 steps).
* *A run overwritten by `service_terminal` stays active in the interface for good*; `ShownRunFollows` follows jobs whose record is settled.
* *A report may land on another run.* The stored run's verification is awaited and written onto whatever run is displayed then; a validation answer is taken for the text of now.
* *AmbiguousProducer.* A second run of an unchanged study, all hits, is a second producer of the same objects (`driver.rs:252`), and none of them can be verified by name any more.
  `VerdictIsTrue` is about the verdicts that are given.
* *The memo is written in place*: a kill cuts it, and runs stop until it is deleted. Nothing recorded is affected (`RecordedIsStored` covers it).
* *A line that lacks only its newline still verifies*, and the next line is then written onto it: both are lost, and the file reads no more. With that cut allowed
  (`"unended" \in Cuts`), `OutputIsAudited` fails in 25 steps: the output is returned and its record is on a line that does not parse. The run leaves that cut out and the theorem names it.
* *Two setters* interleave log and cell: cell and log may then disagree after both have been acknowledged, and a restart brings back the other policy (9 steps).
* `set_policy` of the approval service changes the cell and not the log, so such a switch does not survive. `SwitchSurvives` is about the gate's.
* *A revocation does not reach a call that the gate has let through*: the session memory is read once (`permission.rs:551`), before the escalation and the execution.
* *A switch to Never during a question does not stop the call if a session grant is remembered*: `NeverIsObeyed` is about calls begun after the switch.

Not modelled:

* the numbers: adapters, solvers, results, hashes, time stamps and labels. Nearly all of the repository is of this kind, floating-point code without control state,
  which is why the share of its lines that the models stand for is small and stays so;
* in the service: read-only queries (one critical section each); a power loss that keeps a rename and loses the data before it (nothing in the store flushes); a hung handshake
  (nothing in the code bounds it); schema, registry and command crates, which are stateless;
* in the interface: a bootstrap that failed, the closing of the window, views, translations, stored-run pages and charts, the bounded activity log, a poll that fails;
* in SOS: the planner, curiosity, knowledge and reasoning engines; references, clone and garbage collection; two commands at once; the L1 and L2 certifiers; authorization is not checked
  again on a cache hit, and the model neither claims nor checks it;
* in SciAgent: delegation, budgets and their enforcement, the enterprise policy, wire validation (calls are valid), the persistent rule store, checkpoints; a governance refusal before the tool is
  one of the ways to `failed`.

## 6. Plan

Done: worker and contract; service; run store; event bus; interface and editor; study store with its pure specification; the approval path; proofs of the safety properties of all of them.

Next, by importance:

1. `TreeAllReduce` and the parameter exchange of `scirust-core`: same result for every schedule, against a reference fold.
2. `DegradedMode`, `Simplex`, `OtaUpdate`, `ShadowDeployment`.
3. IPC framing as a pure function over byte classes, against a reference splitter.
4. SciAgent's budgets and delegation over `DeepSeekBridge`; SOS's garbage collection against a running command.
5. A formal mapping of `StudioService` onto the service part of `StudioFrontend`.

Theorems to come: a formal mapping of `StudioService` onto the service part of `StudioFrontend` as a step simulation, and whatever the modules above bring.
