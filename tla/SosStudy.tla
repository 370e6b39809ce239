------------------------------ MODULE SosStudy ------------------------------
(***************************************************************************)
(* One study store of the scientific operating system: `sos run` executes a  *)
(* plan stage by stage against a cache that outlives the process, then seals *)
(* the plan and the ledger of the run; `sos verify --rerun` finds the run    *)
(* that produced an object and executes it again.  Commands run one at a     *)
(* time and may be killed anywhere; between two of them the binary may be    *)
(* replaced by another build.                                                *)
(*                                                                         *)
(* Ids are content addresses, so an object is its id, and a record (plan or  *)
(* ledger) stored twice is stored once.  A stage is a number, its place in   *)
(* the order of stage ids.                                                  *)
(***************************************************************************)
EXTENDS Integers, FiniteSets

CONSTANTS
  Stages,         \* the stages of every study, ordered as their ids are
  Consumes,       \* Stage.consumes: the stages whose outputs a stage reads
  Plugin,         \* StageDescriptor: name, version and content hash
  Studies,        \* the studies: a configuration (with its seed) per stage
  Bindings,       \* sets of stages the registry and the grant let run
  Builds,         \* builds of the sos binary
  Lock,           \* the environment digest of a verification
  Produce(_, _),  \* what a build's stage handlers compute
  MaxRuns         \* bound: commands started

ASSUME StudyAssumption ==
  /\ Stages \subseteq Nat
  /\ Consumes \in [Stages -> SUBSET Stages]
  /\ \A s \in Stages : \A t \in Consumes[s] : t < s
  /\ Lock \notin Builds
  /\ MaxRuns \in Nat

VARIABLES
  objects,    \* object files of stage results
  plans,      \* stored Plan records
  ledgers,    \* stored RunLedger records
  memoFile,   \* memo.json: cache key -> outputs
  corrupt,    \* memo.json was cut short: it no longer parses
  build,      \* the build of the next command
  pc,         \* the command that runs, and where it is
  study, bound, env,
  memo,       \* FileMemo.map (or the MemoTable of a verification)
  dirty,      \* FileMemo.dirty
  steps,      \* the LedgerSteps so far: stage -> key, outcome, outputs
  original,   \* the ledger a verification compares with
  verdict,    \* what the last verification said
  runs        \* commands started

stored  == <<objects, plans, ledgers, memoFile, corrupt>>
process == <<pc, study, bound, env, memo, dirty, steps, original>>
vars    == <<stored, build, process, verdict, runs>>

Nothing    == [k \in {} |-> {}]
NoLedger   == [study |-> Nothing, env |-> Lock, steps |-> Nothing]
NoVerdict  == [said |-> "nothing", of |-> NoLedger, by |-> Lock]

-----------------------------------------------------------------------------
(* The plan and the cache key.                                               *)

(* Every stage of the plan.  Mutant: those that can be run.                     *)
Runnable == bound \ DOMAIN steps
Todo     == Stages \ DOMAIN steps

(* Plan::topo_order: of the stages whose dependencies are done, the least id.  *)
Scheduled(s) ==
  /\ s \in Todo
  /\ Consumes[s] \subseteq DOMAIN steps
  /\ \A t \in Todo : Consumes[t] \subseteq DOMAIN steps => s <= t

(* run_plan resolves the dataflow before it computes the key.  Mutant: after.   *)
DeclaredInputs(s) == {}
ResolvedInputs(s) == UNION {steps[t].outputs : t \in Consumes[s]}

Work(s) ==
  [plugin |-> Plugin[s], config |-> study[s],
   inputs |-> UNION {steps[t].outputs : t \in Consumes[s]}]

CacheKey(s) ==
  [plugin |-> Plugin[s], config |-> study[s],
   inputs |-> ResolvedInputs(s), env |-> env]

(* The label of the run and the version of the binary.                          *)
EnvDigest == build

Step(s, outcome, outputs) ==
  [t \in DOMAIN steps \cup {s} |->
     IF t = s THEN [key |-> CacheKey(s), outcome |-> outcome, outputs |-> outputs]
     ELSE steps[t]]

Remember(k, outputs) ==
  [q \in DOMAIN memo \cup {k} |-> IF q = k THEN outputs ELSE memo[q]]

-----------------------------------------------------------------------------
Init ==
  /\ objects = {} /\ plans = {} /\ ledgers = {} /\ memoFile = Nothing /\ corrupt = FALSE
  /\ build \in Builds
  /\ pc = "idle" /\ study = Nothing /\ bound = {} /\ env = Lock
  /\ memo = Nothing /\ dirty = FALSE /\ steps = Nothing /\ original = NoLedger
  /\ verdict = NoVerdict /\ runs = 0

(* What a command leaves behind in memory when it ends: nothing.               *)
Exit ==
  /\ pc' = "idle" /\ study' = Nothing /\ bound' = {} /\ env' = Lock
  /\ memo' = Nothing /\ dirty' = FALSE /\ steps' = Nothing
  /\ original' = NoLedger

-----------------------------------------------------------------------------
(* sos run.                                                                  *)

(* A memo that does not parse stops the run (it is not reset).                  *)
SosRun(p, b) ==
  /\ pc = "idle" /\ runs < MaxRuns
  /\ ~corrupt
  /\ pc' = "running" /\ study' = p /\ bound' = b /\ env' = EnvDigest
  /\ memo' = memoFile /\ dirty' = FALSE /\ steps' = Nothing
  /\ original' = NoLedger /\ runs' = runs + 1
  /\ UNCHANGED <<stored, build, verdict>>

Executing == pc \in {"running", "verifying"}

CacheHit(s) ==
  /\ Executing /\ Scheduled(s)
  /\ CacheKey(s) \in DOMAIN memo
  /\ steps' = Step(s, "CacheHit", memo[CacheKey(s)])
  /\ UNCHANGED <<stored, build, pc, study, bound, env, memo, dirty, original,
                 verdict, runs>>

(* A handler puts what it has computed and then returns the ids.  Mutant: it      *)
(* leaves the putting to the caller.                                           *)
PutNothing(outputs) == {}
Put(outputs)        == outputs

(* Mutant: put does not mark a memo that was read from a file.                  *)
DirtyIfNew == memoFile = Nothing
Marked     == TRUE

(* A miss: Dispatch binds the stage (pinned hash, capabilities, handler), the   *)
(* handler runs, the outputs are memoized.                                    *)
Run(s) ==
  /\ Executing /\ Scheduled(s)
  /\ CacheKey(s) \notin DOMAIN memo
  /\ s \in bound
  /\ LET outputs == Produce(build, Work(s)) IN
       /\ objects' = objects \cup Put(outputs)
       /\ memo' = Remember(CacheKey(s), outputs)
       /\ steps' = Step(s, "Ran", outputs)
  /\ dirty' = Marked
  /\ UNCHANGED <<plans, ledgers, memoFile, corrupt, build, pc, study, bound, env,
                 original, verdict, runs>>

(* A miss that cannot run: unbound, or its configuration is not on offer.  The   *)
(* error leaves run before the memo is flushed.                                *)
StageFails(s) ==
  /\ Executing /\ Scheduled(s)
  /\ CacheKey(s) \notin DOMAIN memo
  /\ Exit
  /\ UNCHANGED <<stored, build, verdict, runs>>

Flush ==
  /\ pc = "running" /\ Todo = {}
  /\ memoFile' = IF dirty THEN memo ELSE memoFile
  /\ dirty' = FALSE /\ pc' = "flushed"
  /\ UNCHANGED <<objects, plans, ledgers, corrupt, build, study, bound, env, memo, steps,
                 original, verdict, runs>>

(* The plan is sealed, then the ledger.                                        *)
SealOrder == <<"plan", "ledger">>

Ledger == [study |-> study, env |-> env, steps |-> steps]

PutRecord(kind) ==
  /\ plans' = IF kind = "plan" THEN plans \cup {study} ELSE plans
  /\ ledgers' = IF kind = "ledger" THEN ledgers \cup {Ledger} ELSE ledgers

Seal ==
  /\ pc = "flushed"
  /\ PutRecord(SealOrder[1])
  /\ pc' = "sealed"
  /\ UNCHANGED <<objects, memoFile, corrupt, build, study, bound, env, memo, dirty, steps,
                 original, verdict, runs>>

SealLast ==
  /\ pc = "sealed"
  /\ PutRecord(SealOrder[2])
  /\ Exit
  /\ UNCHANGED <<objects, memoFile, corrupt, build, verdict, runs>>

-----------------------------------------------------------------------------
(* sos verify --rerun.                                                       *)

Outputs(l) == UNION {l.steps[s].outputs : s \in DOMAIN l.steps}

(* ledgers_producing: every stored run with the object among its outputs.       *)
Producers(o) == {l \in ledgers : o \in Outputs(l)}

Says(what, l) == verdict' = [said |-> what, of |-> l, by |-> build]

VerifyRefuses(o) ==
  /\ pc = "idle" /\ runs < MaxRuns /\ runs' = runs + 1
  /\ \/ Producers(o) = {} /\ Says("NoProducingLedger", NoLedger)
     \/ Cardinality(Producers(o)) > 1 /\ Says("AmbiguousProducer", NoLedger)
     \/ \E l \in Producers(o) :
          /\ Producers(o) = {l} /\ l.study \notin plans
          /\ Says("PlanNotStored", l)
  /\ UNCHANGED <<stored, build, process>>

(* The re-run starts from an empty memo.  Mutant: from the one of sos run.       *)
WarmStart(l) == [memo |-> memoFile, env |-> l.env]
StartOf(l)   == [memo |-> Nothing, env |-> Lock]

Verify(o, b) ==
  /\ pc = "idle" /\ runs < MaxRuns
  /\ \E l \in Producers(o) :
       /\ Producers(o) = {l} /\ l.study \in plans
       /\ original' = l /\ study' = l.study
       /\ memo' = StartOf(l).memo /\ env' = StartOf(l).env
  /\ pc' = "verifying" /\ bound' = b /\ dirty' = FALSE /\ steps' = Nothing
  /\ runs' = runs + 1
  /\ UNCHANGED <<stored, build, verdict>>

(* verify_rerun: the outputs are compared id by id.                           *)
SameOutputs == \A s \in Stages : steps[s].outputs = original.steps[s].outputs

Judge ==
  /\ pc = "verifying" /\ Todo = {}
  /\ Says(IF SameOutputs THEN "Reproduced" ELSE "Diverged", original)
  /\ Exit
  /\ UNCHANGED <<stored, build, runs>>

-----------------------------------------------------------------------------
(* Crashes, upgrades, and the operator.                                       *)

(* Killed: a handler may have put some of its objects (each is renamed into      *)
(* place whole), and a memo being written may be cut short.                    *)
Crash ==
  /\ pc # "idle"
  /\ \/ UNCHANGED <<objects, memoFile, corrupt>>
     \/ \E s \in Stages :
          /\ Executing /\ Scheduled(s) /\ CacheKey(s) \notin DOMAIN memo
          /\ s \in bound
          /\ \E part \in SUBSET Produce(build, Work(s)) :
               objects' = objects \cup part
          /\ UNCHANGED <<memoFile, corrupt>>
     \/ /\ pc = "running" /\ Todo = {} /\ dirty
        /\ corrupt' = TRUE /\ memoFile' = Nothing /\ UNCHANGED objects
  /\ Exit
  /\ UNCHANGED <<plans, ledgers, build, verdict, runs>>

Upgrade ==
  /\ pc = "idle"
  /\ \E b \in Builds : build' = b
  /\ UNCHANGED <<stored, process, verdict, runs>>

(* Deleting a corrupt memo is left to the operator.                           *)
DeleteMemo ==
  /\ pc = "idle" /\ corrupt /\ corrupt' = FALSE
  /\ UNCHANGED <<objects, plans, ledgers, memoFile, build, process, verdict, runs>>

Next ==
  \/ \E p \in Studies, b \in Bindings : SosRun(p, b)
  \/ \E s \in Stages : CacheHit(s) \/ Run(s) \/ StageFails(s)
  \/ Flush \/ Seal \/ SealLast
  \/ \E o \in objects : VerifyRefuses(o) \/ \E b \in Bindings : Verify(o, b)
  \/ Judge
  \/ Crash \/ Upgrade \/ DeleteMemo

Spec == Init /\ [][Next]_vars

-----------------------------------------------------------------------------
(* Properties.                                                               *)

LedgerSteps(l) == {l.steps[s] : s \in DOMAIN l.steps}

(* The records have their shape: a ledger covers every stage of a known study,   *)
(* and only a command that runs has anything in memory.                        *)
TypeOK ==
  /\ plans \subseteq Studies
  /\ \A l \in ledgers :
       /\ l.study \in Studies /\ l.env \in Builds /\ DOMAIN l.steps = Stages
       /\ \A st \in LedgerSteps(l) : st.outcome \in {"CacheHit", "Ran"}
  /\ build \in Builds /\ runs \in 0 .. MaxRuns /\ dirty \in BOOLEAN
  /\ corrupt \in BOOLEAN
  /\ corrupt => memoFile = Nothing
  /\ pc \in {"idle", "running", "flushed", "sealed", "verifying"}
  /\ DOMAIN steps \subseteq Stages
  /\ pc = "idle" => steps = Nothing /\ memo = Nothing /\ ~dirty
  /\ pc # "idle" => study \in Studies /\ env \in Builds \cup {Lock}

(* Nothing recorded dangles: whatever the cache or a ledger lists as an output    *)
(* is in the store, wherever earlier commands were killed.                     *)
RecordedIsStored ==
  /\ \A l \in ledgers : Outputs(l) \subseteq objects
  /\ \A k \in DOMAIN memoFile : memoFile[k] \subseteq objects

(* A stored ledger can be executed again: its plan is stored too, even when the   *)
(* run that sealed it was killed on the way.                                  *)
LedgerHasItsPlan == \A l \in ledgers : l.study \in plans

(* A verification tells the truth: it says that a run reproduces exactly when     *)
(* the build that verified computes, from scratch, what the ledger lists.       *)
VerdictIsTrue ==
  verdict.said \in {"Reproduced", "Diverged"} =>
    (verdict.said = "Reproduced" <=>
       \A s \in Stages :
         LET l == verdict.of IN
         l.steps[s].outputs =
           Produce(verdict.by,
                   [plugin |-> Plugin[s], config |-> l.study[s],
                    inputs |-> UNION {l.steps[t].outputs : t \in Consumes[s]}]))

(* When a run is recorded, the cache on disk answers every stage of it: running   *)
(* the study again executes nothing.                                          *)
RecordedIsCached ==
  [][\A l \in ledgers' \ ledgers :
       \A s \in Stages : l.steps[s].key \in DOMAIN memoFile]_vars

(* What is recorded is what execution from scratch gives (see PureStudy): no      *)
(* cached result of another configuration, upstream or build gets into a ledger. *)
ReportOf(l) ==
  [study |-> l.study, build |-> l.env,
   outputs |-> [s \in DOMAIN l.steps |-> l.steps[s].outputs]]

Reports == {ReportOf(l) : l \in ledgers}

Pure == INSTANCE PureStudy WITH reported <- Reports

ImplementsPureStudy == Pure!Spec
=============================================================================
