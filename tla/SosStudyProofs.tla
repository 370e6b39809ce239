---------------------------- MODULE SosStudyProofs ----------------------------
(***************************************************************************)
(* Theorems of SosStudy: nothing recorded dangles, every ledger has its plan, *)
(* every recorded run is cached, and what is recorded is what execution from   *)
(* scratch gives.  They hold for any number of commands, killed anywhere.     *)
(***************************************************************************)
EXTENDS SosStudy, TLAPS

(* A cache entry is what the build b computes for the key's work.              *)
WorkOf(k) == [plugin |-> k.plugin, config |-> k.config, inputs |-> k.inputs]

Honest(m, b) == \A k \in DOMAIN m : m[k] = Produce(b, WorkOf(k))

HonestByEnv(m) ==
  \A k \in DOMAIN m : k.env \in Builds /\ m[k] = Produce(k.env, WorkOf(k))

InRun == pc \in {"running", "flushed", "sealed"}

(* The parts of the invariant: the cache on disk, the cache in memory, the      *)
(* steps so far, and what is stored.                                          *)
CacheIsHonest == HonestByEnv(memoFile)

MemoIsHonest ==
  /\ InRun => env = build /\ ~corrupt /\ HonestByEnv(memo)
  /\ pc = "verifying" => env = Lock /\ Honest(memo, build)

StepsAreHonest ==
  \A s \in DOMAIN steps :
    /\ Consumes[s] \subseteq DOMAIN steps
    /\ steps[s].key = CacheKey(s)
    /\ steps[s].outcome \in {"CacheHit", "Ran"}
    /\ steps[s].outputs = Produce(build, Work(s))

(* The other parts: what is in memory is stored, or cached, already.            *)
MemoryIsStored ==
  /\ \A k \in DOMAIN memo : memo[k] \subseteq objects
  /\ \A s \in DOMAIN steps : steps[s].outputs \subseteq objects

StepsAreCached ==
  /\ \A s \in DOMAIN steps : steps[s].key \in DOMAIN memo
  /\ pc = "running" /\ ~dirty => memo = memoFile
  /\ pc \in {"flushed", "sealed"} =>
       /\ memo = memoFile
       /\ DOMAIN steps = Stages

SealsInOrder == pc = "sealed" => study \in plans

IsCoherent(l) ==
  \A s \in Stages :
    l.steps[s].outputs =
      Produce(l.env,
              [plugin |-> Plugin[s], config |-> l.study[s],
               inputs |-> UNION {l.steps[t].outputs : t \in Consumes[s]}])

LedgersAreCoherent == \A l \in ledgers : IsCoherent(l)

IInv ==
  /\ TypeOK
  /\ CacheIsHonest
  /\ MemoIsHonest
  /\ StepsAreHonest
  /\ MemoryIsStored
  /\ StepsAreCached
  /\ SealsInOrder
  /\ RecordedIsStored
  /\ LedgerHasItsPlan
  /\ LedgersAreCoherent

-----------------------------------------------------------------------------
(* A step of the schedule leaves the earlier steps, and what they were given,   *)
(* as they are.                                                              *)
LEMMA StepExtends ==
  ASSUME StudyAssumption, TypeOK, StepsAreHonest,
         NEW s \in Stages, Scheduled(s), NEW outcome, NEW outputs,
         steps' = Step(s, outcome, outputs), study' = study, env' = env
  PROVE  /\ s \notin DOMAIN steps
         /\ DOMAIN steps' = DOMAIN steps \cup {s}
         /\ \A t \in DOMAIN steps : steps'[t] = steps[t]
         /\ steps'[s] = [key |-> CacheKey(s), outcome |-> outcome, outputs |-> outputs]
         /\ \A t \in DOMAIN steps \cup {s} :
              /\ Consumes[t] \subseteq DOMAIN steps
              /\ Work(t)' = Work(t)
              /\ CacheKey(t)' = CacheKey(t)
  <1>1. s \notin DOMAIN steps /\ Consumes[s] \subseteq DOMAIN steps
    BY DEF Scheduled, Todo
  <1>2. /\ DOMAIN steps' = DOMAIN steps \cup {s}
        /\ \A t \in DOMAIN steps : steps'[t] = steps[t]
        /\ steps'[s] = [key |-> CacheKey(s), outcome |-> outcome, outputs |-> outputs]
    BY <1>1 DEF Step
  <1>3. ASSUME NEW t \in DOMAIN steps \cup {s}
        PROVE  /\ Consumes[t] \subseteq DOMAIN steps
               /\ Work(t)' = Work(t)
               /\ CacheKey(t)' = CacheKey(t)
    <2>1. Consumes[t] \subseteq DOMAIN steps
      BY <1>1 DEF StepsAreHonest
    <2>2. {steps'[u].outputs : u \in Consumes[t]} = {steps[u].outputs : u \in Consumes[t]}
      <3>1. \A u \in Consumes[t] : steps'[u].outputs = steps[u].outputs
        BY <2>1, <1>2
      <3>2. QED BY <3>1, Zenon
    <2>3. QED BY <2>1, <2>2 DEF Work, CacheKey, ResolvedInputs
  <1>4. QED BY <1>1, <1>2, <1>3

(* Adding what the build computed for a key keeps a cache honest.               *)
LEMMA RememberHonest ==
  ASSUME NEW s \in Stages, NEW outputs, memo' = Remember(CacheKey(s), outputs),
         CacheKey(s) \notin DOMAIN memo
  PROVE  /\ DOMAIN memo' = DOMAIN memo \cup {CacheKey(s)}
         /\ \A k \in DOMAIN memo : memo'[k] = memo[k]
         /\ memo'[CacheKey(s)] = outputs
  BY DEF Remember

LEMMA KeyOfWork ==
  ASSUME NEW s PROVE WorkOf(CacheKey(s)) = Work(s) /\ CacheKey(s).env = env
  BY DEF WorkOf, CacheKey, Work, ResolvedInputs

(* Records that are kept keep their properties.                                *)
LEMMA LedgersKept ==
  ASSUME IInv, UNCHANGED <<plans, ledgers, memoFile>>, objects \subseteq objects'
  PROVE  RecordedIsStored' /\ LedgerHasItsPlan' /\ LedgersAreCoherent' /\ CacheIsHonest'
  <1>1. RecordedIsStored'
    BY DEF IInv, RecordedIsStored, Outputs
  <1>2. QED
    BY <1>1 DEF IInv, LedgerHasItsPlan, LedgersAreCoherent, IsCoherent, CacheIsHonest,
         HonestByEnv, WorkOf

-----------------------------------------------------------------------------
(* Initially.                                                                *)
LEMMA InitIInv == StudyAssumption /\ Init => IInv
  <1> SUFFICES ASSUME StudyAssumption, Init PROVE IInv
    OBVIOUS
  <1>1. DOMAIN Nothing = {}
    BY DEF Nothing
  <1>2. TypeOK
    <2>1. runs \in 0 .. MaxRuns
      BY DEF Init, StudyAssumption
    <2>2. dirty \in BOOLEAN /\ corrupt \in BOOLEAN /\ ~dirty /\ ~corrupt
      BY DEF Init
    <2>3. /\ plans = {} /\ ledgers = {} /\ build \in Builds
          /\ pc = "idle" /\ steps = Nothing /\ memo = Nothing
      BY DEF Init
    <2>4. DOMAIN steps \subseteq Stages
      BY <2>3, <1>1
    <2>5. QED
      BY <2>1, <2>2, <2>3, <2>4, Zenon DEF TypeOK
  <1>3. QED
    BY <1>1, <1>2 DEF Init, IInv, CacheIsHonest, HonestByEnv, MemoIsHonest, InRun,
       StepsAreHonest, MemoryIsStored, StepsAreCached, SealsInOrder,
       RecordedIsStored, LedgerHasItsPlan, LedgersAreCoherent

(* A command that starts: sos run reads the cache, a verification starts with   *)
(* an empty one.                                                             *)
LEMMA SosRunIInv ==
  ASSUME StudyAssumption, IInv, NEW p \in Studies, NEW b \in Bindings, SosRun(p, b)
  PROVE  IInv'
  <1>1. TypeOK'
    <2>1. runs' \in 0 .. MaxRuns
      BY DEF SosRun, IInv, TypeOK, StudyAssumption
    <2>2. /\ pc' = "running" /\ study' \in Studies /\ env' \in Builds
          /\ dirty' = FALSE /\ steps' = Nothing /\ UNCHANGED <<stored, build>>
      BY DEF SosRun, EnvDigest, IInv, TypeOK
    <2>3. DOMAIN steps' \subseteq Stages
      BY <2>2 DEF Nothing
    <2>4. QED
      BY <2>1, <2>2, <2>3, Zenon DEF IInv, TypeOK, stored
  <1>2. RecordedIsStored' /\ LedgerHasItsPlan' /\ LedgersAreCoherent' /\ CacheIsHonest'
    BY LedgersKept DEF SosRun, stored
  <1>3. MemoIsHonest'
    BY DEF SosRun, EnvDigest, stored, IInv, CacheIsHonest, MemoIsHonest, InRun,
       HonestByEnv, WorkOf
  <1>4. StepsAreHonest' /\ StepsAreCached' /\ SealsInOrder'
    <2>1. /\ steps' = Nothing /\ ~dirty' /\ pc' = "running" /\ memo' = memoFile'
      BY DEF SosRun, stored
    <2>2. DOMAIN steps' = {}
      BY <2>1 DEF Nothing
    <2>3. QED
      BY <2>1, <2>2 DEF StepsAreHonest, StepsAreCached, SealsInOrder
  <1>5. MemoryIsStored'
    <2>1. DOMAIN steps' = {}
      BY DEF SosRun, Nothing
    <2>2. QED
      BY <2>1 DEF SosRun, stored, IInv, RecordedIsStored, MemoryIsStored
  <1>6. QED
    BY <1>1, <1>2, <1>3, <1>4, <1>5 DEF IInv

LEMMA VerifyIInv ==
  ASSUME StudyAssumption, IInv, NEW o, NEW b \in Bindings, Verify(o, b)
  PROVE  IInv'
  <1>0. DOMAIN Nothing = {}
    BY DEF Nothing
  <1>1. /\ pc' = "verifying" /\ study' \in Studies /\ env' = Lock /\ memo' = Nothing
        /\ dirty' = FALSE /\ steps' = Nothing /\ UNCHANGED <<stored, build>>
    BY DEF Verify, StartOf, Producers, IInv, TypeOK
  <1>2. TypeOK'
    <2>1. runs' \in 0 .. MaxRuns
      BY DEF Verify, IInv, TypeOK, StudyAssumption
    <2>2. DOMAIN steps' \subseteq Stages
      BY <1>0, <1>1
    <2>3. QED
      BY <2>1, <2>2, <1>1, Zenon DEF IInv, TypeOK, stored
  <1>3. RecordedIsStored' /\ LedgerHasItsPlan' /\ LedgersAreCoherent' /\ CacheIsHonest'
    BY <1>1, LedgersKept DEF stored
  <1>4. /\ MemoIsHonest' /\ StepsAreHonest' /\ StepsAreCached' /\ SealsInOrder'
        /\ MemoryIsStored'
    BY <1>0, <1>1 DEF MemoIsHonest, InRun, Honest, StepsAreHonest, StepsAreCached,
       SealsInOrder, MemoryIsStored
  <1>5. QED
    BY <1>2, <1>3, <1>4 DEF IInv

(* A command that ends leaves nothing in memory; the store may have got objects.  *)
LEMMA ExitIInv ==
  ASSUME StudyAssumption, IInv, Exit, UNCHANGED <<plans, ledgers, build, runs>>,
         objects \subseteq objects',
         \/ UNCHANGED <<memoFile, corrupt>>
         \/ memoFile' = Nothing /\ corrupt' = TRUE
  PROVE  IInv'
  <1>0. DOMAIN Nothing = {}
    BY DEF Nothing
  <1>1. /\ pc' = "idle" /\ memo' = Nothing /\ dirty' = FALSE /\ steps' = Nothing
    BY DEF Exit
  <1>2. TypeOK'
    <2>1. DOMAIN steps' \subseteq Stages
      BY <1>0, <1>1
    <2>2. corrupt' \in BOOLEAN /\ (corrupt' => memoFile' = Nothing)
      <3>1. CASE UNCHANGED <<memoFile, corrupt>>
        <4>1. memoFile' = memoFile /\ corrupt' = corrupt
          BY <3>1
        <4>2. QED
          BY <4>1, Zenon DEF IInv, TypeOK
      <3>2. CASE memoFile' = Nothing /\ corrupt' = TRUE
        BY <3>2, Zenon
      <3>3. QED
        BY <3>1, <3>2
    <2>3. QED
      BY <2>1, <2>2, <1>1, Zenon DEF IInv, TypeOK
  <1>3. LedgerHasItsPlan' /\ LedgersAreCoherent'
    BY DEF IInv, LedgerHasItsPlan, LedgersAreCoherent, IsCoherent
  <1>4. RecordedIsStored' /\ CacheIsHonest'
    BY <1>0 DEF IInv, RecordedIsStored, Outputs, CacheIsHonest, HonestByEnv, WorkOf
  <1>5. /\ MemoIsHonest' /\ StepsAreHonest' /\ StepsAreCached' /\ SealsInOrder'
        /\ MemoryIsStored'
    BY <1>0, <1>1 DEF MemoIsHonest, InRun, Honest, StepsAreHonest, StepsAreCached,
       SealsInOrder, MemoryIsStored
  <1>6. QED
    BY <1>2, <1>3, <1>4, <1>5 DEF IInv

(* One stage of the plan: answered by the cache, or executed.                  *)
LEMMA CacheHitIInv ==
  ASSUME StudyAssumption, IInv, NEW s \in Stages, CacheHit(s)
  PROVE  IInv'
  <1> DEFINE outputs == memo[CacheKey(s)]
  <1>0. /\ steps' = Step(s, "CacheHit", outputs) /\ CacheKey(s) \in DOMAIN memo
        /\ UNCHANGED <<objects, plans, ledgers, memoFile, corrupt, build, pc, study,
                       env, memo, dirty, runs>>
        /\ pc \in {"running", "verifying"} /\ Scheduled(s)
    BY DEF CacheHit, stored, Executing
  <1>1. /\ s \notin DOMAIN steps
        /\ DOMAIN steps' = DOMAIN steps \cup {s}
        /\ \A t \in DOMAIN steps : steps'[t] = steps[t]
        /\ steps'[s] = [key |-> CacheKey(s), outcome |-> "CacheHit", outputs |-> outputs]
        /\ \A t \in DOMAIN steps \cup {s} :
             /\ Consumes[t] \subseteq DOMAIN steps
             /\ Work(t)' = Work(t)
             /\ CacheKey(t)' = CacheKey(t)
    <2>1. TypeOK /\ StepsAreHonest /\ study' = study /\ env' = env
      BY <1>0 DEF IInv
    <2> HIDE DEF outputs
    <2>2. QED
      BY <1>0, <2>1, StepExtends
  <1>2. outputs = Produce(build, Work(s))
    <2>1. WorkOf(CacheKey(s)) = Work(s) /\ CacheKey(s).env = env
      BY KeyOfWork
    <2>2. CASE pc = "running"
      BY <1>0, <2>1, <2>2 DEF IInv, MemoIsHonest, InRun, HonestByEnv
    <2>3. CASE pc = "verifying"
      BY <1>0, <2>1, <2>3 DEF IInv, MemoIsHonest, Honest
    <2>4. QED
      BY <1>0, <2>2, <2>3
  <1>3. TypeOK'
    BY <1>0, <1>1 DEF IInv, TypeOK, LedgerSteps
  <1>4. RecordedIsStored' /\ LedgerHasItsPlan' /\ LedgersAreCoherent' /\ CacheIsHonest'
    BY <1>0, LedgersKept
  <1>5. MemoIsHonest'
    BY <1>0 DEF IInv, MemoIsHonest, InRun, HonestByEnv, Honest, WorkOf
  <1>6. StepsAreHonest'
    <2> HIDE DEF outputs
    <2>1. ASSUME NEW t \in DOMAIN steps'
          PROVE  /\ Consumes[t] \subseteq DOMAIN steps'
                 /\ steps'[t].key = CacheKey(t)'
                 /\ steps'[t].outcome \in {"CacheHit", "Ran"}
                 /\ steps'[t].outputs = Produce(build, Work(t)')
      BY <1>1, <1>2 DEF IInv, StepsAreHonest
    <2>2. QED
      BY <2>1, <1>0 DEF StepsAreHonest
  <1>7. MemoryIsStored'
    BY <1>0, <1>1 DEF IInv, MemoryIsStored
  <1>8. StepsAreCached' /\ SealsInOrder'
    BY <1>0, <1>1 DEF IInv, StepsAreCached, SealsInOrder
  <1>9. QED
    BY <1>3, <1>4, <1>5, <1>6, <1>7, <1>8 DEF IInv

LEMMA RunIInv ==
  ASSUME StudyAssumption, IInv, NEW s \in Stages, Run(s)
  PROVE  IInv'
  <1> DEFINE outputs == Produce(build, Work(s))
  <1>0. /\ steps' = Step(s, "Ran", outputs) /\ memo' = Remember(CacheKey(s), outputs)
        /\ CacheKey(s) \notin DOMAIN memo /\ dirty' = TRUE
        /\ objects' = objects \cup outputs
        /\ UNCHANGED <<plans, ledgers, memoFile, corrupt, build, pc, study, env, runs>>
        /\ pc \in {"running", "verifying"} /\ Scheduled(s)
    BY DEF Run, Executing, Put, Marked
  <1>1. /\ s \notin DOMAIN steps
        /\ DOMAIN steps' = DOMAIN steps \cup {s}
        /\ \A t \in DOMAIN steps : steps'[t] = steps[t]
        /\ steps'[s] = [key |-> CacheKey(s), outcome |-> "Ran", outputs |-> outputs]
        /\ \A t \in DOMAIN steps \cup {s} :
             /\ Consumes[t] \subseteq DOMAIN steps
             /\ Work(t)' = Work(t)
             /\ CacheKey(t)' = CacheKey(t)
    <2>1. TypeOK /\ StepsAreHonest /\ study' = study /\ env' = env
      BY <1>0 DEF IInv
    <2> HIDE DEF outputs
    <2>2. QED
      BY <1>0, <2>1, StepExtends
  <1>2. /\ DOMAIN memo' = DOMAIN memo \cup {CacheKey(s)}
        /\ \A k \in DOMAIN memo : memo'[k] = memo[k]
        /\ memo'[CacheKey(s)] = outputs
    <2> HIDE DEF outputs
    <2>1. QED
      BY <1>0, RememberHonest
  <1>3. TypeOK'
    BY <1>0, <1>1 DEF IInv, TypeOK, LedgerSteps
  <1>4. RecordedIsStored' /\ LedgerHasItsPlan' /\ LedgersAreCoherent' /\ CacheIsHonest'
    BY <1>0, LedgersKept
  <1>5. MemoIsHonest'
    <2>1. WorkOf(CacheKey(s)) = Work(s) /\ CacheKey(s).env = env
      BY KeyOfWork
    <2>2. CASE pc = "running"
      <3>1. env = build /\ ~corrupt /\ HonestByEnv(memo) /\ build \in Builds
        BY <2>2 DEF IInv, MemoIsHonest, InRun, TypeOK
      <3>2. HonestByEnv(memo')
        BY <3>1, <2>1, <1>2 DEF HonestByEnv
      <3>3. QED
        BY <3>1, <3>2, <2>2, <1>0 DEF MemoIsHonest, InRun, HonestByEnv, WorkOf
    <2>3. CASE pc = "verifying"
      <3>1. env = Lock /\ Honest(memo, build)
        BY <2>3 DEF IInv, MemoIsHonest
      <3>2. Honest(memo', build)
        BY <3>1, <2>1, <1>2 DEF Honest
      <3>3. QED
        BY <3>1, <3>2, <2>3, <1>0 DEF MemoIsHonest, InRun, Honest, WorkOf
    <2>4. QED
      BY <1>0, <2>2, <2>3
  <1>6. StepsAreHonest'
    <2>1. ASSUME NEW t \in DOMAIN steps'
          PROVE  /\ Consumes[t] \subseteq DOMAIN steps'
                 /\ steps'[t].key = CacheKey(t)'
                 /\ steps'[t].outcome \in {"CacheHit", "Ran"}
                 /\ steps'[t].outputs = Produce(build, Work(t)')
      BY <1>1 DEF IInv, StepsAreHonest
    <2>2. QED
      BY <2>1, <1>0 DEF StepsAreHonest
  <1>7. MemoryIsStored'
    <2> HIDE DEF outputs
    <2>1. QED
      BY <1>0, <1>1, <1>2 DEF IInv, MemoryIsStored
  <1>8. StepsAreCached' /\ SealsInOrder'
    <2> HIDE DEF outputs
    <2>1. QED
      BY <1>0, <1>1, <1>2 DEF IInv, StepsAreCached, SealsInOrder
  <1>9. QED
    BY <1>3, <1>4, <1>5, <1>6, <1>7, <1>8 DEF IInv

-----------------------------------------------------------------------------
(* The end of a run: the cache is written, the plan sealed, the ledger sealed.   *)
LEMMA FlushIInv ==
  ASSUME StudyAssumption, IInv, Flush
  PROVE  IInv'
  <1>0. /\ pc = "running" /\ pc' = "flushed" /\ Todo = {} /\ memoFile' = memo
        /\ dirty' = FALSE
        /\ UNCHANGED <<objects, plans, ledgers, corrupt, build, study, env, memo,
                       steps, runs>>
    BY DEF Flush, IInv, StepsAreCached
  <1>1. ~corrupt
    BY <1>0 DEF IInv, MemoIsHonest, InRun
  <1>2. DOMAIN steps = Stages
    BY <1>0 DEF Todo, IInv, TypeOK
  <1>3. env = build /\ HonestByEnv(memo)
    BY <1>0 DEF IInv, MemoIsHonest, InRun
  <1>4. TypeOK'
    BY <1>0, <1>1 DEF IInv, TypeOK, LedgerSteps
  <1>5. LedgerHasItsPlan' /\ LedgersAreCoherent'
    BY <1>0 DEF IInv, LedgerHasItsPlan, LedgersAreCoherent, IsCoherent
  <1>6. RecordedIsStored' /\ CacheIsHonest'
    BY <1>0, <1>3 DEF IInv, RecordedIsStored, Outputs, MemoryIsStored, CacheIsHonest,
       HonestByEnv, WorkOf
  <1>7. MemoIsHonest' /\ MemoryIsStored' /\ StepsAreCached' /\ SealsInOrder'
    BY <1>0, <1>2, <1>3 DEF IInv, MemoIsHonest, InRun, HonestByEnv, WorkOf,
       MemoryIsStored, StepsAreCached, SealsInOrder
  <1>8. StepsAreHonest'
    BY <1>0 DEF IInv, StepsAreHonest, Work, CacheKey, ResolvedInputs
  <1>9. QED
    BY <1>4, <1>5, <1>6, <1>7, <1>8 DEF IInv

LEMMA SealIInv ==
  ASSUME StudyAssumption, IInv, Seal
  PROVE  IInv'
  <1>0. /\ pc = "flushed" /\ pc' = "sealed" /\ plans' = plans \cup {study}
        /\ UNCHANGED <<objects, ledgers, memoFile, corrupt, build, study, env, memo,
                       dirty, steps, runs>>
    BY DEF Seal, PutRecord, SealOrder
  <1>1. study \in Studies
    BY <1>0 DEF IInv, TypeOK
  <1>2. TypeOK'
    BY <1>0, <1>1 DEF IInv, TypeOK, LedgerSteps
  <1>3. RecordedIsStored' /\ LedgerHasItsPlan' /\ LedgersAreCoherent' /\ CacheIsHonest'
    BY <1>0 DEF IInv, RecordedIsStored, Outputs, LedgerHasItsPlan, LedgersAreCoherent,
       IsCoherent, CacheIsHonest, HonestByEnv, WorkOf
  <1>4. MemoIsHonest' /\ MemoryIsStored' /\ StepsAreCached' /\ SealsInOrder'
    BY <1>0 DEF IInv, MemoIsHonest, InRun, HonestByEnv, WorkOf, MemoryIsStored,
       StepsAreCached, SealsInOrder
  <1>5. StepsAreHonest'
    BY <1>0 DEF IInv, StepsAreHonest, Work, CacheKey, ResolvedInputs
  <1>6. QED
    BY <1>2, <1>3, <1>4, <1>5 DEF IInv

(* The ledger of a run that reached its end.                                   *)
LEMMA SealedLedger ==
  ASSUME StudyAssumption, IInv, SealLast
  PROVE  /\ ledgers' = ledgers \cup {Ledger} /\ plans' = plans
         /\ Ledger.study = study /\ Ledger.env = build /\ Ledger.steps = steps
         /\ DOMAIN steps = Stages /\ study \in Studies /\ study \in plans
         /\ build \in Builds /\ memo = memoFile
         /\ IsCoherent(Ledger)
  <1>1. pc = "sealed" /\ ledgers' = ledgers \cup {Ledger} /\ plans' = plans
    BY DEF SealLast, PutRecord, SealOrder
  <1>2. /\ DOMAIN steps = Stages /\ study \in Studies /\ study \in plans
        /\ build \in Builds /\ memo = memoFile /\ env = build
    BY <1>1 DEF IInv, TypeOK, StepsAreCached, SealsInOrder, MemoIsHonest, InRun
  <1>3. Ledger.study = study /\ Ledger.env = build /\ Ledger.steps = steps
    BY <1>2 DEF Ledger
  <1>4. IsCoherent(Ledger)
    BY <1>2, <1>3 DEF IsCoherent, IInv, StepsAreHonest, Work
  <1>5. QED
    BY <1>1, <1>2, <1>3, <1>4

LEMMA SealLastIInv ==
  ASSUME StudyAssumption, IInv, SealLast
  PROVE  IInv'
  <1>0. DOMAIN Nothing = {}
    BY DEF Nothing
  <1>1. /\ pc' = "idle" /\ memo' = Nothing /\ dirty' = FALSE /\ steps' = Nothing
        /\ UNCHANGED <<objects, memoFile, corrupt, build, runs>>
    BY DEF SealLast, Exit
  <1>2. /\ ledgers' = ledgers \cup {Ledger} /\ plans' = plans
        /\ Ledger.study = study /\ Ledger.env = build /\ Ledger.steps = steps
        /\ DOMAIN steps = Stages /\ study \in Studies /\ study \in plans
        /\ build \in Builds /\ IsCoherent(Ledger)
    BY SealedLedger
  <1>3. Outputs(Ledger) \subseteq objects
    BY <1>2 DEF Outputs, IInv, MemoryIsStored
  <1> HIDE DEF Ledger
  <1>4. TypeOK'
    <2>1. \A l \in ledgers' :
            /\ l.study \in Studies /\ l.env \in Builds /\ DOMAIN l.steps = Stages
            /\ \A st \in LedgerSteps(l) : st.outcome \in {"CacheHit", "Ran"}
      BY <1>2 DEF LedgerSteps, IInv, TypeOK, StepsAreHonest
    <2>2. DOMAIN steps' \subseteq Stages
      BY <1>0, <1>1
    <2>3. corrupt' \in BOOLEAN /\ (corrupt' => memoFile' = Nothing)
      <3>1. corrupt' = corrupt /\ memoFile' = memoFile
        BY <1>1
      <3>2. QED
        BY <3>1, Zenon DEF IInv, TypeOK
    <2>4. runs' \in 0 .. MaxRuns /\ build' \in Builds /\ plans' \subseteq Studies
      BY <1>1, <1>2 DEF IInv, TypeOK
    <2>5. \A l \in ledgers' : \A st \in LedgerSteps(l)' : st.outcome \in {"CacheHit", "Ran"}
      BY <2>1 DEF LedgerSteps
    <2>6. QED
      BY <2>1, <2>2, <2>3, <2>4, <2>5, <1>1, Zenon DEF TypeOK, LedgerSteps
  <1>5. LedgerHasItsPlan' /\ LedgersAreCoherent'
    BY <1>2 DEF IInv, LedgerHasItsPlan, LedgersAreCoherent, IsCoherent
  <1>6. RecordedIsStored' /\ CacheIsHonest'
    BY <1>1, <1>2, <1>3 DEF IInv, RecordedIsStored, Outputs, CacheIsHonest, HonestByEnv,
       WorkOf
  <1>7. /\ MemoIsHonest' /\ StepsAreHonest' /\ StepsAreCached' /\ SealsInOrder'
        /\ MemoryIsStored'
    BY <1>0, <1>1 DEF MemoIsHonest, InRun, Honest, StepsAreHonest, StepsAreCached,
       SealsInOrder, MemoryIsStored
  <1>8. QED
    BY <1>4, <1>5, <1>6, <1>7 DEF IInv

-----------------------------------------------------------------------------
(* The commands that leave the store as it is, and the crashes.                 *)
LEMMA StutterIInv ==
  ASSUME StudyAssumption, IInv, UNCHANGED <<stored, build, process>>,
         runs' \in 0 .. MaxRuns
  PROVE  IInv'
  <1>1. UNCHANGED <<objects, plans, ledgers, memoFile, corrupt, build, pc, study, env,
                    memo, dirty, steps>>
    BY DEF stored, process
  <1>2. TypeOK'
    BY <1>1 DEF IInv, TypeOK, LedgerSteps
  <1>3. QED
    BY <1>1, <1>2 DEF IInv, CacheIsHonest, MemoIsHonest, InRun, HonestByEnv, Honest,
       WorkOf, StepsAreHonest, Work, CacheKey, ResolvedInputs, MemoryIsStored,
       StepsAreCached, SealsInOrder, RecordedIsStored, Outputs, LedgerHasItsPlan,
       LedgersAreCoherent, IsCoherent

LEMMA CrashIInv ==
  ASSUME StudyAssumption, IInv, Crash
  PROVE  IInv'
  <1>1. Exit /\ UNCHANGED <<plans, ledgers, build, runs>>
    BY DEF Crash
  <1>2. objects \subseteq objects'
    BY DEF Crash
  <1>3. \/ UNCHANGED <<memoFile, corrupt>>
        \/ memoFile' = Nothing /\ corrupt' = TRUE
    BY DEF Crash
  <1>4. QED
    BY <1>1, <1>2, <1>3, ExitIInv

(* Between two commands the binary, and a corrupt memo, may be replaced.         *)
LEMMA IdleIInv ==
  ASSUME StudyAssumption, IInv, Upgrade \/ DeleteMemo
  PROVE  IInv'
  <1>0. DOMAIN Nothing = {}
    BY DEF Nothing
  <1>1. /\ UNCHANGED <<objects, plans, ledgers, memoFile, pc, study, env, memo, dirty,
                       steps, runs>>
        /\ pc = "idle" /\ build' \in Builds
    BY DEF Upgrade, DeleteMemo, stored, process, IInv, TypeOK
  <1>2. corrupt' \in BOOLEAN /\ (corrupt' => memoFile' = Nothing)
    <2>1. CASE Upgrade
      <3>1. corrupt' = corrupt
        BY <2>1 DEF Upgrade, stored
      <3>2. QED
        BY <3>1, <1>1, Zenon DEF IInv, TypeOK
    <2>2. CASE DeleteMemo
      BY <2>2, Zenon DEF DeleteMemo
    <2>3. QED
      BY <2>1, <2>2
  <1>3. TypeOK'
    <2>1. \A l \in ledgers : LedgerSteps(l)' = LedgerSteps(l)
      BY DEF LedgerSteps
    <2>2. QED
      BY <2>1, <1>1, <1>2, Zenon DEF IInv, TypeOK
  <1>4. RecordedIsStored' /\ LedgerHasItsPlan' /\ LedgersAreCoherent' /\ CacheIsHonest'
    BY <1>1, LedgersKept
  <1>5. /\ MemoIsHonest' /\ StepsAreHonest' /\ StepsAreCached' /\ SealsInOrder'
        /\ MemoryIsStored'
    <2>1. steps' = Nothing /\ memo' = Nothing /\ pc' = "idle"
      BY <1>1 DEF IInv, TypeOK
    <2>2. QED
      BY <1>0, <2>1 DEF MemoIsHonest, InRun, Honest, StepsAreHonest, StepsAreCached,
         SealsInOrder, MemoryIsStored
  <1>6. QED
    BY <1>3, <1>4, <1>5 DEF IInv

LEMMA NextIInv == StudyAssumption /\ IInv /\ [Next]_vars => IInv'
  <1> SUFFICES ASSUME StudyAssumption, IInv, [Next]_vars PROVE IInv'
    OBVIOUS
  <1>0. runs \in 0 .. MaxRuns
    BY DEF IInv, TypeOK
  <1>1. ASSUME NEW p \in Studies, NEW b \in Bindings, SosRun(p, b) PROVE IInv'
    BY <1>1, SosRunIInv
  <1>2. ASSUME NEW s \in Stages, CacheHit(s) PROVE IInv'
    BY <1>2, CacheHitIInv
  <1>3. ASSUME NEW s \in Stages, Run(s) PROVE IInv'
    BY <1>3, RunIInv
  <1>4. ASSUME NEW s \in Stages, StageFails(s) PROVE IInv'
    BY <1>4, ExitIInv DEF StageFails, stored
  <1>5. CASE Flush
    BY <1>5, FlushIInv
  <1>6. CASE Seal
    BY <1>6, SealIInv
  <1>7. CASE SealLast
    BY <1>7, SealLastIInv
  <1>8. ASSUME NEW o \in objects, VerifyRefuses(o) PROVE IInv'
    <2>1. runs' \in 0 .. MaxRuns
      BY <1>0, <1>8 DEF VerifyRefuses, StudyAssumption
    <2>2. UNCHANGED <<stored, build, process>>
      BY <1>8 DEF VerifyRefuses
    <2>3. QED
      BY <2>1, <2>2, StutterIInv
  <1>9. ASSUME NEW o \in objects, NEW b \in Bindings, Verify(o, b) PROVE IInv'
    BY <1>9, VerifyIInv
  <1>10. CASE Judge
    BY <1>10, ExitIInv DEF Judge, stored
  <1>11. CASE Crash
    BY <1>11, CrashIInv
  <1>12. CASE Upgrade \/ DeleteMemo
    BY <1>12, IdleIInv
  <1>13. CASE UNCHANGED vars
    BY <1>0, <1>13, StutterIInv DEF vars
  <1>14. QED
    BY <1>1, <1>2, <1>3, <1>4, <1>5, <1>6, <1>7, <1>8, <1>9, <1>10, <1>11, <1>12,
       <1>13 DEF Next

(* The invariant holds in every state.                                         *)
THEOREM Invariance == Spec => []IInv
  <1>1. Init => IInv
    BY InitIInv, StudyAssumption
  <1>2. IInv /\ [Next]_vars => IInv'
    BY NextIInv, StudyAssumption
  <1>3. QED
    BY <1>1, <1>2, PTL DEF Spec

(* The records have their shape.                                              *)
THEOREM TypeCorrect == Spec => []TypeOK
  <1>1. IInv => TypeOK
    BY DEF IInv
  <1>2. QED
    BY <1>1, Invariance, PTL

(* Nothing recorded dangles, wherever a command was killed.                     *)
THEOREM RecordedStored == Spec => []RecordedIsStored
  <1>1. IInv => RecordedIsStored
    BY DEF IInv
  <1>2. QED
    BY <1>1, Invariance, PTL

(* Every ledger in the store can be executed again.                            *)
THEOREM LedgersHavePlans == Spec => []LedgerHasItsPlan
  <1>1. IInv => LedgerHasItsPlan
    BY DEF IInv
  <1>2. QED
    BY <1>1, Invariance, PTL

-----------------------------------------------------------------------------
(* Only the last step of a run adds a ledger.                                  *)
LEMMA OnlySealLastRecords ==
  ASSUME [Next]_vars
  PROVE  SealLast \/ ledgers' = ledgers
  <1>1. ASSUME NEW o, NEW b, Verify(o, b) PROVE ledgers' = ledgers
    BY <1>1 DEF Verify, stored
  <1>2. CASE Seal
    BY <1>2 DEF Seal, PutRecord, SealOrder
  <1>3. CASE UNCHANGED vars
    BY <1>3 DEF vars, stored
  <1>4. QED
    BY <1>1, <1>2, <1>3 DEF Next, SosRun, CacheHit, Run, StageFails, Flush,
       VerifyRefuses, Judge, Crash, Upgrade, DeleteMemo, stored

(* A recorded run is cached: running its study again executes nothing.          *)
THEOREM RecordedCached == Spec => RecordedIsCached
  <1> DEFINE Cached == \A l \in ledgers' \ ledgers :
                         \A s \in Stages : l.steps[s].key \in DOMAIN memoFile
  <1>1. IInv /\ [Next]_vars => [Cached]_vars
    <2> SUFFICES ASSUME IInv, [Next]_vars PROVE Cached
      OBVIOUS
    <2>1. CASE SealLast
      <3>1. /\ ledgers' = ledgers \cup {Ledger} /\ Ledger.steps = steps
            /\ DOMAIN steps = Stages /\ memo = memoFile
        BY <2>1, SealedLedger, StudyAssumption
      <3> HIDE DEF Ledger
      <3>2. QED
        BY <3>1 DEF IInv, StepsAreCached
    <2>2. QED
      BY <2>1, OnlySealLastRecords
  <1>2. QED
    BY <1>1, Invariance, PTL DEF Spec, RecordedIsCached

(* What is recorded is what execution from scratch gives: no stale or foreign     *)
(* cached result gets into a ledger.                                          *)
THEOREM RefinesPureStudy == Spec => ImplementsPureStudy
  <1>1. Init => Pure!Init
    BY DEF Init, Pure!Init, Reports
  <1>2. IInv /\ [Next]_vars => [Pure!Report]_Reports
    <2> SUFFICES ASSUME IInv, [Next]_vars PROVE [Pure!Report]_Reports
      OBVIOUS
    <2>1. CASE SealLast
      <3> DEFINE r == ReportOf(Ledger)
      <3>1. /\ ledgers' = ledgers \cup {Ledger}
            /\ DOMAIN Ledger.steps = Stages /\ IsCoherent(Ledger)
        BY <2>1, SealedLedger, StudyAssumption
      <3> HIDE DEF Ledger
      <3>2. Reports' = Reports \cup {r}
        BY <3>1 DEF Reports, ReportOf
      <3>3. Pure!Coherent(r)
        <4>1. DOMAIN r.outputs = Stages
          BY <3>1 DEF ReportOf
        <4>2. ASSUME NEW s \in Stages
              PROVE  r.outputs[s] = Produce(r.build, Pure!Work(r.study, r.outputs, s))
          <5>1. /\ r.outputs[s] = Ledger.steps[s].outputs
                /\ r.build = Ledger.env /\ r.study = Ledger.study
            BY <3>1 DEF ReportOf
          <5>2. \A t \in Consumes[s] : r.outputs[t] = Ledger.steps[t].outputs
            BY <3>1, StudyAssumption DEF ReportOf
          <5> HIDE DEF r
          <5>3. {r.outputs[t] : t \in Consumes[s]} = {Ledger.steps[t].outputs : t \in Consumes[s]}
            BY <5>2, Zenon
          <5>4. QED
            BY <5>1, <5>3, <3>1 DEF IsCoherent, Pure!Work
        <4>3. QED
          BY <4>1, <4>2 DEF Pure!Coherent
      <3> HIDE DEF r
      <3>4. QED
        BY <3>2, <3>3 DEF Pure!Report
    <2>2. CASE ledgers' = ledgers
      BY <2>2 DEF Reports
    <2>3. QED
      BY <2>1, <2>2, OnlySealLastRecords
  <1>3. QED
    BY <1>1, <1>2, Invariance, PTL DEF Spec, ImplementsPureStudy, Pure!Spec

-----------------------------------------------------------------------------
(* The verdict of a verification.  That two coherent lists of outputs are the    *)
(* same is an induction over the schedule; the re-run itself is that induction:  *)
(* if the build computes what the ledger lists, every step so far agrees.       *)
CoherentBy(l, b) ==
  \A s \in Stages :
    l.steps[s].outputs =
      Produce(b, [plugin |-> Plugin[s], config |-> l.study[s],
                  inputs |-> UNION {l.steps[t].outputs : t \in Consumes[s]}])

RerunAgrees ==
  pc = "verifying" =>
    /\ original \in ledgers /\ original.study = study
    /\ CoherentBy(original, build) =>
         \A s \in DOMAIN steps : steps[s].outputs = original.steps[s].outputs

VInv == RerunAgrees /\ VerdictIsTrue

(* The verdict is only changed by a verification that ends.                     *)
LEMMA OnlyVerifySays ==
  ASSUME [Next]_vars
  PROVE  Judge \/ (\E o : VerifyRefuses(o)) \/ verdict' = verdict
  <1>1. ASSUME NEW o, NEW b, Verify(o, b) PROVE verdict' = verdict
    BY <1>1 DEF Verify
  <1>2. CASE UNCHANGED vars
    BY <1>2 DEF vars
  <1>3. QED
    BY <1>1, <1>2 DEF Next, SosRun, CacheHit, Run, StageFails, Flush, Seal, SealLast,
       Crash, Upgrade, DeleteMemo

(* A step of the re-run: the stage was given what the ledger says it was given.   *)
LEMMA RerunStep ==
  ASSUME StudyAssumption, IInv, IInv', RerunAgrees, NEW s \in Stages, Scheduled(s),
         NEW outcome, NEW outputs, steps' = Step(s, outcome, outputs),
         outputs = Produce(build, Work(s)), pc = "verifying",
         UNCHANGED <<ledgers, build, pc, study, env, original>>
  PROVE  RerunAgrees'
  <1>1. /\ DOMAIN steps' = DOMAIN steps \cup {s}
        /\ \A t \in DOMAIN steps : steps'[t] = steps[t]
        /\ steps'[s] = [key |-> CacheKey(s), outcome |-> outcome, outputs |-> outputs]
        /\ Consumes[s] \subseteq DOMAIN steps
    BY StepExtends DEF IInv
  <1>2. original \in ledgers /\ original.study = study
    BY DEF RerunAgrees
  <1>3. ASSUME CoherentBy(original, build)
        PROVE  \A t \in DOMAIN steps' : steps'[t].outputs = original.steps[t].outputs
    <2>1. \A t \in DOMAIN steps : steps[t].outputs = original.steps[t].outputs
      BY <1>3 DEF RerunAgrees
    <2>2. \A t \in Consumes[s] : steps[t].outputs = original.steps[t].outputs
      BY <2>1, <1>1
    <2>3. {steps[t].outputs : t \in Consumes[s]} = {original.steps[t].outputs : t \in Consumes[s]}
      BY <2>2, Zenon
    <2>4. outputs = original.steps[s].outputs
      BY <2>3, <1>2, <1>3 DEF CoherentBy, Work
    <2>5. QED
      BY <2>1, <2>4, <1>1
  <1>4. QED
    BY <1>2, <1>3 DEF RerunAgrees, CoherentBy

LEMMA NextRerunAgrees == 
  ASSUME StudyAssumption, IInv, IInv', RerunAgrees, [Next]_vars
  PROVE  RerunAgrees'
  <1>1. ASSUME NEW o \in objects, NEW b \in Bindings, Verify(o, b) PROVE RerunAgrees'
    <2>1. /\ original' \in ledgers /\ original'.study = study' /\ ledgers' = ledgers
          /\ steps' = Nothing
      BY <1>1 DEF Verify, Producers, stored
    <2>2. DOMAIN steps' = {}
      BY <2>1 DEF Nothing
    <2>3. QED
      BY <2>1, <2>2 DEF RerunAgrees
  <1>2. ASSUME NEW s \in Stages, CacheHit(s), pc = "verifying" PROVE RerunAgrees'
    <2>1. WorkOf(CacheKey(s)) = Work(s)
      BY KeyOfWork
    <2>2. memo[CacheKey(s)] = Produce(build, Work(s))
      BY <1>2, <2>1 DEF CacheHit, IInv, MemoIsHonest, Honest
    <2>3. QED
      BY <1>2, <2>2, RerunStep DEF CacheHit, stored
  <1>3. ASSUME NEW s \in Stages, Run(s), pc = "verifying" PROVE RerunAgrees'
    BY <1>3, RerunStep DEF Run
  <1>4. CASE UNCHANGED vars
    BY <1>4 DEF vars, stored, process, RerunAgrees, CoherentBy
  <1>5. ASSUME NEW o, VerifyRefuses(o) PROVE RerunAgrees'
    BY <1>5 DEF VerifyRefuses, stored, process, RerunAgrees, CoherentBy
  <1>6. ASSUME Exit PROVE RerunAgrees'
    BY <1>6 DEF Exit, RerunAgrees
  <1>7. CASE pc' # "verifying"
    BY <1>7 DEF RerunAgrees
  <1>8. CASE Upgrade \/ DeleteMemo
    BY <1>8 DEF Upgrade, DeleteMemo, process, RerunAgrees
  <1>9. ASSUME NEW s \in Stages, CacheHit(s) \/ Run(s), pc # "verifying"
        PROVE  RerunAgrees'
    BY <1>9 DEF CacheHit, Run, RerunAgrees
  <1>10. ASSUME NEW s \in Stages, StageFails(s) PROVE RerunAgrees'
    BY <1>10, <1>6 DEF StageFails
  <1>11. CASE SealLast \/ Judge \/ Crash
    BY <1>11, <1>6 DEF SealLast, Judge, Crash
  <1>12. CASE Flush \/ Seal
    BY <1>12 DEF Flush, Seal, RerunAgrees
  <1>13. ASSUME NEW p, NEW b, SosRun(p, b) PROVE RerunAgrees'
    BY <1>13 DEF SosRun, RerunAgrees
  <1>14. QED
    BY <1>1, <1>2, <1>3, <1>4, <1>5, <1>8, <1>9, <1>10, <1>11, <1>12, <1>13 DEF Next

LEMMA NextVerdict ==
  ASSUME StudyAssumption, IInv, VInv, [Next]_vars
  PROVE  VerdictIsTrue'
  <1>1. CASE verdict' = verdict
    BY <1>1 DEF VInv, VerdictIsTrue
  <1>2. ASSUME NEW o, VerifyRefuses(o) PROVE VerdictIsTrue'
    BY <1>2 DEF VerifyRefuses, Says, VerdictIsTrue
  <1>3. CASE Judge
    <2>1. /\ pc = "verifying" /\ Todo = {}
          /\ verdict' = [said |-> IF SameOutputs THEN "Reproduced" ELSE "Diverged",
                         of |-> original, by |-> build]
      BY <1>3 DEF Judge, Says
    <2>2. DOMAIN steps = Stages
      BY <2>1 DEF Todo, IInv, TypeOK
    <2>3. original.study = study
      BY <2>1 DEF VInv, RerunAgrees
    <2>4. CoherentBy(original, build) => SameOutputs
      BY <2>1, <2>2 DEF VInv, RerunAgrees, SameOutputs
    <2>5. ASSUME SameOutputs PROVE CoherentBy(original, build)
      <3>1. ASSUME NEW s \in Stages
            PROVE  original.steps[s].outputs =
                     Produce(build,
                       [plugin |-> Plugin[s], config |-> original.study[s],
                        inputs |-> UNION {original.steps[t].outputs : t \in Consumes[s]}])
        <4>1. \A t \in Consumes[s] : steps[t].outputs = original.steps[t].outputs
          BY <2>5, StudyAssumption DEF SameOutputs
        <4>2. {steps[t].outputs : t \in Consumes[s]} = {original.steps[t].outputs : t \in Consumes[s]}
          BY <4>1, Zenon
        <4>3. steps[s].outputs = Produce(build, Work(s))
          BY <2>2 DEF IInv, StepsAreHonest
        <4>4. QED
          BY <4>2, <4>3, <2>3, <2>5 DEF Work, SameOutputs
      <3>2. QED
        BY <3>1 DEF CoherentBy
    <2>6. /\ verdict'.of = original /\ verdict'.by = build
          /\ verdict'.said = "Reproduced" <=> SameOutputs
      BY <2>1
    <2>7. verdict'.said = "Reproduced" <=> CoherentBy(verdict'.of, verdict'.by)
      BY <2>4, <2>5, <2>6
    <2>8. QED
      BY <2>7 DEF VerdictIsTrue, CoherentBy
  <1>4. QED
    BY <1>1, <1>2, <1>3, OnlyVerifySays

(* A verification tells the truth about the build that verified.               *)
THEOREM VerdictsAreTrue == Spec => []VerdictIsTrue
  <1>1. Init => VInv
    BY DEF Init, VInv, RerunAgrees, VerdictIsTrue, NoVerdict
  <1>2. IInv /\ IInv' /\ VInv /\ [Next]_vars => VInv'
    BY NextRerunAgrees, NextVerdict, StudyAssumption DEF VInv
  <1>3. VInv => VerdictIsTrue
    BY DEF VInv
  <1>4. QED
    BY <1>1, <1>2, <1>3, Invariance, PTL DEF Spec
=============================================================================
