------------------------- MODULE DeepSeekBridgeProofs -------------------------
(***************************************************************************)
(* What the bridge guarantees for any number of calls, tools and upsets.      *)
(*   ControlOK    where a call may be, given what was answered, cancelled,      *)
(*                asked and run;                                             *)
(*   LogsOK       what a call has read, and what it writes, are entries of its  *)
(*                file;                                                      *)
(*   TrailOK      whoever is in the trail's transaction has read all of it;      *)
(*   TypesOK      the other variables;                                        *)
(*   GrantsOK     what a call has in the audit when it has come that far;        *)
(*   OutputsOK    what a call has in the trail when it is over: needs            *)
(*                NoSilentCut, that no crash leaves a line that lacks only its   *)
(*                newline;                                                   *)
(*   ForbiddenOK  what a call begun under a firm Never can still do: needs       *)
(*                OneSetter.                                                 *)
(***************************************************************************)
EXTENDS DeepSeekBridge, ApprovalPolicyProofs

Resolutions == {"Allowed", "Rejected", "Cancelled", "Unavailable"}
Asking      == {"requesting", "requested", "waiting", "receiving", "received"}
Authorized  == {"authorizing", "gateAsking", "permitted", "escalating", "running"}
Finishing   == {"auditing", "failed", "commit", "failedCommit", "done", "lost"}
Places      == {"new", "resolving", "recording"} \cup Asking \cup Authorized \cup Finishing
Outcomes    == {"output", "rejected", "error", "cancelled", "unavailable"}

Shape ==
  /\ pc \in [Calls -> Places]
  /\ worker \in [Calls -> Answers \cup {"none", "busy"}]
  /\ resolution \in [Calls -> Resolutions \cup {"none"}]
  /\ outcome \in [Calls -> Outcomes \cup {"none"}]
  /\ early \subseteq Calls /\ ran \subseteq Calls

(* What the channel and the resolution say at each place.                      *)
AnswersAgree(d) ==
  /\ pc[d] \in {"waiting", "receiving"} => worker[d] # "none"
  /\ pc[d] = "received" => worker[d] \in Answers
  /\ pc[d] \in {"resolving", "recording"} => resolution[d] \in Resolutions
  /\ pc[d] \in Authorized => resolution[d] = "Allowed"

RanIsFinishing(d) == d \in ran => pc[d] \in Finishing

(* A call cancelled in time never gets to be authorized.                       *)
EarlyIsHeld(d) ==
  d \in early =>
    /\ d \notin ran
    /\ \/ pc[d] \in Asking /\ d \in cancelled
       \/ pc[d] \in {"resolving", "recording"} /\ resolution[d] # "Allowed"
       \/ pc[d] \in {"auditing", "commit", "done", "lost"}

(* What an operator must have said of a call that has come that far.              *)
AskedSoFar(d) ==
  /\ Rule[d] = "ExplicitAsk" /\ (d \in ran \/ pc[d] \in {"permitted", "escalating", "running"})
       => <<d, "tool">> \in asked
  /\ d \in Escalating /\ (d \in ran \/ pc[d] = "running") => <<d, "sandbox">> \in asked

ControlOK ==
  /\ Shape
  /\ \A d \in Calls : AnswersAgree(d) /\ RanIsFinishing(d) /\ EarlyIsHeld(d)
  /\ \A d \in Calls : AskedSoFar(d)

LEMMA ControlInit == Init => ControlOK
BY DEF Init, ControlOK, Shape, Places, AnswersAgree, RanIsFinishing, EarlyIsHeld,
       AskedSoFar, Asking, Authorized, Finishing

LEMMA ShapeStep ==
  ASSUME Shape, \A d \in Calls : AnswersAgree(d), [Next]_vars
  PROVE  Shape'
<1> USE DEF Shape, Places, Asking, Authorized, Finishing, Answers, Resolutions, Outcomes
<1>1. CASE UNCHANGED vars
  BY <1>1 DEF vars, callVars
<1>2. ASSUME NEW c \in Calls, Supervise(c) PROVE Shape'
  <2>1. CASE Begin(c) \/ RecordRequested(c) \/ Poll(c) \/ Receive(c)
    BY <2>1 DEF Begin, RecordRequested, Poll, Receive, Resolve, Goto, Return, At
  <2>2. CASE Dispatch(c)
    BY <2>2 DEF Dispatch, Resolve, Goto, At
  <2>3. CASE Judge(c)
    BY <2>3 DEF Judge, Resolve, Goto, At, AnswersAgree
  <2>4. CASE LoadAudit(c) \/ RecordResolved(c)
    BY <2>4 DEF LoadAudit, RecordResolved, Goto, Return, At
  <2> QED BY <1>2, <2>1, <2>2, <2>3, <2>4 DEF Supervise
<1>3. ASSUME NEW c \in Calls, Runtime(c) PROVE Shape'
  <2>1. CASE Authorize(c) \/ GateAnswers(c) \/ Escalation(c) \/ EscalationAnswers(c) \/ Execute(c)
    BY <2>1 DEF Authorize, GateAnswers, Escalation, EscalationAnswers, Execute, Goto, At
  <2>2. CASE LoadTrail(c) \/ Commit(c)
    BY <2>2 DEF LoadTrail, Commit, Goto, Return, Audited, Unaudited, Decision
  <2> QED BY <1>3, <2>1, <2>2 DEF Runtime
<1>4. ASSUME NEW c \in Calls, NEW a \in Answers, Answer(c, a) PROVE Shape'
  BY <1>4 DEF Answer
<1>5. CASE Crash
  BY <1>5 DEF Crash
<1>6. ASSUME NEW c \in Calls, Cancel(c) PROVE Shape'
  BY <1>6 DEF Cancel
<1>7. ASSUME NEW t \in Tools, Revoke(t) PROVE Shape'
  BY <1>7 DEF Revoke
<1>8. CASE PolicyStep \/ Restart
  BY <1>8 DEF PolicyStep, Restart, callVars
<1> QED BY <1>1, <1>2, <1>3, <1>4, <1>5, <1>6, <1>7, <1>8 DEF Next

LEMMA AnswersStep ==
  ASSUME Shape, NEW d \in Calls, AnswersAgree(d), [Next]_vars
  PROVE  AnswersAgree(d)'
<1> USE DEF Shape, AnswersAgree, Authorized, Answers, Resolutions
<1>1. CASE UNCHANGED vars
  BY <1>1 DEF vars, callVars
<1>2. ASSUME NEW c \in Calls, Supervise(c) PROVE AnswersAgree(d)'
  <2>1. CASE Begin(c) \/ RecordRequested(c) \/ Poll(c) \/ Receive(c)
    BY <2>1 DEF Begin, RecordRequested, Poll, Receive, Resolve, Goto, Return, At
  <2>2. CASE Dispatch(c)
    BY <2>2 DEF Dispatch, Resolve, Goto, At
  <2>3. CASE Judge(c)
    BY <2>3 DEF Judge, Resolve, Goto, At
  <2>4. CASE LoadAudit(c) \/ RecordResolved(c)
    BY <2>4 DEF LoadAudit, RecordResolved, Goto, Return, At
  <2> QED BY <1>2, <2>1, <2>2, <2>3, <2>4 DEF Supervise
<1>3. ASSUME NEW c \in Calls, Runtime(c) PROVE AnswersAgree(d)'
  <2>1. CASE Authorize(c) \/ GateAnswers(c) \/ Escalation(c) \/ EscalationAnswers(c) \/ Execute(c)
    BY <2>1 DEF Authorize, GateAnswers, Escalation, EscalationAnswers, Execute, Goto, At
  <2>2. CASE LoadTrail(c) \/ Commit(c)
    BY <2>2 DEF LoadTrail, Commit, Goto, Return
  <2> QED BY <1>3, <2>1, <2>2 DEF Runtime
<1>4. ASSUME NEW c \in Calls, NEW a \in Answers, Answer(c, a) PROVE AnswersAgree(d)'
  BY <1>4 DEF Answer
<1>5. CASE Crash
  BY <1>5 DEF Crash
<1>6. ASSUME NEW c \in Calls, Cancel(c) PROVE AnswersAgree(d)'
  BY <1>6 DEF Cancel
<1>7. ASSUME NEW t \in Tools, Revoke(t) PROVE AnswersAgree(d)'
  BY <1>7 DEF Revoke
<1>8. CASE PolicyStep \/ Restart
  BY <1>8 DEF PolicyStep, Restart, callVars
<1> QED BY <1>1, <1>2, <1>3, <1>4, <1>5, <1>6, <1>7, <1>8 DEF Next

LEMMA RanStep ==
  ASSUME Shape, NEW d \in Calls, RanIsFinishing(d), [Next]_vars
  PROVE  RanIsFinishing(d)'
<1> USE DEF Shape, RanIsFinishing, Finishing
<1>1. CASE UNCHANGED vars
  BY <1>1 DEF vars, callVars
<1>2. ASSUME NEW c \in Calls, Supervise(c) PROVE RanIsFinishing(d)'
  <2>1. CASE Begin(c) \/ RecordRequested(c) \/ Poll(c) \/ Receive(c)
    BY <2>1 DEF Begin, RecordRequested, Poll, Receive, Resolve, Goto, Return, At
  <2>2. CASE Dispatch(c)
    BY <2>2 DEF Dispatch, Resolve, Goto, At
  <2>3. CASE Judge(c)
    BY <2>3 DEF Judge, LateCancel, Resolve, Goto, At
  <2>4. CASE LoadAudit(c) \/ RecordResolved(c)
    BY <2>4 DEF LoadAudit, RecordResolved, Goto, Return, At
  <2> QED BY <1>2, <2>1, <2>2, <2>3, <2>4 DEF Supervise
<1>3. ASSUME NEW c \in Calls, Runtime(c) PROVE RanIsFinishing(d)'
  <2>1. CASE Authorize(c)
    BY <2>1, BridgeAssumption DEF Authorize, Remembered, Goto, At
  <2>2. CASE GateAnswers(c) \/ EscalationAnswers(c) \/ Execute(c)
    BY <2>2 DEF GateAnswers, EscalationAnswers, Execute, Goto, At
  <2>3. CASE Escalation(c)
    BY <2>3 DEF Escalation, Escalates, Goto, At
  <2>4. CASE LoadTrail(c) \/ Commit(c)
    BY <2>4 DEF LoadTrail, Commit, Auditing, Goto, Return
  <2> QED BY <1>3, <2>1, <2>2, <2>3, <2>4 DEF Runtime
<1>4. ASSUME NEW c \in Calls, NEW a \in Answers, Answer(c, a) PROVE RanIsFinishing(d)'
  BY <1>4 DEF Answer
<1>5. CASE Crash
  BY <1>5 DEF Crash
<1>6. ASSUME NEW c \in Calls, Cancel(c) PROVE RanIsFinishing(d)'
  BY <1>6 DEF Cancel, Unanswered
<1>7. ASSUME NEW t \in Tools, Revoke(t) PROVE RanIsFinishing(d)'
  BY <1>7 DEF Revoke
<1>8. CASE PolicyStep \/ Restart
  BY <1>8 DEF PolicyStep, Restart, callVars
<1> QED BY <1>1, <1>2, <1>3, <1>4, <1>5, <1>6, <1>7, <1>8 DEF Next

LEMMA EarlyStep ==
  ASSUME Shape, NEW d \in Calls, AnswersAgree(d), RanIsFinishing(d), EarlyIsHeld(d), [Next]_vars
  PROVE  EarlyIsHeld(d)'
<1> USE DEF Shape, EarlyIsHeld, AnswersAgree, RanIsFinishing, Asking, Authorized, Finishing, Answers
<1>1. CASE UNCHANGED vars
  BY <1>1 DEF vars, callVars
<1>2. ASSUME NEW c \in Calls, Supervise(c) PROVE EarlyIsHeld(d)'
  <2>1. CASE Begin(c) \/ RecordRequested(c) \/ Poll(c) \/ Receive(c)
    BY <2>1 DEF Begin, RecordRequested, Poll, Receive, Resolve, Goto, Return, At
  <2>2. CASE Dispatch(c)
    BY <2>2 DEF Dispatch, Resolve, Goto, At
  <2>3. CASE Judge(c)
    BY <2>3 DEF Judge, LateCancel, Resolve, Goto, At
  <2>4. CASE LoadAudit(c)
    BY <2>4 DEF LoadAudit, Goto, Return, At
  <2>5. CASE RecordResolved(c)
    <3>1. CASE c = d /\ d \in early
      <4>0. pc[d] = "recording"
        BY <2>5, <3>1 DEF RecordResolved, At
      <4>1. resolution[c] \in {"Cancelled", "Unavailable", "Rejected"}
        BY <4>0, <3>1 DEF Resolutions
      <4>2. pc'[c] \in {"done", "auditing"}
        BY <2>5, <4>1 DEF RecordResolved, Return, Goto
      <4> QED BY <2>5, <3>1, <4>2 DEF RecordResolved
    <3>2. CASE c # d \/ d \notin early
      BY <2>5, <3>2 DEF RecordResolved, Goto, Return
    <3> QED BY <3>1, <3>2
  <2> QED BY <1>2, <2>1, <2>2, <2>3, <2>4, <2>5 DEF Supervise
<1>3. ASSUME NEW c \in Calls, Runtime(c) PROVE EarlyIsHeld(d)'
  <2>1. CASE Authorize(c)
    BY <2>1, BridgeAssumption DEF Authorize, Remembered, Goto, At
  <2>2. CASE GateAnswers(c) \/ EscalationAnswers(c) \/ Execute(c)
    BY <2>2 DEF GateAnswers, EscalationAnswers, Execute, Goto, At
  <2>3. CASE Escalation(c)
    BY <2>3 DEF Escalation, Escalates, Goto, At
  <2>4. CASE LoadTrail(c) \/ Commit(c)
    BY <2>4 DEF LoadTrail, Commit, Auditing, Goto, Return
  <2> QED BY <1>3, <2>1, <2>2, <2>3, <2>4 DEF Runtime
<1>4. ASSUME NEW c \in Calls, NEW a \in Answers, Answer(c, a) PROVE EarlyIsHeld(d)'
  BY <1>4 DEF Answer
<1>5. CASE Crash
  BY <1>5 DEF Crash
<1>6. ASSUME NEW c \in Calls, Cancel(c) PROVE EarlyIsHeld(d)'
  BY <1>6 DEF Cancel, Unanswered
<1>7. ASSUME NEW t \in Tools, Revoke(t) PROVE EarlyIsHeld(d)'
  BY <1>7 DEF Revoke
<1>8. CASE PolicyStep \/ Restart
  BY <1>8 DEF PolicyStep, Restart, callVars
<1> QED BY <1>1, <1>2, <1>3, <1>4, <1>5, <1>6, <1>7, <1>8 DEF Next

LEMMA AskedStep ==
  ASSUME Shape, NEW d \in Calls, RanIsFinishing(d), AskedSoFar(d), [Next]_vars
  PROVE  AskedSoFar(d)'
<1> USE DEF Shape, AskedSoFar, RanIsFinishing, Finishing
<1>1. CASE UNCHANGED vars
  BY <1>1 DEF vars, callVars
<1>2. ASSUME NEW c \in Calls, Supervise(c) PROVE AskedSoFar(d)'
  <2>1. CASE Begin(c) \/ RecordRequested(c) \/ Poll(c) \/ Receive(c)
    BY <2>1 DEF Begin, RecordRequested, Poll, Receive, Resolve, Goto, Return, At
  <2>2. CASE Dispatch(c)
    BY <2>2 DEF Dispatch, Resolve, Goto, At
  <2>3. CASE Judge(c)
    BY <2>3 DEF Judge, LateCancel, Resolve, Goto, At
  <2>4. CASE LoadAudit(c) \/ RecordResolved(c)
    BY <2>4 DEF LoadAudit, RecordResolved, Goto, Return, At
  <2> QED BY <1>2, <2>1, <2>2, <2>3, <2>4 DEF Supervise
<1>3. ASSUME NEW c \in Calls, Runtime(c) PROVE AskedSoFar(d)'
  <2>1. CASE Authorize(c)
    BY <2>1, BridgeAssumption DEF Authorize, Remembered, Goto, At
  <2>2. CASE GateAnswers(c) \/ EscalationAnswers(c) \/ Execute(c)
    BY <2>2 DEF GateAnswers, EscalationAnswers, Execute, Goto, At
  <2>3. CASE Escalation(c)
    BY <2>3 DEF Escalation, Escalates, Goto, At
  <2>4. CASE LoadTrail(c) \/ Commit(c)
    BY <2>4 DEF LoadTrail, Commit, Auditing, Goto, Return
  <2> QED BY <1>3, <2>1, <2>2, <2>3, <2>4 DEF Runtime
<1>4. ASSUME NEW c \in Calls, NEW a \in Answers, Answer(c, a) PROVE AskedSoFar(d)'
  BY <1>4 DEF Answer
<1>5. CASE Crash
  BY <1>5 DEF Crash
<1>6. ASSUME NEW c \in Calls, Cancel(c) PROVE AskedSoFar(d)'
  BY <1>6 DEF Cancel, Unanswered
<1>7. ASSUME NEW t \in Tools, Revoke(t) PROVE AskedSoFar(d)'
  BY <1>7 DEF Revoke
<1>8. CASE PolicyStep \/ Restart
  BY <1>8 DEF PolicyStep, Restart, callVars
<1> QED BY <1>1, <1>2, <1>3, <1>4, <1>5, <1>6, <1>7, <1>8 DEF Next

LEMMA ControlStep == ControlOK /\ [Next]_vars => ControlOK'
BY ShapeStep, AnswersStep, RanStep, EarlyStep, AskedStep DEF ControlOK

LEMMA Control == Spec => []ControlOK
BY ControlInit, ControlStep, PTL DEF Spec

(* A cancellation before the answer wins, whatever the answerer says later        *)
(* (request_resolved): for any number of calls.                                  *)
THEOREM CancelledHeld == Spec => []CancelledNeverRuns
<1>1. ControlOK => CancelledNeverRuns
  <2> SUFFICES ASSUME ControlOK, NEW d \in early \cap ran PROVE FALSE
    BY DEF CancelledNeverRuns
  <2> QED BY DEF ControlOK, Shape, EarlyIsHeld
<1> QED BY <1>1, Control, PTL

(* Explicit ask rules and wider sandboxes are answered in person, whatever is      *)
(* remembered (before_execute, approve_sandbox_escalation).                       *)
THEOREM ChannelsAsked == Spec => []EachChannelIsAsked
<1>1. ControlOK => EachChannelIsAsked
  BY DEF ControlOK, Shape, AskedSoFar, EachChannelIsAsked
<1> QED BY <1>1, Control, PTL

-----------------------------------------------------------------------------
(* The files.                                                                *)

AuditEntries == Calls \X ({"Requested"} \cup Resolutions)
TrailEntries == Calls \X {"executed", "rejected", "failed"}

SeenIsRead(d) ==
  /\ pc[d] \in {"requesting", "recording"} => seen[d] \in Seq(AuditEntries)
  /\ pc[d] \in {"commit", "failedCommit"} => seen[d] \in Seq(TrailEntries)

LogsOK ==
  /\ audit \in LogOf(AuditEntries) /\ trail \in LogOf(TrailEntries)
  /\ seen \in [Calls -> Seq(AuditEntries) \cup Seq(TrailEntries)]
  /\ \A d \in Calls : SeenIsRead(d)

(* The lines the calls write.                                                 *)
LEMMA AuditLines ==
  ASSUME ControlOK, LogsOK, NEW c \in Calls, NEW how \in Endings
  PROVE  /\ pc[c] = "requesting" =>
              Line(seen[c], <<c, "Requested">>, how) \in LineOf(AuditEntries)
         /\ pc[c] = "recording" =>
              Line(seen[c], <<c, resolution[c]>>, how) \in LineOf(AuditEntries)
<1>1. pc[c] = "recording" => resolution[c] \in Resolutions
  BY DEF ControlOK, AnswersAgree
<1> QED BY <1>1 DEF LogsOK, SeenIsRead, AuditEntries, Line, LineOf

LEMMA TrailLines ==
  ASSUME ControlOK, LogsOK, NEW c \in Calls, pc[c] \in {"commit", "failedCommit"},
         NEW how \in Endings
  PROVE  Line(seen[c], <<c, Decision(c)>>, how) \in LineOf(TrailEntries)
<1>1. Decision(c) \in {"executed", "rejected", "failed"}
  BY DEF Decision
<1> QED BY <1>1 DEF LogsOK, SeenIsRead, TrailEntries, Line, LineOf

(* Each step leaves a file alone or adds one line to it.                         *)
AuditStep ==
  \/ audit' = audit
  \/ \E c \in Calls, how \in {"whole"} \cup Cuts :
       /\ how # "whole" => crashed'
       /\ \/ /\ pc[c] = "requesting"
             /\ audit' = Appended(audit, Line(seen[c], <<c, "Requested">>, how))
          \/ /\ pc[c] = "recording"
             /\ audit' = Appended(audit, Line(seen[c], <<c, resolution[c]>>, how))

TrailStep ==
  \/ trail' = trail
  \/ \E c \in Calls, how \in {"whole"} \cup Cuts :
       /\ pc[c] \in {"commit", "failedCommit"} /\ (how # "whole" => crashed')
       /\ trail' = Appended(trail, Line(seen[c], <<c, Decision(c)>>, how))

LEMMA FilesStep == ASSUME [Next]_vars PROVE AuditStep /\ TrailStep
<1>1. CASE UNCHANGED vars
  BY <1>1 DEF vars, callVars, AuditStep, TrailStep
<1>2. ASSUME NEW c \in Calls, Supervise(c) PROVE AuditStep /\ TrailStep
  <2>1. CASE RecordRequested(c)
    BY <2>1 DEF RecordRequested, At, Written, AuditStep, TrailStep
  <2>2. CASE RecordResolved(c)
    BY <2>2 DEF RecordResolved, ResolvedLine, At, Written, AuditStep, TrailStep
  <2>3. CASE Begin(c) \/ Dispatch(c) \/ Poll(c) \/ Receive(c) \/ Judge(c) \/ LoadAudit(c)
    BY <2>3 DEF Begin, Dispatch, Poll, Receive, Judge, LoadAudit, AuditStep, TrailStep
  <2> QED BY <1>2, <2>1, <2>2, <2>3 DEF Supervise
<1>3. ASSUME NEW c \in Calls, Runtime(c) PROVE AuditStep /\ TrailStep
  <2>1. CASE Commit(c)
    BY <2>1 DEF Commit, Written, AuditStep, TrailStep
  <2>2. CASE \/ Authorize(c) \/ GateAnswers(c) \/ Escalation(c) \/ EscalationAnswers(c)
             \/ Execute(c) \/ LoadTrail(c)
    BY <2>2 DEF Authorize, GateAnswers, Escalation, EscalationAnswers, Execute, LoadTrail,
                AuditStep, TrailStep
  <2> QED BY <1>3, <2>1, <2>2 DEF Runtime
<1>4. CASE Crash
  <2>1. CASE CutAudit /\ trail' = trail
    <3>1. crashed'
      BY <1>4 DEF Crash, Dies
    <3>2. PICK c \in Calls :
            \/ /\ pc[c] = "requesting"
               /\ audit' \in CutShort(audit, seen[c], <<c, "Requested">>, Cuts)
            \/ /\ pc[c] = "recording"
               /\ audit' \in CutShort(audit, seen[c], <<c, resolution[c]>>, Cuts)
      BY <2>1 DEF CutAudit
    <3> QED BY <2>1, <3>1, <3>2 DEF CutShort, AuditStep, TrailStep
  <2>2. CASE CutTrail /\ audit' = audit
    <3>1. crashed'
      BY <1>4 DEF Crash, Dies
    <3> QED BY <2>2, <3>1 DEF CutTrail, CutShort, AuditStep, TrailStep
  <2>3. CASE UNCHANGED <<audit, trail>>
    BY <2>3 DEF AuditStep, TrailStep
  <2> QED BY <1>4, <2>1, <2>2, <2>3 DEF Crash
<1>5. CASE \/ \E c \in Calls : Cancel(c) \/ \E a \in Answers : Answer(c, a)
           \/ \E t \in Tools : Revoke(t)
           \/ PolicyStep \/ Restart
  BY <1>5 DEF Cancel, Answer, Revoke, PolicyStep, Restart, callVars, AuditStep, TrailStep
<1> QED BY <1>1, <1>2, <1>3, <1>4, <1>5 DEF Next

LEMMA FilesKeep ==
  ASSUME ControlOK, LogsOK, [Next]_vars
  PROVE  /\ audit' \in LogOf(AuditEntries) /\ Keeps(audit, audit')
         /\ trail' \in LogOf(TrailEntries) /\ Keeps(trail, trail')
<1>0. {"whole"} \cup Cuts \subseteq Endings
  BY PolicyAssumption DEF Endings
<1>1. Keeps(audit, audit) /\ Keeps(trail, trail)
  BY DEF LogsOK, LogOf, Keeps
<1>2. audit' \in LogOf(AuditEntries) /\ Keeps(audit, audit')
  BY <1>0, <1>1, FilesStep, AuditLines, AppendedIsKeeping DEF AuditStep, LogsOK
<1>3. trail' \in LogOf(TrailEntries) /\ Keeps(trail, trail')
  <2>1. CASE trail' = trail
    BY <1>1, <2>1 DEF LogsOK
  <2>2. ASSUME NEW c \in Calls, NEW how \in {"whole"} \cup Cuts,
               pc[c] \in {"commit", "failedCommit"},
               trail' = Appended(trail, Line(seen[c], <<c, Decision(c)>>, how))
        PROVE  trail' \in LogOf(TrailEntries) /\ Keeps(trail, trail')
    <3>1. Line(seen[c], <<c, Decision(c)>>, how) \in LineOf(TrailEntries)
      BY <1>0, <2>2, TrailLines
    <3> QED BY <2>2, <3>1, AppendedIsKeeping DEF LogsOK
  <2>3. CASE \E c \in Calls, how \in {"whole"} \cup Cuts :
               /\ pc[c] \in {"commit", "failedCommit"} /\ (how # "whole" => crashed')
               /\ trail' = Appended(trail, Line(seen[c], <<c, Decision(c)>>, how))
    BY <2>2, <2>3
  <2> QED BY <2>1, <2>3, FilesStep, Zenon DEF TrailStep
<1> QED BY <1>2, <1>3

LEMMA SeenStep ==
  ASSUME ControlOK, LogsOK, [Next]_vars
  PROVE  /\ seen' \in [Calls -> Seq(AuditEntries) \cup Seq(TrailEntries)]
         /\ \A d \in Calls : SeenIsRead(d)'
<1> DEFINE Goal == /\ seen' \in [Calls -> Seq(AuditEntries) \cup Seq(TrailEntries)]
                  /\ \A d \in Calls : SeenIsRead(d)'
<1> USE DEF ControlOK, Shape, LogsOK, SeenIsRead
<1>0. <<>> \in Seq(AuditEntries) /\ Bodies(audit) \in Seq(AuditEntries)
       /\ Bodies(trail) \in Seq(TrailEntries)
  BY BodiesOfLog
<1>1. CASE UNCHANGED vars
  BY <1>1 DEF vars, callVars
<1>2. ASSUME NEW c \in Calls, Supervise(c) PROVE Goal
  <2>1. CASE Begin(c) \/ LoadAudit(c)
    BY <1>0, <2>1 DEF Begin, LoadAudit, Goto, Return, At
  <2>2. CASE RecordRequested(c) \/ RecordResolved(c)
    <3>1. pc'[c] \notin {"requesting", "recording", "commit", "failedCommit"}
      BY <2>2 DEF RecordRequested, RecordResolved, Goto, Return, At
    <3>2. /\ seen' = [seen EXCEPT ![c] = <<>>]
          /\ \A d \in Calls : d # c => pc'[d] = pc[d]
      BY <2>2 DEF RecordRequested, RecordResolved, Goto, Return, At
    <3> QED BY <1>0, <3>1, <3>2
  <2>3. CASE Dispatch(c) \/ Poll(c) \/ Receive(c) \/ Judge(c)
    BY <2>3 DEF Dispatch, Poll, Receive, Judge, Resolve, Goto, At
  <2> QED BY <1>2, <2>1, <2>2, <2>3 DEF Supervise
<1>3. ASSUME NEW c \in Calls, Runtime(c) PROVE Goal
  <2>1. CASE LoadTrail(c)
    BY <1>0, <2>1 DEF LoadTrail, Goto, Return
  <2>2. CASE Commit(c)
    BY <1>0, <2>2 DEF Commit, Return
  <2>3. CASE \/ Authorize(c) \/ GateAnswers(c) \/ Escalation(c) \/ EscalationAnswers(c)
             \/ Execute(c)
    <3>1. /\ seen' = seen
          /\ pc'[c] \notin {"requesting", "recording", "commit", "failedCommit"}
          /\ \A d \in Calls : d # c => pc'[d] = pc[d]
      BY <2>3 DEF Authorize, GateAnswers, Escalation, EscalationAnswers, Execute, Goto
    <3> QED BY <3>1
  <2> QED BY <1>3, <2>1, <2>2, <2>3 DEF Runtime
<1>4. CASE Crash
  BY <1>0, <1>4 DEF Crash
<1>5. CASE \/ \E c \in Calls : Cancel(c) \/ \E a \in Answers : Answer(c, a)
           \/ \E t \in Tools : Revoke(t)
           \/ PolicyStep \/ Restart
  BY <1>5 DEF Cancel, Answer, Revoke, PolicyStep, Restart, callVars
<1> QED BY <1>1, <1>2, <1>3, <1>4, <1>5 DEF Next

LEMMA LogsInit == Init => LogsOK
BY DEF Init, LogsOK, SeenIsRead, LogOf

LEMMA LogsStep == ControlOK /\ LogsOK /\ [Next]_vars => LogsOK'
BY FilesKeep, SeenStep DEF LogsOK

LEMMA Logs == Spec => []LogsOK
BY Control, LogsInit, LogsStep, PTL DEF Spec

-----------------------------------------------------------------------------
(* The enterprise trail: whoever is in the transaction has read all of it.        *)

InTransaction(d) == pc[d] \in {"commit", "failedCommit"}

HasReadTrail(d) ==
  InTransaction(d) => holder = d /\ seen[d] = Bodies(trail) /\ Readable(trail)

TrailOK ==
  /\ Chained(trail)
  /\ \A i \in 1 .. Len(trail) :
       trail[i].state = "whole" \/ (i = Len(trail) /\ crashed)
  /\ \A d \in Calls : HasReadTrail(d)

LEMMA TrailGrows ==
  ASSUME ControlOK, LogsOK, TrailOK, NEW c \in Calls, InTransaction(c),
         NEW how \in {"whole"} \cup Cuts, how # "whole" => crashed', crashed => crashed',
         trail' = Appended(trail, Line(seen[c], <<c, Decision(c)>>, how))
  PROVE  /\ Chained(trail')
         /\ \A i \in 1 .. Len(trail') :
              trail'[i].state = "whole" \/ (i = Len(trail') /\ crashed')
<1> DEFINE line == Line(seen[c], <<c, Decision(c)>>, how)
<1>1. line \in LineOf(TrailEntries)
  BY PolicyAssumption, TrailLines DEF InTransaction, Endings
<1>2. line.after = Bodies(trail) /\ line.state = how
  BY DEF TrailOK, HasReadTrail, Line
<1> HIDE DEF line
<1>3. Chained(trail')
  BY <1>1, <1>2, ChainGrows DEF TrailOK, LogsOK, line
<1>4. Extends(TrailEntries, trail, line, trail')
  BY <1>1, AppendedExtends DEF LogsOK, line
<1>5. Len(trail) \in Nat /\ Len(trail') \in {Len(trail), Len(trail) + 1}
  BY <1>4 DEF LogsOK, LogOf, Extends
<1>6. CASE Len(trail') = Len(trail)
  <2>1. ASSUME NEW i \in 1 .. Len(trail), i < Len(trail) PROVE trail'[i].state = "whole"
    BY <1>4, <1>5, <2>1 DEF Extends, TrailOK
  <2>2. CASE ~crashed'
    <3>1. \A i \in 1 .. Len(trail) : trail[i].state = "whole"
      BY <2>2 DEF TrailOK
    <3>2. \A i \in 1 .. Len(trail) : trail'[i].state = "whole"
      BY <1>4, <3>1 DEF Extends
    <3> QED BY <1>3, <1>6, <3>2
  <2>3. CASE crashed'
    <3> SUFFICES ASSUME NEW i \in 1 .. Len(trail')
                 PROVE  trail'[i].state = "whole" \/ (i = Len(trail') /\ crashed')
      BY <1>3
    <3>1. CASE i < Len(trail)
      BY <1>5, <1>6, <2>1, <3>1
    <3>2. CASE ~(i < Len(trail))
      <4>1. i = Len(trail')
        BY <1>5, <1>6, <3>2
      <4> QED BY <2>3, <4>1, Zenon
    <3> QED BY <3>1, <3>2
  <2> QED BY <2>2, <2>3
<1>7. CASE Len(trail') = Len(trail) + 1
  <2>1. ASSUME NEW i \in 1 .. Len(trail) PROVE trail[i].state = "whole"
    <3>1. CASE i = Len(trail)
      <4>1. trail[i].state \in {"whole", "garbled"}
        BY <1>4, <1>5, <1>7, <3>1 DEF Extends
      <4>2. trail[i].state \in {"whole", "unended"}
        BY DEF TrailOK, HasReadTrail, Readable, Parses, LogsOK, LogOf
      <4> QED BY <4>1, <4>2
    <3>2. CASE i # Len(trail)
      BY <3>2 DEF TrailOK
    <3> QED BY <3>1, <3>2
  <2>2. \A i \in 1 .. Len(trail) : trail'[i] = trail[i]
    BY <1>4, <1>7 DEF Extends
  <2>3. trail'[Len(trail')] = line
    BY <1>4, <1>7 DEF Extends
  <2>4. ASSUME NEW i \in 1 .. Len(trail')
        PROVE  trail'[i].state = "whole" \/ (i = Len(trail') /\ crashed')
    <3>1. CASE i \in 1 .. Len(trail)
      BY <2>1, <2>2, <3>1
    <3>2. CASE i = Len(trail')
      <4>1. trail'[i].state = how
        BY <1>2, <2>3, <3>2
      <4> QED BY <3>2, <4>1
    <3> QED BY <1>5, <1>7, <3>1, <3>2
  <2> QED BY <1>3, <2>4
<1> QED BY <1>5, <1>6, <1>7

LEMMA CrashedStays == ASSUME [Next]_vars PROVE crashed => crashed'
BY DEF Next, vars, policyVars, Supervise, Runtime, Begin, RecordRequested, Dispatch, Poll,
       Receive, Judge, LoadAudit, RecordResolved, Authorize, GateAnswers, Escalation,
       EscalationAnswers, Execute, LoadTrail, Commit, Cancel, Answer, Revoke, unswitched,
       PolicyStep, PolicyNext, Switch, AppendPolicy, WriteCell, SetPolicy, Crash, Dies,
       Restart, PolicyRestart

(* One call at a time is in the transaction.                                     *)
LEMMA TransactionStep ==
  ASSUME ControlOK, LogsOK, TrailOK, [Next]_vars, NEW d \in Calls
  PROVE  HasReadTrail(d)'
<1> USE DEF ControlOK, Shape, LogsOK, HasReadTrail, InTransaction
<1>0. HasReadTrail(d)
  BY DEF TrailOK
<1>1. CASE UNCHANGED vars
  BY <1>0, <1>1 DEF vars, callVars
<1>2. ASSUME NEW c \in Calls, Supervise(c) PROVE HasReadTrail(d)'
  <2>1. pc'[c] \notin {"commit", "failedCommit"} /\ pc[c] \notin {"commit", "failedCommit"}
    BY <1>2 DEF Supervise, Begin, RecordRequested, Dispatch, Poll, Receive, Judge, LoadAudit,
                RecordResolved, Resolve, Goto, Return, At
  <2>2. /\ UNCHANGED <<holder, trail>>
        /\ \A e \in Calls : e # c => pc'[e] = pc[e] /\ seen'[e] = seen[e]
    BY <1>2 DEF Supervise, Begin, RecordRequested, Dispatch, Poll, Receive, Judge, LoadAudit,
                RecordResolved, Resolve, Goto, Return
  <2> QED BY <1>0, <2>1, <2>2
<1>3. ASSUME NEW c \in Calls, Runtime(c) PROVE HasReadTrail(d)'
  <2>1. CASE LoadTrail(c)
    <3>1. holder = NoCall /\ ~InTransaction(d)
      BY <1>0, <2>1, BridgeAssumption DEF LoadTrail, Enter
    <3> QED BY <2>1, <3>1 DEF LoadTrail, Goto, Return
  <2>2. CASE Commit(c)
    <3>1. HasReadTrail(c)
      BY DEF TrailOK
    <3> QED BY <1>0, <2>2, <3>1 DEF Commit, Return
  <2>3. CASE \/ Authorize(c) \/ GateAnswers(c) \/ Escalation(c) \/ EscalationAnswers(c)
             \/ Execute(c)
    <3>1. /\ UNCHANGED <<seen, holder, trail>>
          /\ pc'[c] \notin {"commit", "failedCommit"}
          /\ \A e \in Calls : e # c => pc'[e] = pc[e]
      BY <2>3 DEF Authorize, GateAnswers, Escalation, EscalationAnswers, Execute, Goto
    <3> QED BY <1>0, <3>1
  <2> QED BY <1>3, <2>1, <2>2, <2>3 DEF Runtime
<1>4. CASE Crash
  BY <1>4 DEF Crash
<1>5. CASE \/ \E c \in Calls : Cancel(c) \/ \E a \in Answers : Answer(c, a)
           \/ \E t \in Tools : Revoke(t)
           \/ PolicyStep \/ Restart
  BY <1>0, <1>5 DEF Cancel, Answer, Revoke, PolicyStep, Restart, callVars
<1> QED BY <1>1, <1>2, <1>3, <1>4, <1>5 DEF Next

LEMMA TrailInit == Init => TrailOK
BY DEF Init, TrailOK, Chained, HasReadTrail, InTransaction

LEMMA TrailOKStep == ControlOK /\ LogsOK /\ TrailOK /\ [Next]_vars => TrailOK'
<1> SUFFICES ASSUME ControlOK, LogsOK, TrailOK, [Next]_vars PROVE TrailOK'
  OBVIOUS
<1>1. CASE trail' = trail
  BY <1>1, TransactionStep, CrashedStays, Zenon DEF TrailOK, Chained
<1>2. ASSUME NEW c \in Calls, NEW how \in {"whole"} \cup Cuts, InTransaction(c),
             how # "whole" => crashed',
             trail' = Appended(trail, Line(seen[c], <<c, Decision(c)>>, how))
      PROVE  TrailOK'
  <2>1. /\ Chained(trail')
        /\ \A i \in 1 .. Len(trail') :
             trail'[i].state = "whole" \/ (i = Len(trail') /\ crashed')
    BY <1>2, TrailGrows, CrashedStays
  <2> QED BY <2>1, TransactionStep, Zenon DEF TrailOK, Chained
<1> QED BY <1>1, <1>2, FilesStep DEF TrailStep, InTransaction

(* The trail is never forked, for any number of concurrent calls                  *)
(* (record_execution's transaction).                                            *)
THEOREM TrailChained == Spec => []TrailIsChained
<1>1. LogsOK /\ TrailOK => TrailIsChained
  BY DEF LogsOK, LogOf, TrailOK, Chained, TrailIsChained
<1>2. Spec => []TrailOK
  BY Control, Logs, TrailInit, TrailOKStep, PTL DEF Spec
<1> QED BY <1>1, <1>2, Logs, PTL

-----------------------------------------------------------------------------
(* The audit: a line lasts once it is whole.  A crash may have left the file with    *)
(* a last line that has no newline; the first record after it garbles that line,     *)
(* and nothing is granted from then on.                                          *)

OnRecordInOrder(log, one, two) ==
  \E i, j \in 1 .. Len(log) :
    /\ i < j /\ log[i].state = "whole" /\ log[j].state = "whole"
    /\ log[i].body = one /\ log[j].body = two

Questioning == {"requested", "waiting", "receiving", "received", "resolving", "recording"}

Granted(d) ==
  /\ pc[d] \in Questioning =>
       Ended(audit) /\ (OnRecord(audit, <<d, "Requested">>) \/ IsGarbled(audit))
  /\ pc[d] = "recording" => OnRecord(audit, <<d, "Requested">>)
  /\ pc[d] \in Authorized \/ d \in ran
       => OnRecordInOrder(audit, <<d, "Requested">>, <<d, "Allowed">>)

GrantsOK == \A d \in Calls : Granted(d)

LEMMA RecordStays ==
  ASSUME NEW log, NEW new, Keeps(log, new), Len(log) \in Nat, Len(new) \in Nat
  PROVE  /\ \A body : OnRecord(log, body) => OnRecord(new, body)
         /\ \A one, two : OnRecordInOrder(log, one, two) => OnRecordInOrder(new, one, two)
<1>1. \A i \in 1 .. Len(log) : i \in 1 .. Len(new)
  BY DEF Keeps
<1>2. \A i \in 1 .. Len(log) : log[i].state = "whole" => new[i] = log[i]
  BY DEF Keeps
<1>3. \A body : OnRecord(log, body) => OnRecord(new, body)
  BY <1>1, <1>2, Zenon DEF OnRecord
<1>4. ASSUME NEW one, NEW two, OnRecordInOrder(log, one, two)
      PROVE  OnRecordInOrder(new, one, two)
  <2>1. PICK i \in 1 .. Len(log), j \in 1 .. Len(log) :
          /\ i < j /\ log[i].state = "whole" /\ log[j].state = "whole"
          /\ log[i].body = one /\ log[j].body = two
    BY <1>4 DEF OnRecordInOrder
  <2>2. i \in 1 .. Len(new) /\ j \in 1 .. Len(new) /\ new[i] = log[i] /\ new[j] = log[j]
    BY <1>1, <1>2, <2>1
  <2> QED BY <2>1, <2>2, Zenon DEF OnRecordInOrder
<1> QED BY <1>3, <1>4

(* The two writes of request_resolved.                                           *)
LEMMA AuditWrites ==
  ASSUME ControlOK, LogsOK, GrantsOK, NEW c \in Calls
  PROVE  /\ RecordRequested(c) \/ RecordResolved(c) =>
              Ended(audit') /\ (IsGarbled(audit) => IsGarbled(audit'))
         /\ RecordRequested(c) =>
              OnRecord(audit', <<c, "Requested">>) \/ IsGarbled(audit')
         /\ RecordResolved(c) =>
              OnRecordInOrder(audit', <<c, "Requested">>, <<c, resolution[c]>>)
<1> USE DEF LogsOK, SeenIsRead
<1>1. ASSUME RecordRequested(c)
      PROVE  /\ Ended(audit') /\ (IsGarbled(audit) => IsGarbled(audit'))
             /\ OnRecord(audit', <<c, "Requested">>) \/ IsGarbled(audit')
  <2>1. /\ audit' = Written(audit, seen[c], <<c, "Requested">>)
        /\ seen[c] \in Seq(AuditEntries) /\ <<c, "Requested">> \in AuditEntries
    BY <1>1 DEF RecordRequested, At, AuditEntries
  <2> QED BY <2>1, WrittenEnds
<1>2. ASSUME RecordResolved(c)
      PROVE  /\ Ended(audit') /\ (IsGarbled(audit) => IsGarbled(audit'))
             /\ OnRecordInOrder(audit', <<c, "Requested">>, <<c, resolution[c]>>)
  <2>1. pc[c] = "recording" /\ audit' = Written(audit, seen[c], <<c, resolution[c]>>)
    BY <1>2 DEF RecordResolved, ResolvedLine, At
  <2>2. seen[c] \in Seq(AuditEntries) /\ <<c, resolution[c]>> \in AuditEntries
    BY <2>1 DEF AuditEntries, ControlOK, AnswersAgree
  <2>3. Ended(audit) /\ OnRecord(audit, <<c, "Requested">>)
    BY <2>1 DEF GrantsOK, Granted, Questioning
  <2>4. /\ Ended(audit') /\ (IsGarbled(audit) => IsGarbled(audit'))
        /\ Len(audit') = Len(audit) + 1
        /\ audit'[Len(audit')].state = "whole" /\ audit'[Len(audit')].body = <<c, resolution[c]>>
    <3> DEFINE body == <<c, resolution[c]>>
               new  == Written(audit, seen[c], body)
    <3>1. body \in AuditEntries /\ audit \in LogOf(AuditEntries)
      BY <2>2
    <3> HIDE DEF body
    <3>2. /\ Ended(new) /\ (IsGarbled(audit) => IsGarbled(new))
          /\ Len(new) = Len(audit) + 1
          /\ new[Len(new)].state = "whole" /\ new[Len(new)].body = body
      BY <2>2, <2>3, <3>1, WrittenEnds
    <3> QED BY <2>1, <3>2 DEF body
  <2>5. PICK i \in 1 .. Len(audit) :
          audit[i].state = "whole" /\ audit[i].body = <<c, "Requested">>
    BY <2>3 DEF OnRecord
  <2>6. Line(seen[c], <<c, resolution[c]>>, "whole") \in LineOf(AuditEntries)
    BY <2>2 DEF Line, LineOf, Endings
  <2>7. audit'[i] = audit[i]
    BY <2>1, <2>5, <2>6, AppendedIsKeeping DEF Written, Keeps
  <2> DEFINE j == Len(audit')
  <2>8. i \in 1 .. j /\ j \in 1 .. j /\ i < j
    BY <2>4, <2>5 DEF LogOf
  <2> QED BY <2>4, <2>5, <2>7, <2>8 DEF OnRecordInOrder
<1> QED BY <1>1, <1>2

(* Steps of a call that touch neither file, and lead nowhere from where one is       *)
(* written.                                                                  *)
Writing == {"requesting", "recording", "commit", "failedCommit"}

LEMMA OtherSteps ==
  ASSUME Shape, NEW c \in Calls,
         \/ Dispatch(c) \/ Poll(c) \/ Receive(c) \/ Judge(c)
         \/ Authorize(c) \/ GateAnswers(c) \/ Escalation(c) \/ EscalationAnswers(c)
         \/ Execute(c)
  PROVE  /\ UNCHANGED <<audit, trail, outcome, seen>>
         /\ pc'[c] \notin Writing
         /\ \A d \in Calls : d # c => pc'[d] = pc[d]
         /\ \A d \in Calls : d # c => (d \in ran' <=> d \in ran)
         /\ pc'[c] \in Questioning => pc[c] \in Questioning
         /\ pc'[c] \in Authorized \/ c \in ran' => pc[c] \in Authorized \/ c \in ran
<1> USE DEF Shape, Writing, Questioning, Authorized
<1>1. CASE Dispatch(c) \/ Poll(c) \/ Receive(c)
  BY <1>1 DEF Dispatch, Poll, Receive, Resolve, Goto, At
<1>2. CASE Judge(c)
  BY <1>2 DEF Judge, Resolve, Goto, At
<1>3. CASE Authorize(c)
  <2>1. pc[c] = "authorizing" /\ pc'[c] \in {"permitted", "failed", "gateAsking"}
    BY <1>3, BridgeAssumption DEF Authorize, Goto, At
  <2>2. /\ UNCHANGED <<audit, trail, outcome, seen, ran>>
        /\ \A d \in Calls : d # c => pc'[d] = pc[d]
    BY <1>3 DEF Authorize, Goto
  <2> QED BY <2>1, <2>2
<1>4. CASE GateAnswers(c) \/ EscalationAnswers(c) \/ Execute(c) \/ Escalation(c)
  BY <1>4 DEF GateAnswers, EscalationAnswers, Execute, Escalation, Goto, At
<1> QED BY <1>1, <1>2, <1>3, <1>4

LEMMA GrantedStep ==
  ASSUME ControlOK, LogsOK, GrantsOK, [Next]_vars, NEW d \in Calls
  PROVE  Granted(d)'
<1> DEFINE Question == OnRecord(audit, <<d, "Requested">>)
           Grant    == OnRecordInOrder(audit, <<d, "Requested">>, <<d, "Allowed">>)
           Broken   == IsGarbled(audit)
           Closed   == Ended(audit)
<1>0. Granted(d) /\ Shape
  BY DEF GrantsOK, ControlOK
<1>a. (Question => Question') /\ (Grant => Grant')
  <2>1. Keeps(audit, audit') /\ Len(audit) \in Nat /\ Len(audit') \in Nat
    BY FilesKeep DEF LogsOK, LogOf
  <2> QED BY <2>1, RecordStays
<1>b. Granted(d) <=> /\ pc[d] \in Questioning => Closed /\ (Question \/ Broken)
                     /\ pc[d] = "recording" => Question
                     /\ pc[d] \in Authorized \/ d \in ran => Grant
  BY DEF Granted
<1>c. Granted(d)' <=> /\ pc'[d] \in Questioning => Closed' /\ (Question' \/ Broken')
                      /\ pc'[d] = "recording" => Question'
                      /\ pc'[d] \in Authorized \/ d \in ran' => Grant'
  BY DEF Granted
<1>d. audit' = audit => (Closed' <=> Closed) /\ (Broken' <=> Broken)
  BY DEF Ended, IsGarbled
<1>e. Readable(audit) => ~Broken
  BY GarbledIsUnreadable DEF LogsOK
<1> USE DEF Shape, Questioning, Authorized
<1> HIDE DEF Question, Grant, Broken, Closed
<1>1. CASE UNCHANGED vars
  BY <1>0, <1>1, <1>a, <1>b, <1>c, <1>d DEF vars, callVars
<1>2. ASSUME NEW c \in Calls,
             \/ Dispatch(c) \/ Poll(c) \/ Receive(c) \/ Judge(c)
             \/ Authorize(c) \/ GateAnswers(c) \/ Escalation(c) \/ EscalationAnswers(c)
             \/ Execute(c)
      PROVE  Granted(d)'
  BY <1>0, <1>2, <1>a, <1>b, <1>c, <1>d, OtherSteps DEF Writing
<1>3. ASSUME NEW c \in Calls, Begin(c) \/ LoadAudit(c) PROVE Granted(d)'
  <2>1. /\ audit' = audit /\ ran' = ran
        /\ \A e \in Calls : e # c => pc'[e] = pc[e]
        /\ pc'[c] \in {"requesting", "recording", "done"}
        /\ pc'[c] = "recording" => pc[c] = "resolving" /\ Readable(audit)
    BY <1>0, <1>3 DEF Begin, LoadAudit, Goto, Return, At
  <2> QED BY <1>0, <2>1, <1>a, <1>b, <1>c, <1>d, <1>e
<1>4. ASSUME NEW c \in Calls, RecordRequested(c) PROVE Granted(d)'
  <2>1. Closed' /\ (Broken => Broken') /\ (c = d => Question' \/ Broken')
    BY <1>4, AuditWrites DEF Question, Closed, Broken
  <2>2. /\ pc'[c] = "requested" /\ ran' = ran /\ c \notin ran
        /\ \A e \in Calls : e # c => pc'[e] = pc[e]
    BY <1>0, <1>4 DEF RecordRequested, Goto, At, ControlOK, RanIsFinishing, Finishing
  <2> QED BY <1>0, <2>1, <2>2, <1>a, <1>b, <1>c
<1>5. ASSUME NEW c \in Calls, RecordResolved(c) PROVE Granted(d)'
  <2>1. pc[c] = "recording" /\ resolution[c] \in Resolutions /\ UNCHANGED ran
    BY <1>5 DEF RecordResolved, At, ControlOK, AnswersAgree
  <2>2. Closed' /\ (Broken => Broken')
    BY <1>5, AuditWrites DEF Closed, Broken
  <2>3. CASE c # d
    <3>1. pc'[d] = pc[d]
      BY <1>0, <1>5, <2>3 DEF RecordResolved, Goto, Return
    <3> QED BY <1>0, <2>1, <2>2, <3>1, <1>a, <1>b, <1>c
  <2>4. CASE c = d
    <3>1. pc'[d] \notin Questioning
      BY <1>0, <1>5, <2>1, <2>4 DEF RecordResolved, Goto, Return, Resolutions
    <3>2. pc'[d] \in Authorized => resolution[d] = "Allowed"
      BY <1>0, <1>5, <2>1, <2>4 DEF RecordResolved, Goto, Return, Resolutions
    <3>3. resolution[d] = "Allowed" => Grant'
      BY <1>5, <2>4, AuditWrites DEF Grant
    <3> QED BY <1>0, <2>1, <3>1, <3>2, <3>3, <1>a, <1>b, <1>c
  <2> QED BY <2>3, <2>4
<1>6. ASSUME NEW c \in Calls, LoadTrail(c) \/ Commit(c) PROVE Granted(d)'
  <2>1. /\ pc'[c] \notin Questioning \cup Authorized /\ ran' = ran /\ audit' = audit
        /\ \A e \in Calls : e # c => pc'[e] = pc[e]
    BY <1>0, <1>6 DEF LoadTrail, Commit, Goto, Return
  <2> QED BY <1>0, <2>1, <1>a, <1>b, <1>c, <1>d
<1>7. CASE Crash
  <2>1. pc'[d] \notin Questioning \cup Authorized /\ ran' = ran
    BY <1>0, <1>7 DEF Crash
  <2> QED BY <1>0, <2>1, <1>a, <1>b, <1>c
<1>8. CASE \/ \E c \in Calls : Cancel(c) \/ \E a \in Answers : Answer(c, a)
           \/ \E t \in Tools : Revoke(t)
           \/ PolicyStep \/ Restart
  BY <1>0, <1>8, <1>a, <1>b, <1>c, <1>d
     DEF Cancel, Answer, Revoke, PolicyStep, Restart, callVars
<1> QED BY <1>1, <1>2, <1>3, <1>4, <1>5, <1>6, <1>7, <1>8 DEF Next, Supervise, Runtime

LEMMA Grants == Spec => []GrantsOK
<1>1. Init => GrantsOK
  BY DEF Init, GrantsOK, Granted, Questioning, Authorized
<1>2. ControlOK /\ LogsOK /\ GrantsOK /\ [Next]_vars => GrantsOK'
  BY GrantedStep DEF GrantsOK
<1> QED BY <1>1, <1>2, Control, Logs, PTL DEF Spec

(* No authority without its record (request_resolved): for any number of calls, and   *)
(* wherever a crash cuts a write.                                               *)
THEOREM GrantsRecorded == Spec => []GrantIsRecorded
<1>1. ControlOK /\ LogsOK /\ GrantsOK => GrantIsRecorded
  <2> SUFFICES ASSUME ControlOK, LogsOK, GrantsOK, NEW c \in ran
               PROVE  \E i, j \in DOMAIN audit :
                        /\ i < j /\ Parses(audit[i]) /\ Parses(audit[j])
                        /\ audit[i].body = <<c, "Requested">>
                        /\ audit[j].body = <<c, "Allowed">>
    BY DEF GrantIsRecorded
  <2>1. DOMAIN audit = 1 .. Len(audit)
    BY DEF LogsOK, LogOf
  <2>2. OnRecordInOrder(audit, <<c, "Requested">>, <<c, "Allowed">>)
    BY DEF ControlOK, Shape, GrantsOK, Granted
  <2> QED BY <2>1, <2>2 DEF OnRecordInOrder, Parses
<1> QED BY <1>1, Control, Logs, Grants, PTL

-----------------------------------------------------------------------------
(* The outputs.  They need an assumption: a trail of which a crash has left all but   *)
(* the last newline is accepted, and the next record is lost with that line.       *)

NoSilentCut == "unended" \notin Cuts

(* Whoever is in the transaction found the file whole; what was returned is in it.   *)
OutputsOK ==
  /\ NoUnended(trail)
  /\ \A d \in Calls : InTransaction(d) => AllWhole(trail)
  /\ \A d \in Calls : outcome[d] = "output" => OnRecord(trail, <<d, "executed">>)

LEMMA TrailUnended ==
  ASSUME ControlOK, LogsOK, NoUnended(trail), NoSilentCut, [Next]_vars
  PROVE  NoUnended(trail')
<1>0. {"whole"} \cup Cuts \subseteq Endings /\ \A how \in {"whole"} \cup Cuts : how # "unended"
  BY PolicyAssumption DEF NoSilentCut, Endings
<1>1. CASE trail' = trail
  BY <1>1
<1>2. ASSUME NEW c \in Calls, NEW how \in {"whole"} \cup Cuts, InTransaction(c),
             trail' = Appended(trail, Line(seen[c], <<c, Decision(c)>>, how))
      PROVE  NoUnended(trail')
  <2>1. Line(seen[c], <<c, Decision(c)>>, how) \in LineOf(TrailEntries)
    BY <1>0, <1>2, TrailLines DEF InTransaction
  <2> QED BY <1>0, <1>2, <2>1, NoUnendedStays DEF LogsOK, Line
<1> QED BY <1>1, <1>2, FilesStep DEF TrailStep, InTransaction

LEMMA CommitIsWhole ==
  ASSUME ControlOK, LogsOK, OutputsOK, NEW c \in Calls, Commit(c)
  PROVE  AllWhole(trail') /\ OnRecord(trail', <<c, Decision(c)>>)
<1> USE DEF LogsOK, SeenIsRead
<1>1. /\ trail' = Written(trail, seen[c], <<c, Decision(c)>>) /\ AllWhole(trail)
      /\ seen[c] \in Seq(TrailEntries)
  BY DEF Commit, OutputsOK, InTransaction
<1>2. <<c, Decision(c)>> \in TrailEntries
  BY DEF Decision, TrailEntries
<1>3. /\ AllWhole(trail') /\ Len(trail') = Len(trail) + 1
      /\ trail'[Len(trail')].body = <<c, Decision(c)>>
  BY <1>1, <1>2, WrittenWhole
<1>4. Len(trail) \in Nat
  BY DEF LogOf
<1> QED BY <1>3, <1>4 DEF OnRecord, AllWhole

LEMMA OutputStep ==
  ASSUME ControlOK, LogsOK, OutputsOK, [Next]_vars, NEW d \in Calls
  PROVE  /\ InTransaction(d)' => AllWhole(trail')
         /\ outcome'[d] = "output" => OnRecord(trail', <<d, "executed">>)
<1> DEFINE Success == OnRecord(trail, <<d, "executed">>)
           Whole   == AllWhole(trail)
           Goal    == /\ pc'[d] \in {"commit", "failedCommit"} => Whole'
                      /\ outcome'[d] = "output" => Success'
<1>0. /\ pc[d] \in {"commit", "failedCommit"} => Whole
      /\ outcome[d] = "output" => Success
      /\ Readable(trail) => Whole
      /\ Shape
  BY ReadableIsWhole DEF OutputsOK, ControlOK, LogsOK, InTransaction
<1>a. (Success => Success') /\ (trail' = trail => (Whole' <=> Whole))
  <2>1. Keeps(trail, trail') /\ Len(trail) \in Nat /\ Len(trail') \in Nat
    BY FilesKeep DEF LogsOK, LogOf
  <2> QED BY <2>1, RecordStays DEF AllWhole
<1> USE DEF Shape
<1>7. ASSUME NEW c \in Calls, Commit(c) PROVE Goal
  <2>1. Whole' /\ OnRecord(trail', <<c, Decision(c)>>)
    BY <1>7, CommitIsWhole
  <2>2. /\ \A e \in Calls : e # c => outcome'[e] = outcome[e]
        /\ outcome'[c] = Audited(c)
    BY <1>0, <1>7 DEF Commit, Return
  <2>3. Audited(c) = "output" => Decision(c) = "executed"
    BY DEF Audited
  <2> QED BY <1>0, <2>1, <2>2, <2>3, <1>a
<1> HIDE DEF Success, Whole
<1>1. ASSUME UNCHANGED vars PROVE Goal
  BY <1>0, <1>1, <1>a DEF vars, callVars
<1>2. ASSUME NEW c \in Calls,
             \/ Dispatch(c) \/ Poll(c) \/ Receive(c) \/ Judge(c)
             \/ Authorize(c) \/ GateAnswers(c) \/ Escalation(c) \/ EscalationAnswers(c)
             \/ Execute(c)
      PROVE  Goal
  BY <1>0, <1>2, <1>a, OtherSteps DEF Writing
<1>3. ASSUME NEW c \in Calls, Begin(c) \/ LoadAudit(c) PROVE Goal
  BY <1>0, <1>3, <1>a DEF Begin, LoadAudit, Goto, Return, At
<1>4. ASSUME NEW c \in Calls, RecordRequested(c) \/ RecordResolved(c) PROVE Goal
  <2>1. /\ trail' = trail /\ pc'[c] \notin {"commit", "failedCommit"}
        /\ \A e \in Calls : e # c => pc'[e] = pc[e] /\ outcome'[e] = outcome[e]
        /\ outcome'[c] = "output" => outcome[c] = "output"
    BY <1>0, <1>4 DEF RecordRequested, RecordResolved, Goto, Return, At
  <2> QED BY <1>0, <2>1, <1>a
<1>5. ASSUME NEW c \in Calls, LoadTrail(c) PROVE Goal
  BY <1>0, <1>5, <1>a DEF LoadTrail, Goto, Return, Unaudited
<1>6. ASSUME Crash PROVE Goal
  BY <1>0, <1>6, <1>a DEF Crash
<1>8. ASSUME \/ \E c \in Calls : Cancel(c) \/ \E a \in Answers : Answer(c, a)
             \/ \E t \in Tools : Revoke(t)
             \/ PolicyStep \/ Restart
      PROVE  Goal
  BY <1>0, <1>8, <1>a DEF Cancel, Answer, Revoke, PolicyStep, Restart, callVars
<1> HIDE DEF Goal
<1>9. Goal
  BY <1>1, <1>2, <1>3, <1>4, <1>5, <1>6, <1>7, <1>8 DEF Next, Supervise, Runtime
<1> QED BY <1>9 DEF Goal, Success, Whole, InTransaction

LEMMA OutputsHold == ASSUME NoSilentCut PROVE Spec => []OutputsOK
<1>1. Init => OutputsOK
  BY DEF Init, OutputsOK, NoUnended, InTransaction
<1>2. ControlOK /\ LogsOK /\ OutputsOK /\ [Next]_vars => OutputsOK'
  <2> SUFFICES ASSUME ControlOK, LogsOK, OutputsOK, [Next]_vars PROVE OutputsOK'
    OBVIOUS
  <2>1. NoUnended(trail')
    BY TrailUnended DEF OutputsOK
  <2> QED BY <2>1, OutputStep DEF OutputsOK
<1> QED BY <1>1, <1>2, Control, Logs, PTL DEF Spec

(* No success reaches the model unaudited (audit_execution), as long as no crash      *)
(* leaves a line that lacks only its newline.                                    *)
THEOREM OutputsAudited == ASSUME NoSilentCut PROVE Spec => []OutputIsAudited
<1>1. LogsOK /\ OutputsOK => OutputIsAudited
  <2> SUFFICES ASSUME LogsOK, OutputsOK, NEW c \in Calls, outcome[c] = "output"
               PROVE  \E i \in DOMAIN trail :
                        trail[i].body = <<c, "executed">> /\ Parses(trail[i])
    BY DEF OutputIsAudited
  <2>1. DOMAIN trail = 1 .. Len(trail)
    BY DEF LogsOK, LogOf
  <2>2. OnRecord(trail, <<c, "executed">>)
    BY DEF OutputsOK
  <2> QED BY <2>1, <2>2 DEF OnRecord, Parses
<1> QED BY <1>1, Logs, OutputsHold, PTL

-----------------------------------------------------------------------------
(* The policy.                                                               *)

LEMMA BridgeMovesPolicy == ASSUME [Next]_vars PROVE PolicyMove
<1>1. CASE UNCHANGED vars
  BY <1>1 DEF vars, policyVars, PolicyMove
<1>2. ASSUME NEW c \in Calls, Supervise(c) \/ Runtime(c) PROVE UNCHANGED policyVars
  BY <1>2 DEF Supervise, Runtime, Begin, RecordRequested, Dispatch, Poll, Receive, Judge,
              LoadAudit, RecordResolved, Authorize, GateAnswers, Escalation,
              EscalationAnswers, Execute, LoadTrail, Commit
<1>3. CASE \/ \E c \in Calls : Cancel(c) \/ \E a \in Answers : Answer(c, a)
           \/ \E t \in Tools : Revoke(t)
  BY <1>3 DEF Cancel, Answer, Revoke, unswitched, policyVars, PolicyMove
<1>4. CASE PolicyStep \/ Crash \/ Restart
  BY <1>4 DEF PolicyStep, Crash, Restart, PolicyMove
<1> QED BY <1>1, <1>2, <1>3, <1>4 DEF Next, PolicyMove, policyVars

LEMMA PolicyShapes == Spec => []PolicyShape
<1>1. Init => PolicyShape
  BY PolicyShapeInit DEF Init
<1>2. PolicyShape /\ [Next]_vars => PolicyShape'
  BY BridgeMovesPolicy, PolicyShapeStep
<1> QED BY <1>1, <1>2, PTL DEF Spec

LEMMA PolicyHolds == ASSUME OneSetter PROVE Spec => []PolicyOK
<1>1. Init => PolicyOK
  BY PolicyOKInit DEF Init
<1>2. PolicyShape /\ PolicyOK /\ [Next]_vars => PolicyOK'
  BY BridgeMovesPolicy, PolicyOKStep
<1> QED BY <1>1, <1>2, PolicyShapes, PTL DEF Spec

(* A switch that was acknowledged is in force again after any number of crashes        *)
(* (set_approval_policy, with_approval_policy_store).                           *)
THEOREM SwitchesSurvive == ASSUME OneSetter PROVE Spec => []SwitchSurvives
<1>1. PolicyOK => SwitchSurvives
  BY DEF PolicyOK, FirmHolds, SwitchSurvives
<1> QED BY <1>1, PolicyHolds, PTL

(* A call begun under a firm Never is rejected, or cancelled, and goes no further.     *)
Held(d) ==
  d \in forbidden =>
    /\ firm = "Never" /\ d \notin ran
    /\ pc[d] \in {"requesting", "requested", "resolving", "recording", "auditing",
                  "commit", "done", "lost"}
    /\ pc[d] \in {"resolving", "recording"} => resolution[d] \in {"Cancelled", "Rejected"}

ForbiddenOK == \A d \in Calls : Held(d)

LEMMA HeldStep ==
  ASSUME ControlOK, PolicyOK, ForbiddenOK, NEW d \in Calls, [Next]_vars
  PROVE  Held(d)'
<1> USE DEF ControlOK, Shape, ForbiddenOK, Held
<1>1. CASE UNCHANGED vars
  BY <1>1 DEF vars, callVars, policyVars
<1>2. ASSUME NEW c \in Calls, Supervise(c) PROVE Held(d)'
  <2>0. firm' = firm /\ ran' = ran
    BY <1>2 DEF Supervise, Begin, RecordRequested, Dispatch, Poll, Receive, Judge, LoadAudit,
                RecordResolved, policyVars
  <2>1. CASE Begin(c)
    <3>1. pc[c] = "new" /\ c \notin ran
      BY <2>1 DEF Begin, At, RanIsFinishing, Finishing
    <3> QED BY <2>0, <2>1, <3>1 DEF Begin, Goto, Return
  <2>2. CASE Dispatch(c)
    <3>1. firm = "Never" => ~Supervised
      BY <2>2 DEF Dispatch, At, PolicyOK, FirmHolds, Supervised
    <3> QED BY <2>0, <2>2, <3>1 DEF Dispatch, Resolve, Goto, At
  <2>3. CASE RecordRequested(c) \/ LoadAudit(c)
    BY <2>0, <2>3 DEF RecordRequested, LoadAudit, Goto, Return, At
  <2>4. CASE Poll(c) \/ Receive(c) \/ Judge(c)
    <3>1. c \notin forbidden
      BY <2>4 DEF Poll, Receive, Judge, At
    <3>2. /\ forbidden' = forbidden
          /\ \A e \in Calls : e # c => pc'[e] = pc[e] /\ resolution'[e] = resolution[e]
      BY <2>4 DEF Poll, Receive, Judge, Resolve, Goto
    <3> QED BY <2>0, <3>1, <3>2
  <2>5. CASE RecordResolved(c)
    <3>1. /\ forbidden' = forbidden /\ resolution' = resolution
          /\ \A e \in Calls : e # c => pc'[e] = pc[e]
      BY <2>5 DEF RecordResolved, Goto, Return
    <3>2. c \in forbidden => pc'[c] \in {"done", "auditing"}
      BY <2>5 DEF RecordResolved, Goto, Return, At
    <3> QED BY <2>0, <3>1, <3>2
  <2> QED BY <1>2, <2>1, <2>2, <2>3, <2>4, <2>5 DEF Supervise
<1>3. ASSUME NEW c \in Calls, Runtime(c) PROVE Held(d)'
  <2>0. firm' = firm /\ forbidden' = forbidden /\ resolution' = resolution
    BY <1>3 DEF Runtime, Authorize, GateAnswers, Escalation, EscalationAnswers, Execute,
                LoadTrail, Commit, policyVars
  <2>1. CASE \/ Authorize(c) \/ GateAnswers(c) \/ Escalation(c) \/ EscalationAnswers(c)
             \/ Execute(c)
    <3>0. pc[c] \in Authorized
      BY <2>1 DEF Authorize, GateAnswers, Escalation, EscalationAnswers, Execute, At,
                  Authorized
    <3>1. c \notin forbidden /\ (ran' = ran \/ ran' = ran \cup {c})
      BY <2>1, <3>0 DEF Authorize, GateAnswers, Escalation, EscalationAnswers, Execute,
                        Authorized
    <3>2. \A e \in Calls : e # c => pc'[e] = pc[e]
      BY <2>1 DEF Authorize, GateAnswers, Escalation, EscalationAnswers, Execute, Goto
    <3> QED BY <2>0, <3>1, <3>2
  <2>2. CASE LoadTrail(c)
    BY <2>0, <2>2 DEF LoadTrail, Auditing, Goto, Return
  <2>3. CASE Commit(c)
    BY <2>0, <2>3 DEF Commit, Return
  <2> QED BY <1>3, <2>1, <2>2, <2>3 DEF Runtime
<1>4. CASE PolicyStep
  <2>1. firm' # "Never" => forbidden' = {}
    BY <1>4 DEF PolicyStep
  <2>2. forbidden' # {} => firm' = "Never" /\ forbidden' = forbidden
    BY <1>4, <2>1 DEF PolicyStep
  <2> QED BY <1>4, <2>2 DEF PolicyStep
<1>5. CASE Crash
  BY <1>5 DEF Crash, Dies
<1>6. CASE \/ \E c \in Calls : Cancel(c) \/ \E a \in Answers : Answer(c, a)
           \/ \E t \in Tools : Revoke(t)
           \/ Restart
  BY <1>6 DEF Cancel, Answer, Revoke, Restart, PolicyRestart, callVars, policyVars, unswitched
<1> QED BY <1>1, <1>2, <1>3, <1>4, <1>5, <1>6 DEF Next

(* After a switch to Never has been acknowledged no new call executes until somebody    *)
(* switches again, whatever crashes in between: for any number of calls.             *)
THEOREM NeverObeyed == ASSUME OneSetter PROVE Spec => []NeverIsObeyed
<1>1. Init => ForbiddenOK
  BY DEF Init, ForbiddenOK, Held
<1>2. ControlOK /\ PolicyOK /\ ForbiddenOK /\ [Next]_vars => ForbiddenOK'
  BY HeldStep DEF ForbiddenOK
<1>3. ControlOK /\ ForbiddenOK => NeverIsObeyed
  BY DEF ControlOK, Shape, ForbiddenOK, Held, NeverIsObeyed
<1> QED BY <1>1, <1>2, <1>3, Control, PolicyHolds, PTL DEF Spec

-----------------------------------------------------------------------------
(* The types of the variables that the invariants above do not speak of.             *)

TypesOK ==
  /\ cancelled \subseteq Calls /\ forbidden \subseteq Calls /\ session \subseteq Tools
  /\ asked \subseteq Calls \X {"tool", "sandbox"}
  /\ holder \in Calls \cup {NoCall}
  /\ upsets \in 0 .. MaxUpsets /\ crashed \in BOOLEAN
  /\ \A d \in Calls : (outcome[d] # "none") = (pc[d] = "done")

LEMMA TypesInit == Init => TypesOK
<1> SUFFICES ASSUME Init PROVE TypesOK
  OBVIOUS
<1>0. upsets = 0 /\ crashed = FALSE
  BY DEF Init, PolicyInit
<1>1. upsets \in 0 .. MaxUpsets
  BY <1>0, PolicyAssumption
<1>2. ASSUME NEW d \in Calls PROVE (outcome[d] # "none") = (pc[d] = "done")
  BY DEF Init
<1> QED BY <1>0, <1>1, <1>2 DEF Init, TypesOK

LEMMA UpsetInRange == ASSUME upsets \in 0 .. MaxUpsets, Upset PROVE upsets' \in 0 .. MaxUpsets
BY PolicyAssumption DEF Upset

LEMMA TypesStep ==
  ASSUME Shape, TypesOK, [Next]_vars PROVE TypesOK'
<1> USE DEF Shape, TypesOK
<1>1. CASE UNCHANGED vars
  BY <1>1 DEF vars, callVars, policyVars
<1>2. ASSUME NEW c \in Calls, Supervise(c) PROVE TypesOK'
  <2>1. CASE Begin(c) \/ LoadAudit(c)
    BY <2>1 DEF Begin, LoadAudit, Goto, Return, At, policyVars
  <2>2. CASE RecordRequested(c) \/ Poll(c) \/ Receive(c)
    BY <2>2 DEF RecordRequested, Poll, Receive, Resolve, Goto, At, policyVars
  <2>3. CASE Dispatch(c) \/ Judge(c)
    BY <2>3 DEF Dispatch, Judge, Resolve, Goto, At, policyVars
  <2>4. CASE RecordResolved(c)
    BY <2>4 DEF RecordResolved, Goto, Return, At, policyVars
  <2> QED BY <1>2, <2>1, <2>2, <2>3, <2>4 DEF Supervise
<1>3. ASSUME NEW c \in Calls, Runtime(c) PROVE TypesOK'
  <2>1. CASE Authorize(c) \/ Escalation(c) \/ Execute(c)
    BY <2>1 DEF Authorize, Escalation, Execute, Goto, At, policyVars
  <2>2. CASE GateAnswers(c) \/ EscalationAnswers(c)
    BY <2>2, BridgeAssumption DEF GateAnswers, EscalationAnswers, Goto, At, policyVars
  <2>3. CASE LoadTrail(c)
    BY <2>3 DEF LoadTrail, Auditing, Unaudited, Goto, Return, policyVars
  <2>4. CASE Commit(c)
    BY <2>4 DEF Commit, Audited, Return, policyVars
  <2> QED BY <1>3, <2>1, <2>2, <2>3, <2>4 DEF Runtime
<1>4. CASE PolicyStep
  <2>1. upsets' \in 0 .. MaxUpsets /\ crashed' = crashed
    BY <1>4, UpsetInRange DEF PolicyStep, PolicyNext, Switch, AppendPolicy, WriteCell, SetPolicy
  <2>2. forbidden' \in {forbidden, {}}
    BY <1>4 DEF PolicyStep
  <2> QED BY <1>4, <2>1, <2>2 DEF PolicyStep
<1>5. CASE Crash
  <2>1. upsets' \in 0 .. MaxUpsets /\ crashed'
    BY <1>5, UpsetInRange DEF Crash, Dies
  <2> QED BY <1>5, <2>1 DEF Crash
<1>6. CASE \/ \E c \in Calls : Cancel(c) \/ \E a \in Answers : Answer(c, a)
           \/ \E t \in Tools : Revoke(t)
           \/ Restart
  BY <1>6, UpsetInRange
     DEF Cancel, Answer, Revoke, Restart, PolicyRestart, callVars, policyVars, unswitched
<1> QED BY <1>1, <1>2, <1>3, <1>4, <1>5, <1>6 DEF Next

(* Type correctness, for any constants.                                        *)
THEOREM TypeCorrect == Spec => []TypeOK
<1>1. Shape /\ PolicyShape /\ TypesOK => TypeOK
  <2>1. PolicyShape /\ TypesOK => PolicyTypeOK
    BY DEF PolicyShape, SetterStates, TypesOK, PolicyTypeOK
  <2> QED BY <2>1 DEF Shape, TypesOK, TypeOK, Outcomes, Resolutions
<1>2. Spec => []Shape
  BY Control, PTL DEF ControlOK
<1>3. Shape /\ TypesOK /\ [Next]_vars => TypesOK'
  BY TypesStep
<1> QED BY <1>1, <1>2, <1>3, TypesInit, PolicyShapes, PTL DEF Spec
=============================================================================
