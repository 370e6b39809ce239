---------------------------- MODULE DeepSeekBridge ----------------------------
(***************************************************************************)
(* Tool calls through the DeepSeek bridge: each one asks the ApprovalService  *)
(* (which records the question and its resolution in the durable audit), is    *)
(* authorized again by the SandboxPermissionGate of the runtime, executes, and *)
(* is recorded in the enterprise trail.  Calls run on threads of their own and *)
(* share the policy cell (ApprovalPolicy), the session grants and the files;   *)
(* the answerer runs on a detached thread and may never return.               *)
(***************************************************************************)
EXTENDS ApprovalPolicy

CONSTANTS
  Calls,       \* valid tool calls, each its own thread
  Tools, Tool, \* the tool of a call
  Rule,        \* PermissionPolicy.decide: Allow, Deny, Ask, or Ask by an ask rule
  Escalating,  \* calls that ask for a wider sandbox
  NoCall

ASSUME BridgeAssumption ==
  /\ Tool \in [Calls -> Tools]
  /\ Rule \in [Calls -> {"Allow", "Deny", "Ask", "ExplicitAsk"}]
  /\ Escalating \subseteq Calls /\ NoCall \notin Calls

VARIABLES
  pc,         \* per call: where execute is
  cancelled,  \* tokens that are set
  worker,     \* per call: the channel to its answerer: none, busy, or the answer
  resolution, \* per call: the ApprovalResolution to record
  seen,       \* per call: the lines the record in progress has loaded
  outcome,    \* per call: what execute returned
  audit,      \* the file of FileApprovalAudit
  trail,      \* the file of FileEnterpriseAuditTrail
  holder,     \* the call in the trail's transaction
  session,    \* tools granted for the session
  ran,        \* history: calls whose tool was executed
  early,      \* history: calls cancelled before an answer was there
  asked,      \* history: <<call, channel>> allowed by the operator in person
  forbidden   \* history: calls begun under a firm Never that still stands

callVars == <<pc, cancelled, worker, resolution, seen, outcome, audit, trail, holder,
              session, ran, early, asked, forbidden>>
vars     == <<policyVars, callVars>>

(* What the answerer returns.  The three grants (once, session, persistent) are    *)
(* recorded by their names and treated alike; so are an error and a panic.        *)
Answers == {"Allowed", "Rejected", "fault"}

Init ==
  /\ PolicyInit
  /\ pc = [c \in Calls |-> "new"]
  /\ cancelled = {}
  /\ worker = [c \in Calls |-> "none"]
  /\ resolution = [c \in Calls |-> "none"]
  /\ seen = [c \in Calls |-> <<>>]
  /\ outcome = [c \in Calls |-> "none"]
  /\ audit = <<>> /\ trail = <<>> /\ holder = NoCall
  /\ session = {}
  /\ ran = {} /\ early = {} /\ asked = {} /\ forbidden = {}

Over(c) == pc[c] \in {"done", "lost"}

(* request_resolved has not returned: whoever cancels later is not heard.          *)
Questioned(c) ==
  pc[c] \in {"requesting", "requested", "waiting", "receiving", "received",
            "resolving", "recording"}

(* A step of call c that leads to another place.                               *)
At(c, place)   == up /\ pc[c] = place
Goto(c, place) == pc' = [pc EXCEPT ![c] = place]

Return(c, what) ==
  /\ pc' = [pc EXCEPT ![c] = "done"]
  /\ outcome' = [outcome EXCEPT ![c] = what]

-----------------------------------------------------------------------------
(* request_resolved.                                                         *)

(* The first half of record: the log is loaded, or refused.                      *)
Begin(c) ==
  /\ At(c, "new")
  /\ IF Readable(audit)
     THEN /\ Goto(c, "requesting")
          /\ seen' = [seen EXCEPT ![c] = Bodies(audit)]
          /\ UNCHANGED outcome
     ELSE Return(c, "unavailable") /\ UNCHANGED seen
  /\ forbidden' = IF firm = "Never" THEN forbidden \cup {c} ELSE forbidden
  /\ UNCHANGED <<policyVars, cancelled, worker, resolution, audit, trail, holder,
                 session, ran, early, asked>>

RecordRequested(c) ==
  /\ At(c, "requesting")
  /\ audit' = Written(audit, seen[c], <<c, "Requested">>)
  /\ seen' = [seen EXCEPT ![c] = <<>>]
  /\ Goto(c, "requested")
  /\ UNCHANGED <<policyVars, cancelled, worker, resolution, outcome, trail, holder,
                 session, ran, early, asked, forbidden>>

(* The question is resolved; the channel is dropped, and an answer that comes      *)
(* later goes nowhere.                                                         *)
Resolve(c, r) ==
  /\ resolution' = [resolution EXCEPT ![c] = r]
  /\ worker' = [worker EXCEPT ![c] = "none"]
  /\ Goto(c, "resolving")

(* The token, and then the policy, are looked at once; then the answerer is         *)
(* dispatched, unless there is none or no thread for it.  Mutant: the policy is     *)
(* left to the gate.                                                           *)
Unsupervised == TRUE
Supervised   == cell = "Ask"

Dispatch(c) ==
  /\ At(c, "requested")
  /\ \/ c \in cancelled /\ Resolve(c, "Cancelled")
     \/ c \notin cancelled /\ ~Supervised /\ Resolve(c, "Rejected")
     \/ c \notin cancelled /\ Supervised /\ Resolve(c, "Unavailable")
     \/ /\ c \notin cancelled /\ Supervised
        /\ worker' = [worker EXCEPT ![c] = "busy"]
        /\ Goto(c, "waiting") /\ UNCHANGED resolution
  /\ UNCHANGED <<policyVars, cancelled, seen, outcome, audit, trail, holder, session,
                 ran, early, asked, forbidden>>

Answer(c, a) ==
  /\ up /\ worker[c] = "busy"
  /\ worker' = [worker EXCEPT ![c] = a]
  /\ UNCHANGED <<policyVars, pc, cancelled, resolution, seen, outcome, audit, trail,
                 holder, session, ran, early, asked, forbidden>>

(* Before each interval of waiting the waiter looks at the token.  Mutant: once it    *)
(* waits, it waits for the answer.                                             *)
Deaf(c)  == FALSE
Hears(c) == c \in cancelled

Poll(c) ==
  /\ At(c, "waiting")
  /\ IF Hears(c) THEN Resolve(c, "Cancelled")
                 ELSE Goto(c, "receiving") /\ UNCHANGED <<resolution, worker>>
  /\ UNCHANGED <<policyVars, cancelled, seen, outcome, audit, trail, holder,
                 session, ran, early, asked, forbidden>>

Receive(c) ==
  /\ At(c, "receiving")
  /\ Goto(c, IF worker[c] = "busy" THEN "waiting" ELSE "received")
  /\ UNCHANGED <<policyVars, cancelled, worker, resolution, seen, outcome, audit, trail,
                 holder, session, ran, early, asked, forbidden>>

(* Mutant: no last look at the token.                                         *)
TooLate(c)    == FALSE
LateCancel(c) == c \in cancelled

Judge(c) ==
  /\ At(c, "received")
  /\ Resolve(c, IF worker[c] = "fault" THEN "Unavailable"
                ELSE IF LateCancel(c) THEN "Cancelled" ELSE worker[c])
  /\ UNCHANGED <<policyVars, cancelled, seen, outcome, audit, trail, holder,
                 session, ran, early, asked, forbidden>>

LoadAudit(c) ==
  /\ At(c, "resolving")
  /\ IF Readable(audit)
     THEN /\ Goto(c, "recording")
          /\ seen' = [seen EXCEPT ![c] = Bodies(audit)]
          /\ UNCHANGED outcome
     ELSE Return(c, "unavailable") /\ UNCHANGED seen
  /\ UNCHANGED <<policyVars, cancelled, worker, resolution, audit, trail, holder,
                 session, ran, early, asked, forbidden>>

(* Mutant: the resolution of a grant is recorded by somebody else, later.        *)
RequestsOnly(c) == audit
ResolvedLine(c) == Written(audit, seen[c], <<c, resolution[c]>>)

RecordResolved(c) ==
  /\ At(c, "recording")
  /\ audit' = ResolvedLine(c)
  /\ seen' = [seen EXCEPT ![c] = <<>>]
  /\ CASE resolution[c] = "Cancelled"   -> Return(c, "cancelled")
       [] resolution[c] = "Unavailable" -> Return(c, "unavailable")
       [] resolution[c] = "Rejected"    -> Goto(c, "auditing") /\ UNCHANGED outcome
       [] OTHER                         -> Goto(c, "authorizing") /\ UNCHANGED outcome
  /\ UNCHANGED <<policyVars, cancelled, worker, resolution, trail, holder, session, ran, early, asked, forbidden>>

-----------------------------------------------------------------------------
(* ToolRuntime::execute under the SandboxPermissionGate.                       *)

(* A remembered grant does not satisfy an explicit ask rule.                    *)
Remembered(c) == Rule[c] # "ExplicitAsk" /\ Tool[c] \in session

Authorize(c) ==
  /\ At(c, "authorizing")
  /\ Goto(c, CASE Rule[c] = "Allow" -> "permitted"
               [] Rule[c] = "Deny"  -> "failed"
               [] OTHER -> IF Remembered(c) THEN "permitted"
                           ELSE IF cell = "Never" THEN "failed" ELSE "gateAsking")
  /\ UNCHANGED <<policyVars, cancelled, worker, resolution, seen, outcome, audit,
                 trail, holder, session, ran, early, asked, forbidden>>

(* The gate's own approver, which nothing interrupts: once, for the session or for   *)
(* good (which is for the session too), or no (a refusal, an error, nobody to ask).  *)
GateAnswers(c) ==
  /\ At(c, "gateAsking")
  /\ \/ Goto(c, "failed") /\ UNCHANGED <<session, asked>>
     \/ /\ Goto(c, "permitted") /\ asked' = asked \cup {<<c, "tool">>}
        /\ session' = session \/ session' = session \cup {Tool[c]}
  /\ UNCHANGED <<policyVars, cancelled, worker, resolution, seen, outcome, audit,
                 trail, holder, ran, early, forbidden>>

(* A wider sandbox is a question of its own.  Mutant: a session grant answers it.   *)
UnlessGranted(c) == c \in Escalating /\ Tool[c] \notin session
Escalates(c)     == c \in Escalating

Escalation(c) ==
  /\ At(c, "permitted")
  /\ Goto(c, IF ~Escalates(c) THEN "running"
             ELSE IF cell = "Never" THEN "failed" ELSE "escalating")
  /\ UNCHANGED <<policyVars, cancelled, worker, resolution, seen, outcome, audit,
                 trail, holder, session, ran, early, asked, forbidden>>

EscalationAnswers(c) ==
  /\ At(c, "escalating")
  /\ \/ Goto(c, "failed") /\ UNCHANGED asked
     \/ Goto(c, "running") /\ asked' = asked \cup {<<c, "sandbox">>}
  /\ UNCHANGED <<policyVars, cancelled, worker, resolution, seen, outcome, audit,
                 trail, holder, session, ran, early, forbidden>>

(* The tool's effects happen; its output may still be a governance failure.      *)
Execute(c) ==
  /\ At(c, "running")
  /\ ran' = ran \cup {c}
  /\ Goto(c, "auditing") \/ Goto(c, "failed")
  /\ UNCHANGED <<policyVars, cancelled, worker, resolution, seen, outcome, audit,
                 trail, holder, session, early, asked, forbidden>>

-----------------------------------------------------------------------------
(* audit_execution.  Mutant: no transaction.                                  *)
Open(c)  == TRUE
Enter(c) == holder = NoCall

Auditing(c) == pc[c] \in {"auditing", "failed"}

Decision(c) ==
  IF pc[c] \in {"failed", "failedCommit"} THEN "failed"
  ELSE IF resolution[c] = "Rejected" THEN "rejected" ELSE "executed"

(* What execute returns when the record was made (mutant: its decision), and when   *)
(* it was refused (mutant: the tool has run, after all).                         *)
Audited(c) == CASE Decision(c) = "executed" -> "output"
                [] Decision(c) = "rejected" -> "rejected"
                [] OTHER                    -> "error"

OutputAnyway(c) == Audited(c)
Unaudited(c)    == "error"

LoadTrail(c) ==
  /\ up /\ Auditing(c) /\ Enter(c)
  /\ IF Readable(trail)
     THEN /\ Goto(c, IF pc[c] = "failed" THEN "failedCommit" ELSE "commit")
          /\ seen' = [seen EXCEPT ![c] = Bodies(trail)]
          /\ holder' = c /\ UNCHANGED outcome
     ELSE Return(c, Unaudited(c)) /\ UNCHANGED <<seen, holder>>
  /\ UNCHANGED <<policyVars, cancelled, worker, resolution, audit, trail, session, ran, early, asked, forbidden>>

Commit(c) ==
  /\ up /\ pc[c] \in {"commit", "failedCommit"}
  /\ trail' = Written(trail, seen[c], <<c, Decision(c)>>)
  /\ seen' = [seen EXCEPT ![c] = <<>>]
  /\ holder' = NoCall
  /\ Return(c, Audited(c))
  /\ UNCHANGED <<policyVars, cancelled, worker, resolution, audit, session,
                 ran, early, asked, forbidden>>

-----------------------------------------------------------------------------
(* The surroundings: cancellation, revocation, the policy, crashes.              *)

Unanswered(c) ==
  \/ pc[c] \in {"requesting", "requested"}
  \/ pc[c] \in {"waiting", "receiving"} /\ worker[c] = "busy"

unswitched == <<up, cell, policyLog, setter, firm, crashed>>

Cancel(c) ==
  /\ up /\ c \notin cancelled /\ Questioned(c)
  /\ cancelled' = cancelled \cup {c}
  /\ early' = IF Unanswered(c) THEN early \cup {c} ELSE early
  /\ Upset /\ UNCHANGED unswitched
  /\ UNCHANGED <<pc, worker, resolution, seen, outcome, audit, trail,
                 holder, session, ran, asked, forbidden>>

Revoke(t) ==
  /\ up /\ t \in session
  /\ session' = session \ {t}
  /\ Upset /\ UNCHANGED unswitched
  /\ UNCHANGED <<pc, cancelled, worker, resolution, seen, outcome, audit,
                 trail, holder, ran, early, asked, forbidden>>

PolicyStep ==
  /\ PolicyNext
  /\ forbidden' = IF firm' = "Never" THEN forbidden ELSE {}
  /\ UNCHANGED <<pc, cancelled, worker, resolution, seen, outcome, audit, trail,
                 holder, session, ran, early, asked>>

(* What is in memory is gone.  One write in progress may be cut.                 *)
CutAudit ==
  \E c \in Calls :
    \/ /\ pc[c] = "requesting"
       /\ audit' \in CutShort(audit, seen[c], <<c, "Requested">>, Cuts)
    \/ /\ pc[c] = "recording"
       /\ audit' \in CutShort(audit, seen[c], <<c, resolution[c]>>, Cuts)

CutTrail ==
  \E c \in Calls :
    /\ pc[c] \in {"commit", "failedCommit"}
    /\ trail' \in CutShort(trail, seen[c], <<c, Decision(c)>>, Cuts)

Crash ==
  /\ Dies
  /\ pc' = [c \in Calls |-> IF pc[c] \in {"new", "done"} THEN pc[c] ELSE "lost"]
  /\ seen' = [c \in Calls |-> <<>>]
  /\ worker' = [c \in Calls |-> "none"] /\ resolution' = [c \in Calls |-> "none"]
  /\ cancelled' = {}
  /\ holder' = NoCall /\ session' = {}
  /\ \/ UNCHANGED <<policyLog, audit, trail>>
     \/ CutPolicyLog /\ UNCHANGED <<audit, trail>>
     \/ CutAudit /\ UNCHANGED <<policyLog, trail>>
     \/ CutTrail /\ UNCHANGED <<policyLog, audit>>
  /\ UNCHANGED <<outcome, ran, early, asked, forbidden>>

Restart == PolicyRestart /\ UNCHANGED callVars

Supervise(c) ==
  \/ Begin(c) \/ RecordRequested(c) \/ Dispatch(c) \/ Poll(c)
  \/ Receive(c) \/ Judge(c) \/ LoadAudit(c) \/ RecordResolved(c)

Runtime(c) ==
  \/ Authorize(c) \/ GateAnswers(c)
  \/ Escalation(c) \/ EscalationAnswers(c) \/ Execute(c)
  \/ LoadTrail(c) \/ Commit(c)

Next ==
  \/ \E c \in Calls : Supervise(c) \/ Runtime(c) \/ Cancel(c)
  \/ \E c \in Calls, a \in Answers : Answer(c, a)
  \/ \E t \in Tools : Revoke(t)
  \/ PolicyStep \/ Crash \/ Restart

Spec == Init /\ [][Next]_vars

(* The thread of a call is scheduled; neither the answerer nor an operator has to   *)
(* answer, and nobody has to restart the process.                              *)
FairSpec == Spec /\ \A c \in Calls : WF_vars(Supervise(c))

-----------------------------------------------------------------------------
(* Properties.                                                               *)

(* The variables have their types.                                            *)
TypeOK ==
  /\ PolicyTypeOK
  /\ cancelled \subseteq Calls /\ early \subseteq Calls /\ ran \subseteq Calls
  /\ forbidden \subseteq Calls /\ session \subseteq Tools
  /\ asked \subseteq Calls \X {"tool", "sandbox"}
  /\ holder \in Calls \cup {NoCall}
  /\ \A c \in Calls :
       /\ worker[c] \in Answers \cup {"none", "busy"}
       /\ resolution[c] \in {"none", "Allowed", "Rejected", "Cancelled", "Unavailable"}
       /\ outcome[c] \in {"none", "output", "rejected", "error", "cancelled",
                          "unavailable"}
       /\ (outcome[c] # "none") = (pc[c] = "done")

(* A cancellation that comes before the answer wins: the call never executes,      *)
(* however late the answerer returns and whatever it says.                      *)
CancelledNeverRuns == early \cap ran = {}

(* No authority without its record: a call that executed has its question and the   *)
(* grant in the durable audit, the one before the other.                        *)
GrantIsRecorded ==
  \A c \in ran :
    \E i, j \in DOMAIN audit :
      /\ i < j /\ Parses(audit[i]) /\ Parses(audit[j])
      /\ audit[i].body = <<c, "Requested">>
      /\ audit[j].body = <<c, "Allowed">>

(* After a switch to Never has been acknowledged no new call executes, not even     *)
(* after a crash and a restart, until somebody switches again.                   *)
NeverIsObeyed == forbidden \cap ran = {}

(* A grant remembered for the session neither answers an explicit ask rule nor      *)
(* widens a sandbox: those calls were allowed by an operator, in person.         *)
EachChannelIsAsked ==
  \A c \in ran :
    /\ Rule[c] = "ExplicitAsk" => <<c, "tool">> \in asked
    /\ c \in Escalating => <<c, "sandbox">> \in asked

(* The enterprise trail is never forked: concurrent calls append to it one after     *)
(* the other, and only a crash can cut its last line.                            *)
TrailIsChained ==
  \A i \in DOMAIN trail :
    /\ Follows(trail, i)
    /\ trail[i].state = "whole" \/ (i = Len(trail) /\ crashed)

(* No unaudited success: what reaches the model has its record in the trail.  Not   *)
(* so after a cut that leaves a line whole but for its newline, which the next      *)
(* record then shares: Cuts must not contain "unended" (NoSilentCut).              *)
OutputIsAudited ==
  \A c \in Calls :
    outcome[c] = "output" =>
      \E i \in DOMAIN trail : trail[i].body = <<c, "executed">> /\ Parses(trail[i])

(* A cancelled question is over, even if the answerer never returns.               *)
CancelIsHeard == \A c \in Calls : (c \in early) ~> ~Questioned(c)

(* durable_audit.rs says that the order of the audit is deterministic and that a     *)
(* restart replays it exactly; with no crash and no fault it can always be read.   *)
AuditReplays == Readable(audit)
=============================================================================
