---------------------------- MODULE ApprovalPolicy ----------------------------
(***************************************************************************)
(* The approval policy of a SciAgent session: the cell PermissionGate and      *)
(* ApprovalService share, and the FileApprovalPolicyStore that outlives the    *)
(* process.  A switch through the gate is appended to the log, then written    *)
(* to the cell, with no lock over the two; append itself reads the whole log   *)
(* and then writes a line.                                                   *)
(***************************************************************************)
EXTENDS ChainedLog, FiniteSets

CONSTANTS
  Setters,       \* threads that switch the policy through the gate
  Cuts,          \* what a write cut by a crash may leave: "torn", "unended"
  MaxUpsets      \* bound: switches, crashes, cancellations and revocations

ASSUME PolicyAssumption ==
  /\ Cuts \subseteq {"torn", "unended"}
  /\ MaxUpsets \in Nat

VARIABLES
  up,         \* the process runs
  cell,       \* the SharedApprovalPolicy
  policyLog,  \* the file of the policy store
  setter,     \* per setter: "idle", or what it wants and the events it loaded
  firm,       \* history: the last switch was acknowledged and none began since
  upsets,     \* how many of the bounded events have happened
  crashed     \* history: the process died once

policyVars == <<up, cell, policyLog, setter, firm, upsets, crashed>>

Upset == upsets < MaxUpsets /\ upsets' = upsets + 1

Policies == {"Ask", "Never"}
Idle     == [at |-> "idle", want |-> "Ask", seen |-> <<>>]

PolicyInit ==
  /\ up = TRUE /\ cell = "Ask" /\ policyLog = <<>>
  /\ setter = [s \in Setters |-> Idle]
  /\ firm = "none" /\ upsets = 0 /\ crashed = FALSE

Effective == IF policyLog = <<>> THEN "Ask" ELSE policyLog[Len(policyLog)].body

(* Bound: nobody asks for what is in force and on record.                       *)
Changes(p) == p # cell \/ p # Effective

(* set_approval_policy: append loads the log, and is refused when it is corrupt.  *)
Switch(s, p) ==
  /\ up /\ Upset
  /\ setter[s].at = "idle" /\ Changes(p)
  /\ firm' = "none"
  /\ setter' = IF Readable(policyLog)
               THEN [setter EXCEPT ![s] =
                       [at |-> "append", want |-> p, seen |-> Bodies(policyLog)]]
               ELSE setter
  /\ UNCHANGED <<up, cell, policyLog, crashed>>

(* Mutant: the policy is in force before it is in the log.                      *)
CellOnly(s) == policyLog
LogLine(s)  == Written(policyLog, setter[s].seen, setter[s].want)

AppendPolicy(s) ==
  /\ up /\ setter[s].at = "append"
  /\ policyLog' = LogLine(s)
  /\ setter' = [setter EXCEPT ![s].at = "write"]
  /\ UNCHANGED <<up, cell, firm, upsets, crashed>>

WriteCell(s) ==
  /\ up /\ setter[s].at = "write"
  /\ cell' = setter[s].want
  /\ setter' = [setter EXCEPT ![s] = Idle]
  /\ firm' = IF \A t \in Setters \ {s} : setter[t].at = "idle"
             THEN setter[s].want ELSE "none"
  /\ UNCHANGED <<up, policyLog, upsets, crashed>>

(* ApprovalService::set_policy on a shared source: the cell, and nothing else.    *)
SetPolicy(p) ==
  /\ up /\ Upset
  /\ p # cell /\ cell' = p /\ firm' = "none"
  /\ UNCHANGED <<up, policyLog, setter, crashed>>

(* The process dies; the line a setter was writing may be cut.                   *)
Dies ==
  /\ up /\ Upset /\ crashed' = TRUE
  /\ up' = FALSE /\ cell' = "Ask"
  /\ setter' = [s \in Setters |-> Idle]
  /\ UNCHANGED firm

CutPolicyLog ==
  \E s \in Setters :
    /\ setter[s].at = "append"
    /\ policyLog' \in CutShort(policyLog, setter[s].seen, setter[s].want, Cuts)

(* with_approval_policy_store: no gate is built over a log that does not verify.  *)
PolicyRestart ==
  /\ ~up /\ Readable(policyLog)
  /\ up' = TRUE /\ cell' = Effective
  /\ UNCHANGED <<policyLog, setter, firm, upsets, crashed>>

PolicyNext ==
  \/ \E s \in Setters :
       (\E p \in Policies : Switch(s, p)) \/ AppendPolicy(s) \/ WriteCell(s)
  \/ \E p \in Policies : SetPolicy(p)

PolicyTypeOK ==
  /\ up \in BOOLEAN /\ cell \in Policies /\ firm \in Policies \cup {"none"}
  /\ \A s \in Setters :
       /\ setter[s].at \in {"idle", "append", "write"}
       /\ setter[s].want \in Policies /\ setter[s].seen \in Seq(Policies)
  /\ upsets \in 0 .. MaxUpsets /\ crashed \in BOOLEAN

(* A switch made through the gate and acknowledged is in force as long as nobody   *)
(* makes another, whatever crashes and restarts come in between: it was in the    *)
(* log before it was in the cell.                                            *)
SwitchSurvives == up /\ firm # "none" => cell = firm
=============================================================================
