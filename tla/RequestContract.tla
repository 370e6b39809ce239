--------------------------- MODULE RequestContract ---------------------------
(***************************************************************************)
(* What a worker session promises its client (docs/studio/adr/0003,         *)
(* "Exactly one terminal message per request"), with no queue, no threads    *)
(* and no channel: requests are asked, each is answered at most once, and    *)
(* a session closed with a farewell has answered all of them.                *)
(***************************************************************************)
CONSTANTS Requests, Answers

VARIABLES
  asked,    \* requests the worker has taken in
  answers,  \* the answers sent for each request: <<place in what was sent, answer>>
  session   \* "open", "closed" with a farewell, or "lost"

vars == <<asked, answers, session>>

Init ==
  /\ asked = {}
  /\ answers = [r \in Requests |-> {}]
  /\ session = "open"

(* A request keeps its answer, or gets its first one.                         *)
KeepsOrGets(r) ==
  \/ answers'[r] = answers[r]
  \/ /\ r \in asked' /\ answers[r] = {}
     /\ \E a \in answers'[r] : answers'[r] = {a} /\ a[2] \in Answers

Next ==
  /\ session = "open"
  /\ asked \subseteq asked' /\ asked' \subseteq Requests
  /\ DOMAIN answers' = Requests /\ \A r \in Requests : KeepsOrGets(r)
  /\ session' \in {"open", "closed", "lost"}
  /\ session' = "closed" => \A r \in asked' : answers'[r] # {}

Spec == Init /\ [][Next]_vars

(* Unless the session is lost, everything asked is answered.                  *)
Answering == \A r \in Requests :
  (r \in asked) ~> (answers[r] # {} \/ session = "lost")
=============================================================================
