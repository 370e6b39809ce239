------------------------- MODULE ApprovalPolicyProofs -------------------------
(***************************************************************************)
(* What an append does to a chained file, and what any step does to the        *)
(* approval policy, for any number of switches and crashes.  That a switch     *)
(* survives needs an assumption: one thread at a time switches the policy      *)
(* (nothing orders two of them, neither in the log nor in the cell).           *)
(***************************************************************************)
EXTENDS ApprovalPolicy, SequenceTheorems, TLAPS

-----------------------------------------------------------------------------
(* What an append does to a chained file, for any bodies.                      *)

Endings   == {"whole", "unended", "torn", "garbled"}
LineOf(S) == [after : Seq(S), body : S, state : Endings]
LogOf(S)  == Seq(LineOf(S))

AllWhole(log) == \A i \in 1 .. Len(log) : log[i].state = "whole"
Chained(log)  == \A i \in 1 .. Len(log) : Follows(log, i)

LEMMA BodiesOfLog ==
  ASSUME NEW S, NEW log \in LogOf(S)
  PROVE  /\ Bodies(log) \in Seq(S)
         /\ Len(Bodies(log)) = Len(log)
         /\ \A i \in 1 .. Len(log) : Bodies(log)[i] = log[i].body
<1>1. DOMAIN log = 1 .. Len(log) /\ Len(log) \in Nat
  BY DEF LogOf
<1>2. \A i \in 1 .. Len(log) : log[i] \in LineOf(S)
  BY DEF LogOf
<1>3. \A i \in 1 .. Len(log) : log[i].body \in S
  BY <1>2 DEF LineOf
<1>4. Bodies(log) = [i \in 1 .. Len(log) |-> log[i].body]
  BY <1>1 DEF Bodies
<1> QED BY <1>1, <1>3, <1>4

(* An append touches no line but the last, and that one only when it has no       *)
(* newline; what it adds is the given line.                                    *)
Extends(S, log, line, new) ==
  /\ new \in LogOf(S)
  /\ Len(new) \in {Len(log), Len(log) + 1}
  /\ \A i \in 1 .. Len(log) :
       /\ new[i].body = log[i].body /\ new[i].after = log[i].after
       /\ log[i].state = "whole" => new[i] = log[i]
       /\ i < Len(log) => new[i] = log[i]
       /\ new[i].state \in {log[i].state, "garbled", "torn"}
  /\ Len(new) = Len(log) + 1 =>
       /\ new[Len(new)] = line
       /\ \A i \in 1 .. Len(log) : new[i] = log[i]
       /\ Len(log) > 0 => log[Len(log)].state \in {"whole", "garbled"}

LEMMA AppendedExtends ==
  ASSUME NEW S, NEW log \in LogOf(S), NEW line \in LineOf(S)
  PROVE  Extends(S, log, line, Appended(log, line))
<1> DEFINE n == Len(log)  new == Appended(log, line)
<1>1. n \in Nat /\ DOMAIN log = 1 .. n /\ \A i \in 1 .. n : log[i] \in LineOf(S)
  BY DEF LogOf
<1>2. CASE n > 0 /\ log[n].state \in {"unended", "torn"}
  <2> DEFINE how == IF line.state = "whole" THEN "garbled" ELSE "torn"
  <2>1. new = [log EXCEPT ![n].state = how]
    BY <1>2 DEF Appended
  <2>2. [log[n] EXCEPT !.state = how] \in LineOf(S)
    BY <1>1, <1>2 DEF LineOf, Endings
  <2>3. new \in LogOf(S) /\ Len(new) = n
    BY <1>1, <1>2, <2>1, <2>2 DEF LogOf
  <2>4. \A i \in 1 .. n : i # n => new[i] = log[i]
    BY <1>1, <2>1
  <2>5. /\ new[n].body = log[n].body /\ new[n].after = log[n].after
        /\ new[n].state \in {"garbled", "torn"}
    BY <1>1, <1>2, <2>1 DEF LineOf
  <2> HIDE DEF n, new, how
  <2>6. \A i \in 1 .. n :
          /\ new[i].body = log[i].body /\ new[i].after = log[i].after
          /\ log[i].state = "whole" => new[i] = log[i]
          /\ i < n => new[i] = log[i]
          /\ new[i].state \in {log[i].state, "garbled", "torn"}
    <3> SUFFICES ASSUME NEW i \in 1 .. n
                 PROVE  /\ new[i].body = log[i].body /\ new[i].after = log[i].after
                        /\ log[i].state = "whole" => new[i] = log[i]
                        /\ i < n => new[i] = log[i]
                        /\ new[i].state \in {log[i].state, "garbled", "torn"}
      OBVIOUS
    <3>1. CASE i = n
      <4>1. log[i].state # "whole" /\ ~(i < n)
        BY <1>1, <1>2, <3>1
      <4> QED BY <2>5, <3>1, <4>1
    <3>2. CASE i # n
      <4>1. new[i] = log[i]
        BY <2>4, <3>2
      <4> QED BY <4>1
    <3> QED BY <3>1, <3>2
  <2>7. Len(new) \in {n, n + 1} /\ ~(Len(new) = n + 1)
    BY <1>1, <2>3
  <2>8. Extends(S, log, line, new)
    BY <2>3, <2>6, <2>7, Zenon DEF Extends, n
  <2> QED BY <2>8 DEF new
<1>3. CASE ~(n > 0 /\ log[n].state \in {"unended", "torn"})
  <2>1. new = Append(log, line)
    BY <1>3 DEF Appended
  <2>2. new \in LogOf(S) /\ Len(new) = n + 1 /\ new[n + 1] = line
        /\ \A i \in 1 .. n : new[i] = log[i]
    BY <1>1, <2>1 DEF LogOf
  <2>3. n > 0 => log[n].state \in {"whole", "garbled"}
    BY <1>1, <1>3 DEF LineOf, Endings
  <2> HIDE DEF new
  <2>4. \A i \in 1 .. n :
          /\ new[i].body = log[i].body /\ new[i].after = log[i].after
          /\ log[i].state = "whole" => new[i] = log[i]
          /\ i < n => new[i] = log[i]
          /\ new[i].state \in {log[i].state, "garbled", "torn"}
    BY <2>2, Zenon
  <2>5. Len(new) \in {n, n + 1} /\ new[Len(new)] = line
    BY <2>2
  <2>6. Extends(S, log, line, new)
    BY <2>2, <2>3, <2>4, <2>5, Zenon DEF Extends
  <2> QED BY <2>6 DEF new
<1> QED BY <1>2, <1>3

LEMMA WrittenWhole ==
  ASSUME NEW S, NEW log \in LogOf(S), AllWhole(log), NEW after \in Seq(S), NEW body \in S
  PROVE  LET new == Written(log, after, body) IN
         /\ AllWhole(new)
         /\ Len(new) = Len(log) + 1
         /\ new[Len(new)].body = body
<1> DEFINE line == Line(after, body, "whole")
<1>1. line \in LineOf(S) /\ line.state = "whole" /\ line.body = body
  BY DEF Line, LineOf, Endings
<1>2. Written(log, after, body) = Append(log, line)
  BY DEF Written, Appended, AllWhole, LogOf
<1> HIDE DEF line
<1> QED BY <1>1, <1>2 DEF AllWhole, LogOf

(* A readable file of which no line lacks just its newline is whole.              *)
NoUnended(log) == \A i \in 1 .. Len(log) : log[i].state # "unended"

LEMMA ReadableIsWhole ==
  ASSUME NEW S, NEW log \in LogOf(S), Readable(log), NoUnended(log)
  PROVE  AllWhole(log)
BY DEF Readable, Parses, NoUnended, AllWhole, LogOf

LEMMA NoUnendedStays ==
  ASSUME NEW S, NEW log \in LogOf(S), NEW line \in LineOf(S), NoUnended(log),
         line.state # "unended"
  PROVE  NoUnended(Appended(log, line))
<1> DEFINE new == Appended(log, line)
<1>0. Extends(S, log, line, new)
  BY AppendedExtends
<1> HIDE DEF new
<1>1. /\ Len(log) \in Nat /\ Len(new) \in {Len(log), Len(log) + 1}
      /\ \A i \in 1 .. Len(log) : new[i].state \in {log[i].state, "garbled", "torn"}
      /\ Len(new) = Len(log) + 1 => new[Len(new)] = line
  BY <1>0 DEF Extends, LogOf
<1>2. \A i \in 1 .. Len(log) : new[i].state # "unended"
  BY <1>1 DEF NoUnended
<1>3. NoUnended(new)
  BY <1>1, <1>2 DEF NoUnended
<1> QED BY <1>3 DEF new

(* A file whose last line has its newline: the next one gets a line of its own.     *)
Ended(log)     == Len(log) > 0 => log[Len(log)].state \in {"whole", "garbled"}
IsGarbled(log) == \E i \in 1 .. Len(log) : log[i].state = "garbled"

OnRecord(log, body) == \E i \in 1 .. Len(log) : log[i].state = "whole" /\ log[i].body = body

LEMMA GarbledIsUnreadable ==
  ASSUME NEW S, NEW log \in LogOf(S), IsGarbled(log) PROVE ~Readable(log)
BY DEF IsGarbled, Readable, Parses, LogOf

(* A whole write ends the file, and is on record if the file was ended; otherwise     *)
(* it has garbled the last line, for good.                                       *)
LEMMA WrittenEnds ==
  ASSUME NEW S, NEW log \in LogOf(S), NEW after \in Seq(S), NEW body \in S
  PROVE  LET new == Written(log, after, body) IN
         /\ Ended(new)
         /\ IsGarbled(log) => IsGarbled(new)
         /\ OnRecord(new, body) \/ IsGarbled(new)
         /\ ~IsGarbled(new) => new # <<>> /\ new[Len(new)].body = body
         /\ Ended(log) => /\ Len(new) = Len(log) + 1
                          /\ new[Len(new)].state = "whole" /\ new[Len(new)].body = body
<1> DEFINE n == Len(log)  new == Written(log, after, body)  line == Line(after, body, "whole")
<1>0. /\ n \in Nat /\ DOMAIN log = 1 .. n /\ \A i \in 1 .. n : log[i] \in LineOf(S)
      /\ line \in LineOf(S) /\ line.state = "whole" /\ line.body = body
  <2>1. n \in Nat /\ DOMAIN log = 1 .. n /\ \A i \in 1 .. n : log[i] \in LineOf(S)
    BY DEF LogOf
  <2>2. line \in LineOf(S) /\ line.state = "whole" /\ line.body = body
    BY DEF Line, LineOf, Endings
  <2> QED BY <2>1, <2>2
<1>1. CASE n > 0 /\ log[n].state \in {"unended", "torn"}
  <2>1. new = [log EXCEPT ![n].state = "garbled"]
    BY <1>0, <1>1 DEF Written, Appended
  <2>2. /\ Len(new) = n /\ new[n].state = "garbled"
        /\ \A i \in 1 .. n : i # n => new[i] = log[i]
    BY <1>0, <1>1, <2>1 DEF LogOf, LineOf
  <2> HIDE DEF new, line
  <2>3. n \in 1 .. Len(new)
    <3>1. n \in 1 .. n
      <4> HIDE DEF n
      <4> QED BY <1>0, <1>1
    <3> QED BY <2>2, <3>1, Zenon
  <2>4. IsGarbled(new)
    BY <2>2, <2>3, Zenon DEF IsGarbled
  <2>5. ~Ended(log) /\ Ended(new)
    BY <1>0, <1>1, <2>2 DEF Ended
  <2> QED BY <2>4, <2>5 DEF new
<1>2. CASE ~(n > 0 /\ log[n].state \in {"unended", "torn"})
  <2>1. new = Append(log, line)
    BY <1>2 DEF Written, Appended
  <2>2. /\ Len(new) = n + 1 /\ new[n + 1] = line
        /\ \A i \in 1 .. n : new[i] = log[i]
    BY <1>0, <2>1 DEF LogOf
  <2> HIDE DEF new, line
  <2>3. OnRecord(new, body) /\ Ended(new) /\ new # <<>>
    BY <1>0, <2>2 DEF OnRecord, Ended
  <2>4. IsGarbled(log) => IsGarbled(new)
    BY <1>0, <2>2 DEF IsGarbled
  <2>5. new[Len(new)].state = "whole" /\ new[Len(new)].body = body
    BY <1>0, <2>2
  <2> QED BY <2>2, <2>3, <2>4, <2>5 DEF new
<1> QED BY <1>1, <1>2

(* What was written whole stays.                                               *)
Keeps(log, new) ==
  /\ Len(new) >= Len(log)
  /\ \A i \in 1 .. Len(log) : log[i].state = "whole" => new[i] = log[i]

LEMMA AppendedIsKeeping ==
  ASSUME NEW S, NEW log \in LogOf(S), NEW line \in LineOf(S)
  PROVE  Appended(log, line) \in LogOf(S) /\ Keeps(log, Appended(log, line))
<1> DEFINE new == Appended(log, line)
<1>1. /\ new \in LogOf(S) /\ Len(log) \in Nat
      /\ Len(new) \in {Len(log), Len(log) + 1}
      /\ \A i \in 1 .. Len(log) : log[i].state = "whole" => new[i] = log[i]
  <2>1. Extends(S, log, line, new)
    BY AppendedExtends
  <2>2. Len(log) \in Nat
    BY DEF LogOf
  <2> QED BY <2>1, <2>2, Zenon DEF Extends
<1> HIDE DEF new
<1>2. new \in LogOf(S) /\ Keeps(log, new)
  BY <1>1 DEF Keeps
<1> QED BY <1>2 DEF new

(* A line goes on following the ones before it.                                *)
LEMMA FollowsStays ==
  ASSUME NEW S, NEW log \in LogOf(S), NEW new \in LogOf(S), NEW i \in 1 .. Len(log),
         Len(new) >= Len(log), new[i].after = log[i].after,
         \A j \in 1 .. Len(log) : new[j].body = log[j].body,
         Follows(log, i)
  PROVE  Follows(new, i)
<1>1. /\ Len(log) \in Nat /\ Len(new) \in Nat
      /\ \A j \in 1 .. Len(log) : Bodies(new)[j] = Bodies(log)[j]
  BY BodiesOfLog DEF LogOf
<1>2. SubSeq(Bodies(new), 1, i - 1) = SubSeq(Bodies(log), 1, i - 1)
  BY <1>1, BodiesOfLog
<1> QED BY <1>2 DEF Follows

(* A line written by somebody who has read the whole file keeps the chain.        *)
LEMMA ChainGrows ==
  ASSUME NEW S, NEW log \in LogOf(S), Chained(log), NEW line \in LineOf(S),
         line.after = Bodies(log)
  PROVE  Chained(Appended(log, line))
<1> DEFINE new == Appended(log, line)
<1>1. /\ new \in LogOf(S) /\ Len(log) \in Nat
      /\ Len(new) \in {Len(log), Len(log) + 1}
      /\ \A i \in 1 .. Len(log) : new[i].body = log[i].body /\ new[i].after = log[i].after
      /\ Len(new) = Len(log) + 1 => new[Len(new)] = line
  BY AppendedExtends DEF Extends, LogOf
<1> HIDE DEF new
<1>2. ASSUME NEW i \in 1 .. Len(log) PROVE Follows(new, i)
  BY <1>1, FollowsStays DEF Chained
<1>3. ASSUME Len(new) = Len(log) + 1 PROVE Follows(new, Len(new))
  <2>1. new[Len(new)].after = Bodies(log)
    BY <1>1, <1>3
  <2>2. /\ Bodies(log) \in Seq(S) /\ Bodies(new) \in Seq(S)
        /\ Len(Bodies(log)) = Len(log) /\ Len(Bodies(new)) = Len(new)
        /\ \A j \in 1 .. Len(log) : Bodies(new)[j] = Bodies(log)[j]
    BY <1>1, <1>3, BodiesOfLog
  <2>3. SubSeq(Bodies(new), 1, Len(log)) = Bodies(log)
    BY <1>1, <1>3, <2>2
  <2> QED BY <1>1, <1>3, <2>1, <2>3 DEF Follows
<1> QED BY <1>1, <1>2, <1>3 DEF Chained, new

-----------------------------------------------------------------------------
(* The policy.                                                               *)

OneSetter == \A s, t \in Setters : s = t

PolicyMove ==
  \/ PolicyNext
  \/ Dies /\ (UNCHANGED policyLog \/ CutPolicyLog)
  \/ PolicyRestart
  \/ UNCHANGED <<up, cell, policyLog, setter, firm>>

SetterStates == [at : {"idle", "append", "write"}, want : Policies, seen : Seq(Policies)]

PolicyShape ==
  /\ up \in BOOLEAN /\ cell \in Policies /\ firm \in Policies \cup {"none"}
  /\ policyLog \in LogOf(Policies)
  /\ setter \in [Setters -> SetterStates]

LEMMA PolicyShapeInit == PolicyInit => PolicyShape
BY DEF PolicyInit, PolicyShape, SetterStates, Policies, Idle, LogOf

LEMMA EffectiveIsPolicy ==
  ASSUME PolicyShape PROVE Effective \in Policies /\ Bodies(policyLog) \in Seq(Policies)
<1>1. CASE policyLog = <<>>
  BY <1>1, BodiesOfLog DEF PolicyShape, Effective, Policies
<1>2. CASE policyLog # <<>>
  <2>1. Len(policyLog) \in 1 .. Len(policyLog)
    BY <1>2 DEF PolicyShape, LogOf
  <2>2. policyLog[Len(policyLog)] \in LineOf(Policies)
    BY <2>1 DEF PolicyShape, LogOf
  <2>3. policyLog[Len(policyLog)].body \in Policies
    BY <2>2 DEF LineOf
  <2> QED BY <1>2, <2>3, BodiesOfLog DEF PolicyShape, Effective
<1> QED BY <1>1, <1>2

(* What a setter may add to the log: its line, whole or cut.                     *)
LEMMA PolicyLine ==
  ASSUME PolicyShape, NEW s \in Setters, NEW how \in {"whole"} \cup Cuts
  PROVE  Line(setter[s].seen, setter[s].want, how) \in LineOf(Policies)
BY PolicyAssumption DEF PolicyShape, SetterStates, Line, LineOf, Endings

LEMMA PolicyLogStep ==
  ASSUME PolicyShape, PolicyMove
  PROVE  \/ policyLog' = policyLog
         \/ \E s \in Setters, how \in {"whole"} \cup Cuts :
              /\ setter[s].at = "append" /\ (how # "whole" => Dies)
              /\ policyLog' = Appended(policyLog, Line(setter[s].seen, setter[s].want, how))
<1>1. CASE PolicyNext
  BY <1>1 DEF PolicyNext, Switch, AppendPolicy, LogLine, Written, WriteCell, SetPolicy
<1>2. CASE Dies /\ CutPolicyLog
  BY <1>2 DEF CutPolicyLog, CutShort
<1> QED BY <1>1, <1>2 DEF PolicyMove, PolicyRestart

LEMMA PolicyShapeStep == ASSUME PolicyShape, PolicyMove PROVE PolicyShape'
<1> USE DEF PolicyShape
<1>1. policyLog' \in LogOf(Policies)
  BY PolicyLogStep, PolicyLine, AppendedIsKeeping
<1>2. /\ up' \in BOOLEAN /\ cell' \in Policies /\ firm' \in Policies \cup {"none"}
      /\ setter' \in [Setters -> SetterStates]
  <2> USE DEF SetterStates
  <2>1. ASSUME NEW s \in Setters, NEW p \in Policies, Switch(s, p)
        PROVE  setter' \in [Setters -> SetterStates] /\ UNCHANGED <<up, cell>> /\ firm' = "none"
    BY <2>1, EffectiveIsPolicy DEF Switch
  <2>2. ASSUME NEW s \in Setters, AppendPolicy(s)
        PROVE  setter' \in [Setters -> SetterStates] /\ UNCHANGED <<up, cell, firm>>
    BY <2>2 DEF AppendPolicy
  <2>3. ASSUME NEW s \in Setters, WriteCell(s)
        PROVE  /\ setter' \in [Setters -> SetterStates] /\ UNCHANGED up
               /\ cell' \in Policies /\ firm' \in Policies \cup {"none"}
    BY <2>3 DEF WriteCell, Idle, Policies
  <2>4. ASSUME NEW p \in Policies, SetPolicy(p)
        PROVE  cell' \in Policies /\ firm' = "none" /\ UNCHANGED <<up, setter>>
    BY <2>4 DEF SetPolicy
  <2>5. CASE Dies
    <3>1. Idle \in SetterStates /\ "Ask" \in Policies
      BY DEF Idle, Policies
    <3> HIDE DEF SetterStates
    <3> QED BY <2>5, <3>1 DEF Dies
  <2>6. CASE PolicyRestart
    BY <2>6, EffectiveIsPolicy DEF PolicyRestart
  <2> QED BY <2>1, <2>2, <2>3, <2>4, <2>5, <2>6 DEF PolicyMove, PolicyNext
<1> QED BY <1>1, <1>2

-----------------------------------------------------------------------------
(* A setter about to reach the cell has its policy last in the log, and what is    *)
(* firm is in both; unless the log has become unreadable, which it then stays, and  *)
(* no gate is built over it again.                                             *)

LogSays(p)      == Readable(policyLog) => Effective = p
AboutToWrite(s) == setter[s].at = "write" => LogSays(setter[s].want)

FirmHolds ==
  firm # "none" =>
    /\ \A s \in Setters : setter[s].at = "idle"
    /\ LogSays(firm)
    /\ up => cell = firm

PolicyOK == (\A s \in Setters : AboutToWrite(s)) /\ FirmHolds

LEMMA PolicyOKInit == PolicyInit => PolicyOK
BY DEF PolicyInit, PolicyOK, AboutToWrite, FirmHolds, Idle

LEMMA PolicyOKStep ==
  ASSUME OneSetter, PolicyShape, PolicyOK, PolicyMove
  PROVE  PolicyOK'
<1> USE DEF PolicyShape, SetterStates, PolicyOK
<1>1. ASSUME NEW s \in Setters, NEW p \in Policies, Switch(s, p) PROVE PolicyOK'
  <2>1. firm' = "none" /\ UNCHANGED policyLog
    BY <1>1 DEF Switch
  <2>2. setter'[s].at # "write" /\ \A t \in Setters : t = s
    BY <1>1 DEF Switch, OneSetter
  <2> QED BY <2>1, <2>2 DEF AboutToWrite, FirmHolds
<1>2. ASSUME NEW s \in Setters, AppendPolicy(s) PROVE PolicyOK'
  <2>1. /\ setter[s].seen \in Seq(Policies) /\ setter[s].want \in Policies
        /\ policyLog \in LogOf(Policies)
        /\ policyLog' = Written(policyLog, setter[s].seen, setter[s].want)
    BY <1>2 DEF AppendPolicy, LogLine
  <2>2. \/ IsGarbled(policyLog')
        \/ policyLog' # <<>> /\ policyLog'[Len(policyLog')].body = setter[s].want
    BY <2>1, WrittenEnds
  <2>3. policyLog' \in LogOf(Policies)
    BY PolicyShapeStep
  <2>4. LogSays(setter[s].want)'
    <3>1. setter'[s].want = setter[s].want
      BY <1>2 DEF AppendPolicy
    <3>2. CASE IsGarbled(policyLog')
      BY <2>3, <3>2, GarbledIsUnreadable DEF LogSays
    <3>3. CASE policyLog' # <<>> /\ policyLog'[Len(policyLog')].body = setter[s].want
      BY <3>1, <3>3 DEF LogSays, Effective
    <3> QED BY <2>2, <3>2, <3>3
  <2>5. /\ setter'[s].want = setter[s].want /\ firm' = "none"
        /\ \A t \in Setters : t = s
    BY <1>2 DEF AppendPolicy, OneSetter, FirmHolds
  <2> QED BY <2>4, <2>5 DEF AboutToWrite, FirmHolds
<1>3. ASSUME NEW s \in Setters, WriteCell(s) PROVE PolicyOK'
  <2>1. /\ \A t \in Setters : t = s
        /\ setter'[s].at = "idle" /\ cell' = setter[s].want /\ firm' = setter[s].want
        /\ UNCHANGED policyLog
    BY <1>3 DEF WriteCell, OneSetter, Idle
  <2>2. LogSays(setter[s].want)
    BY <1>3 DEF WriteCell, AboutToWrite
  <2>3. (Readable(policyLog)' => Effective' = firm')
    BY <2>1, <2>2 DEF LogSays, Effective, Readable, Follows, Bodies
  <2> QED BY <2>1, <2>3 DEF AboutToWrite, FirmHolds, LogSays
<1>4. ASSUME NEW p \in Policies, SetPolicy(p) PROVE PolicyOK'
  <2>1. firm' = "none" /\ UNCHANGED <<policyLog, setter>>
    BY <1>4 DEF SetPolicy
  <2> QED BY <2>1 DEF AboutToWrite, FirmHolds, LogSays, Effective, Readable, Follows, Bodies
<1>5. ASSUME Dies, UNCHANGED policyLog \/ CutPolicyLog PROVE PolicyOK'
  <2>1. (\A s \in Setters : setter'[s].at = "idle") /\ ~up' /\ firm' = firm
    BY <1>5 DEF Dies, Idle
  <2>2. firm # "none" => UNCHANGED policyLog
    BY <1>5 DEF FirmHolds, CutPolicyLog
  <2> QED BY <2>1, <2>2
       DEF AboutToWrite, FirmHolds, LogSays, Effective, Readable, Follows, Bodies
<1>6. ASSUME PolicyRestart PROVE PolicyOK'
  <2>1. /\ Readable(policyLog) /\ cell' = Effective
        /\ UNCHANGED <<policyLog, setter, firm>>
    BY <1>6 DEF PolicyRestart
  <2> QED BY <2>1 DEF AboutToWrite, FirmHolds, LogSays, Effective, Readable, Follows, Bodies
<1>7. ASSUME UNCHANGED <<up, cell, policyLog, setter, firm>> PROVE PolicyOK'
  BY <1>7 DEF AboutToWrite, FirmHolds, LogSays, Effective, Readable, Follows, Bodies
<1> QED BY <1>1, <1>2, <1>3, <1>4, <1>5, <1>6, <1>7 DEF PolicyMove, PolicyNext
=============================================================================
