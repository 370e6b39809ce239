-------------------------- MODULE StudioWorkerProofs --------------------------
(***************************************************************************)
(* What a worker session guarantees, for any number of requests and messages, *)
(* however client, loop and job threads interleave and wherever the process    *)
(* dies.  The invariant follows each request from the line that asks for it:   *)
(* in the channel, in the queue, running, answered, one after the other and    *)
(* never in two of them.                                                     *)
(***************************************************************************)
EXTENDS StudioWorker, TLAPS

Asks(m)     == m.kind \in {"Catalog", "Validate", "Run"}
Tells(m)    == m.kind \in {"Event", "Finished"}
Accepted(r) == \E n \in 1 .. Len(accepted) : accepted[n] = r
Queued(r)   == \E k \in 1 .. Len(queue) : queue[k] = r
Answered(r) == \E i \in 1 .. Len(out) : IsTerminal(out[i], r)

(* What is asked or told is about a request, and an outcome is one.             *)
ChannelOK == \A i \in 1 .. Len(chan) :
  /\ Asks(chan[i]) \/ Tells(chan[i]) \/ chan[i].kind = "Cancel" => chan[i].id \in Requests
  /\ chan[i].kind = "Finished" => chan[i].body \in Outcomes

(* An id is asked with once: what the loop has accepted is not still to come.   *)
AskedOnce ==
  /\ \A i \in 1 .. Len(chan) : Asks(chan[i]) => chan[i].id \in used /\ ~Accepted(chan[i].id)
  /\ \A i, j \in 1 .. Len(chan) :
       i < j /\ Asks(chan[i]) /\ Asks(chan[j]) => chan[i].id # chan[j].id
  /\ \A n \in 1 .. Len(accepted) : accepted[n] \in used
  /\ \A m, n \in 1 .. Len(accepted) : m < n => accepted[m] # accepted[n]

(* What waits has been accepted, in the order of the queue, and not started.    *)
QueueOK ==
  /\ \A k \in 1 .. Len(queue) : Accepted(queue[k]) /\ job[queue[k]] = "none"
  /\ \A k, l \in 1 .. Len(queue) : k < l =>
       \A m, n \in 1 .. Len(accepted) :
         accepted[m] = queue[k] /\ accepted[n] = queue[l] => m < n
  /\ NoIdleBacklog
  /\ shuttingDown => queue = <<>>

(* One job at a time: only the running request has a thread, and only its       *)
(* messages are in the channel, the outcome last.                             *)
JobsOK ==
  /\ \A r \in Requests : job[r] # "none" => Accepted(r)
  /\ \A r \in Requests : job[r] \notin {"none", "done"} => r = running
  /\ running # NoRequest => job[running] # "none"
  /\ \A i \in 1 .. Len(chan) : Tells(chan[i]) => chan[i].id = running
  /\ \A i \in 1 .. Len(chan) : chan[i].kind = "Finished" =>
       /\ job[running] = "done"
       /\ \A j \in 1 .. Len(chan) : i < j => ~Tells(chan[j])

(* What has been accepted is answered, or runs, or waits: one of the three.      *)
AnswersOK ==
  /\ \A r \in Requests : Answered(r) => Accepted(r) /\ r # running /\ ~Queued(r)
  /\ \A r \in Requests : Accepted(r) => Answered(r) \/ r = running \/ Queued(r)
  /\ \A r \in cancelledBeforeStart : Answered(r)
  /\ serving => \A i \in 1 .. Len(out) : out[i].kind # "ShuttingDown"

WorkerInv == /\ TypeOK /\ ChannelOK /\ AskedOnce /\ QueueOK /\ JobsOK /\ AnswersOK
             /\ TerminalIsFinal /\ StartsInArrivalOrder

-----------------------------------------------------------------------------
(* Sequences.                                                                *)

(* What an append leaves where it was, and where it puts the rest.         *)
LEMMA Appending ==
  ASSUME NEW S, NEW s \in Seq(S), NEW e \in S
  PROVE  /\ Append(s, e) \in Seq(S) /\ Len(Append(s, e)) = Len(s) + 1
         /\ \A i \in 1 .. Len(s) : Append(s, e)[i] = s[i]
         /\ Append(s, e)[Len(s) + 1] = e
OBVIOUS

(* What is left when the head is taken.                                    *)
LEMMA Taking ==
  ASSUME NEW S, NEW s \in Seq(S), s # <<>>
  PROVE  /\ Tail(s) \in Seq(S) /\ Len(Tail(s)) = Len(s) - 1 /\ 1 \in 1 .. Len(s)
         /\ Head(s) = s[1] /\ Head(s) \in S
         /\ \A i \in 1 .. Len(Tail(s)) : i + 1 \in 1 .. Len(s) /\ Tail(s)[i] = s[i + 1]
OBVIOUS

(* The elements of two sequences put together.                             *)
LEMMA Joining ==
  ASSUME NEW S, NEW s \in Seq(S), NEW t \in Seq(S)
  PROVE  /\ s \o t \in Seq(S) /\ Len(s \o t) = Len(s) + Len(t)
         /\ \A i \in 1 .. Len(s) : (s \o t)[i] = s[i]
         /\ \A i \in 1 .. Len(t) : (s \o t)[Len(s) + i] = t[i]
OBVIOUS

(* Without its i-th element a sequence keeps the order of the others.           *)
LEMMA Removing ==
  ASSUME NEW S, NEW s \in Seq(S), NEW i \in 1 .. Len(s)
  PROVE  /\ RemoveAt(s, i) \in Seq(S) /\ Len(RemoveAt(s, i)) = Len(s) - 1
         /\ \A k \in 1 .. Len(s) - 1 :
              RemoveAt(s, i)[k] = IF k < i THEN s[k] ELSE s[k + 1]
<1>1. SubSeq(s, 1, i - 1) \in Seq(S) /\ Len(SubSeq(s, 1, i - 1)) = i - 1
  OBVIOUS
<1>2. SubSeq(s, i + 1, Len(s)) \in Seq(S) /\ Len(SubSeq(s, i + 1, Len(s))) = Len(s) - i
  OBVIOUS
<1>3. \A k \in 1 .. i - 1 : SubSeq(s, 1, i - 1)[k] = s[k]
  OBVIOUS
<1>4. \A k \in 1 .. Len(s) - i : SubSeq(s, i + 1, Len(s))[k] = s[i + k]
  OBVIOUS
<1> DEFINE a == SubSeq(s, 1, i - 1)
           b == SubSeq(s, i + 1, Len(s))
<1>5. RemoveAt(s, i) = a \o b
  BY DEF RemoveAt
<1>6. a \in Seq(S) /\ b \in Seq(S) /\ Len(a) = i - 1 /\ Len(b) = Len(s) - i
      /\ (\A k \in 1 .. i - 1 : a[k] = s[k])
      /\ (\A k \in 1 .. Len(s) - i : b[k] = s[i + k])
  BY <1>1, <1>2, <1>3, <1>4
<1> HIDE DEF a, b
<1>7. a \o b \in Seq(S) /\ Len(a \o b) = Len(s) - 1
  <2>1. a \o b \in Seq(S) /\ Len(a \o b) = Len(a) + Len(b)
    BY <1>6, Joining, Zenon
  <2>2. Len(s) \in Nat
    OBVIOUS
  <2> QED BY <1>6, <2>1, <2>2
<1>8. \A k \in 1 .. Len(s) - 1 : (a \o b)[k] = IF k < i THEN s[k] ELSE s[k + 1]
  <2> TAKE k \in 1 .. Len(s) - 1
  <2>1. CASE k < i
    <3>1. k \in 1 .. Len(a) /\ k \in 1 .. i - 1
      BY <1>6, <2>1
    <3> QED BY <1>6, <2>1, <3>1, Joining
  <2>2. CASE ~(k < i)
    <3>1. k - (i - 1) \in 1 .. Len(b) /\ i + (k - (i - 1)) = k + 1
          /\ Len(a) + (k - (i - 1)) = k
      BY <1>6, <2>2
    <3>2. (a \o b)[Len(a) + (k - (i - 1))] = b[k - (i - 1)]
      BY <1>6, <3>1, Joining
    <3>3. b[k - (i - 1)] = s[i + (k - (i - 1))]
      BY <1>6, <3>1
    <3> QED BY <2>2, <3>1, <3>2, <3>3
  <2> QED BY <2>1, <2>2
<1> QED BY <1>5, <1>7, <1>8

-----------------------------------------------------------------------------
(* What the invariant says of the channel and the queue.                       *)

(* The parts of the types, as the steps need them.                         *)
LEMMA Known ==
  ASSUME WorkerInv
  PROVE  /\ TypeOK /\ ChannelOK /\ AskedOnce /\ QueueOK /\ JobsOK /\ AnswersOK
         /\ TerminalIsFinal /\ StartsInArrivalOrder
         /\ chan \in Seq(Incoming) /\ out \in Seq(WorkerMessage)
         /\ queue \in Seq(Requests) /\ accepted \in Seq(Requests)
         /\ NoRequest \notin Requests
BY WorkerAssumption DEF WorkerInv, TypeOK

(* A session begins with nothing asked.                                    *)
LEMMA WorkerInvInit == Init => WorkerInv
<1> SUFFICES ASSUME Init PROVE WorkerInv
  OBVIOUS
<1>1. TypeOK
  <2>1. /\ reading \in BOOLEAN /\ used \subseteq Requests
        /\ serving \in BOOLEAN /\ handshaken \in BOOLEAN /\ shuttingDown \in BOOLEAN
        /\ running \in Requests \cup {NoRequest} /\ cancelledBeforeStart \subseteq Requests
        /\ control \in [Requests -> BOOLEAN] /\ job \in [Requests -> JobPlaces]
        /\ outcome \in [Requests -> Outcomes]
    BY DEF Init, JobPlaces, Outcomes
  <2>2. sends \in 0 .. MaxSends /\ steps \in [Requests -> 0 .. MaxSteps]
    BY WorkerAssumption DEF Init
  <2>3. chan \in Seq(Incoming) /\ out \in Seq(WorkerMessage)
        /\ queue \in Seq(Requests) /\ accepted \in Seq(Requests)
    BY DEF Init
  <2> QED BY <2>1, <2>2, <2>3 DEF TypeOK
<1>2. ChannelOK /\ AskedOnce /\ QueueOK
  BY DEF Init, ChannelOK, AskedOnce, QueueOK, NoIdleBacklog
<1>3. JobsOK /\ AnswersOK
  BY DEF Init, JobsOK, AnswersOK, Accepted, Answered
<1>4. TerminalIsFinal /\ StartsInArrivalOrder
  BY DEF Init, TerminalIsFinal, StartsInArrivalOrder
<1> QED BY <1>1, <1>2, <1>3, <1>4 DEF WorkerInv

-----------------------------------------------------------------------------
(* The client, the job threads and the end of the process.                     *)

(* What the client may put into the channel.                               *)
LEMMA Sending ==
  ASSUME WorkerInv, ClientStep
  PROVE  /\ \E m \in Incoming :
              /\ chan' = Append(chan, m) /\ ~Tells(m)
              /\ Asks(m) \/ m.kind = "Cancel" => m.id \in Requests
              /\ \/ Asks(m) /\ m.id \notin used /\ used' = used \cup {m.id}
                 \/ ~Asks(m) /\ used' = used
         /\ reading' \in BOOLEAN /\ sends' \in 0 .. MaxSends
         /\ UNCHANGED <<serving, loopVars, control, jobVars, out>>
<1> USE Known DEF Incoming, In, ClientKinds, Bodies, Asks, Tells
<1>0. TypeOK
  OBVIOUS
<1>t. ASSUME NEW k, NEW r, NEW b, Reads(k, r, b)
      PROVE  /\ sends' \in 0 .. MaxSends /\ chan' = Append(chan, In(k, r, b))
             /\ UNCHANGED <<serving, loopVars, control, jobVars, out>>
  BY <1>0, <1>t, WorkerAssumption DEF Reads, TypeOK
<1>1. CASE SendHello
  <2>1. PICK v \in {"current", "stale"} : Reads("Hello", NoRequest, v) /\ UNCHANGED <<reading, used>>
    BY <1>1 DEF SendHello
  <2>2. In("Hello", NoRequest, v) \in Incoming /\ ~Asks(In("Hello", NoRequest, v))
        /\ ~Tells(In("Hello", NoRequest, v)) /\ In("Hello", NoRequest, v).kind = "Hello"
    OBVIOUS
  <2> QED BY <1>0, <1>t, <2>1, <2>2 DEF TypeOK
<1>2. CASE SendRequest
  <2>1. PICK k \in {"Catalog", "Validate", "Run"}, r \in Requests \ used :
          Reads(k, r, "none") /\ used' = used \cup {r} /\ UNCHANGED reading
    BY <1>2 DEF SendRequest
  <2>2. In(k, r, "none") \in Incoming /\ Asks(In(k, r, "none")) /\ ~Tells(In(k, r, "none"))
        /\ In(k, r, "none").id = r
    OBVIOUS
  <2> QED BY <1>0, <1>t, <2>1, <2>2 DEF TypeOK
<1>3. CASE SendCancel
  <2>1. PICK r \in Requests : Reads("Cancel", r, "none") /\ UNCHANGED <<reading, used>>
    BY <1>3 DEF SendCancel
  <2>2. In("Cancel", r, "none") \in Incoming /\ ~Asks(In("Cancel", r, "none"))
        /\ ~Tells(In("Cancel", r, "none")) /\ In("Cancel", r, "none").id = r
    OBVIOUS
  <2> QED BY <1>0, <1>t, <2>1, <2>2 DEF TypeOK
<1>4. CASE SendShutdown
  <2>1. Reads("Shutdown", NoRequest, "none") /\ UNCHANGED <<reading, used>>
    BY <1>4 DEF SendShutdown
  <2>2. In("Shutdown", NoRequest, "none") \in Incoming /\ ~Asks(In("Shutdown", NoRequest, "none"))
        /\ ~Tells(In("Shutdown", NoRequest, "none"))
        /\ In("Shutdown", NoRequest, "none").kind = "Shutdown"
    OBVIOUS
  <2> QED BY <1>0, <1>t, <2>1, <2>2 DEF TypeOK
<1>5. CASE ReaderStops
  <2>1. PICK k \in {"Eof", "Garbage"} :
          /\ reading' = FALSE /\ chan' = Append(chan, In(k, NoRequest, "none"))
          /\ UNCHANGED <<sends, used, serving, loopVars, control, jobVars, out>>
    BY <1>5 DEF ReaderStops
  <2>2. In(k, NoRequest, "none") \in Incoming /\ ~Asks(In(k, NoRequest, "none"))
        /\ ~Tells(In(k, NoRequest, "none")) /\ In(k, NoRequest, "none").kind = k
    OBVIOUS
  <2> QED BY <1>0, <2>1, <2>2 DEF TypeOK
<1> QED BY <1>1, <1>2, <1>3, <1>4, <1>5 DEF ClientStep

(* Nothing but the channel and what feeds it changes: what the invariant says   *)
(* of the rest still holds.                                                   *)
LEMMA ClientKeeps == ASSUME WorkerInv, ClientStep PROVE WorkerInv'
<1>1. PICK m \in Incoming :
        /\ chan' = Append(chan, m) /\ ~Tells(m)
        /\ Asks(m) \/ m.kind = "Cancel" => m.id \in Requests
        /\ \/ Asks(m) /\ m.id \notin used /\ used' = used \cup {m.id}
           \/ ~Asks(m) /\ used' = used
  BY Sending
<1>2. UNCHANGED <<serving, handshaken, running, queue, cancelledBeforeStart, shuttingDown,
                  accepted, control, job, steps, outcome, out>>
  BY Sending DEF loopVars, jobVars
<1>3. /\ chan' \in Seq(Incoming) /\ Len(chan') = Len(chan) + 1 /\ Len(chan) \in Nat
      /\ \A i \in 1 .. Len(chan) : chan'[i] = chan[i]
      /\ chan'[Len(chan) + 1] = m
  BY <1>1, Known, Appending
<1>4. TypeOK'
  BY <1>1, <1>2, <1>3, Known, Sending DEF TypeOK
<1>5. ChannelOK'
  <2>1. m.kind # "Finished"
    BY <1>1 DEF Tells
  <2> QED BY <1>1, <1>3, <2>1, Known DEF ChannelOK
<1>6. AskedOnce'
  <2>1. \A n \in 1 .. Len(accepted) : accepted[n] \in used /\ accepted[n] \in used'
    BY <1>1, Known DEF AskedOnce
  <2>2. Asks(m) => ~Accepted(m.id)
    BY <1>1, <2>1 DEF Accepted
  <2>3. \A i \in 1 .. Len(chan) : Asks(chan[i]) => chan[i].id \in used /\ ~Accepted(chan[i].id)
    BY Known DEF AskedOnce
  <2>4. \A i \in 1 .. Len(chan') : Asks(chan'[i]) => chan'[i].id \in used' /\ ~Accepted(chan'[i].id)
    BY <1>1, <1>3, <2>2, <2>3
  <2>5. \A i, j \in 1 .. Len(chan') :
          i < j /\ Asks(chan'[i]) /\ Asks(chan'[j]) => chan'[i].id # chan'[j].id
    <3> SUFFICES ASSUME NEW i \in 1 .. Len(chan'), NEW j \in 1 .. Len(chan'),
                        i < j, Asks(chan'[i]), Asks(chan'[j])
                 PROVE  chan'[i].id # chan'[j].id
      OBVIOUS
    <3>1. i \in 1 .. Len(chan) /\ chan'[i] = chan[i]
      BY <1>3
    <3>2. CASE j \in 1 .. Len(chan)
      BY <1>3, <3>1, <3>2, Known DEF AskedOnce
    <3>3. CASE j = Len(chan) + 1
      BY <1>1, <1>3, <2>3, <3>1, <3>3
    <3> QED BY <1>3, <3>2, <3>3
  <2> QED BY <1>2, <2>1, <2>4, <2>5, Known DEF AskedOnce, Accepted
<1>7. QueueOK' /\ TerminalIsFinal' /\ StartsInArrivalOrder' /\ AnswersOK'
  <2>1. QueueOK'
    BY <1>2, Known DEF QueueOK, NoIdleBacklog, Accepted
  <2>2. TerminalIsFinal'
    BY <1>2, Known DEF TerminalIsFinal
  <2>3. StartsInArrivalOrder'
    BY <1>2, Known DEF StartsInArrivalOrder
  <2>4. AnswersOK'
    BY <1>2, Known DEF AnswersOK, Accepted, Answered, Queued
  <2> QED BY <2>1, <2>2, <2>3, <2>4
<1>8. JobsOK'
  <2>1. \A i \in 1 .. Len(chan') : Tells(chan'[i]) \/ chan'[i].kind = "Finished"
          => i \in 1 .. Len(chan) /\ chan'[i] = chan[i]
    BY <1>1, <1>3 DEF Tells
  <2>2. \A i \in 1 .. Len(chan') : Tells(chan'[i]) => chan'[i].id = running
    BY <2>1, Known DEF JobsOK
  <2>3. \A i \in 1 .. Len(chan') : chan'[i].kind = "Finished" =>
          job[running] = "done" /\ \A j \in 1 .. Len(chan') : i < j => ~Tells(chan'[j])
    BY <2>1, Known DEF JobsOK
  <2> QED BY <1>2, <2>2, <2>3, Known DEF JobsOK, Accepted
<1> QED BY <1>4, <1>5, <1>6, <1>7, <1>8 DEF WorkerInv

(* A step of a thread moves it on; it tells the loop nothing, an event, or, as   *)
(* its last step, its outcome.                                                *)
LEMMA Working ==
  ASSUME WorkerInv, NEW r \in Requests, JobThread(r)
  PROVE  /\ serving /\ job[r] \notin {"none", "done"}
         /\ \E p \in JobPlaces \ {"none"} :
              /\ job' = [job EXCEPT ![r] = p]
              /\ \/ p # "done" /\ chan' = chan
                 \/ p # "done" /\ \E e \in Events : chan' = Append(chan, In("Event", r, e))
                 \/ p = "done" /\ chan' = Append(chan, In("Finished", r, outcome[r]))
         /\ steps' \in [Requests -> 0 .. MaxSteps] /\ outcome' \in [Requests -> Outcomes]
         /\ UNCHANGED jobFrame
<1> USE DEF Goto, Alive
<1>0. /\ steps \in [Requests -> 0 .. MaxSteps] /\ outcome \in [Requests -> Outcomes]
      /\ MaxSteps \in Nat
  BY Known, WorkerAssumption DEF TypeOK
<1>c. ASSUME NEW o \in Outcomes, Closing(r, o)
      PROVE  /\ job' = [job EXCEPT ![r] = "closing"]
             /\ outcome' \in [Requests -> Outcomes]
  BY <1>0, <1>c DEF Closing
<1>1. CASE JobRefused(r)
  <2>1. "Failed" \in Outcomes
    BY DEF Outcomes
  <2> QED BY <1>0, <1>c, <1>1, <2>1 DEF JobRefused, JobPlaces
<1>2. CASE JobStarted(r)
  <2>1. "precheck" \in JobPlaces \ {"none"} /\ "Started" \in Events
    BY DEF JobPlaces, Events
  <2>2. /\ serving /\ job[r] = "starting" /\ UNCHANGED <<steps, outcome, jobFrame>>
        /\ job' = [job EXCEPT ![r] = "precheck"] /\ chan' = Append(chan, In("Event", r, "Started"))
    BY <1>2 DEF JobStarted, Emit
  <2> QED BY <1>0, <2>1, <2>2
<1>3. CASE JobPrecheck(r) \/ JobCheck(r)
  <2>1. "Cancelled" \in Outcomes /\ "Cancelled" \in Events
    BY DEF Outcomes, Events
  <2>2. CASE Closing(r, "Cancelled") /\ Emit(r, "Cancelled")
    BY <1>0, <1>c, <1>3, <2>1, <2>2 DEF JobPrecheck, JobCheck, Emit, JobPlaces
  <2>3. CASE Goto(r, "integrating") /\ UNCHANGED <<outcome, chan>>
    <3>1. "integrating" \in JobPlaces \ {"none"}
      BY DEF JobPlaces
    <3>2. serving /\ job[r] \in {"precheck", "checking"} /\ UNCHANGED <<steps, jobFrame>>
      BY <1>3 DEF JobPrecheck, JobCheck
    <3> QED BY <1>0, <2>3, <3>1, <3>2
  <2> QED BY <1>3, <2>2, <2>3 DEF JobPrecheck, JobCheck
<1>4. CASE JobStep(r)
  <2>1. steps' \in [Requests -> 0 .. MaxSteps]
    BY <1>0, <1>4 DEF JobStep
  <2>2. "checking" \in JobPlaces \ {"none"} /\ "Progress" \in Events
    BY DEF JobPlaces, Events
  <2>3. /\ serving /\ job[r] = "integrating" /\ UNCHANGED <<outcome, jobFrame>>
        /\ job' = [job EXCEPT ![r] = "checking"]
        /\ chan' = Append(chan, In("Event", r, "Progress")) \/ chan' = chan
    BY <1>4 DEF JobStep, Emit
  <2> QED BY <1>0, <2>1, <2>2, <2>3
<1>5. CASE JobSolved(r)
  <2>1. \E o \in {"Failed", "Completed"} : Closing(r, o) /\ (Emit(r, o) \/ UNCHANGED chan)
    BY <1>5 DEF JobSolved
  <2>2. {"Failed", "Completed"} \subseteq Outcomes /\ Outcomes \subseteq Events
    BY DEF Outcomes, Events
  <2> QED BY <1>0, <1>c, <1>5, <2>1, <2>2 DEF JobSolved, Emit, JobPlaces
<1>6. CASE JobEnds(r)
  BY <1>0, <1>6 DEF JobEnds, JobPlaces
<1> QED BY <1>1, <1>2, <1>3, <1>4, <1>5, <1>6 DEF JobThread

(* A step of a job thread.                                                 *)
LEMMA JobKeeps == ASSUME WorkerInv, NEW r \in Requests, JobThread(r) PROVE WorkerInv'
<1>1. PICK p \in JobPlaces \ {"none"} :
        /\ job' = [job EXCEPT ![r] = p]
        /\ \/ p # "done" /\ chan' = chan
           \/ p # "done" /\ \E e \in Events : chan' = Append(chan, In("Event", r, e))
           \/ p = "done" /\ chan' = Append(chan, In("Finished", r, outcome[r]))
  BY Working
<1>2. UNCHANGED <<reading, sends, used, serving, handshaken, running, queue,
                  cancelledBeforeStart, shuttingDown, accepted, control, out>>
  BY Working DEF jobFrame, clientVars, loopVars
<1>3. job \in [Requests -> JobPlaces] /\ job[r] \notin {"none", "done"} /\ r = running
      /\ outcome \in [Requests -> Outcomes]
  BY Known, Working DEF TypeOK, JobsOK
<1>4. job'[r] = p /\ p # "none" /\ (\A x \in Requests : x # r => job'[x] = job[x])
      /\ job' \in [Requests -> JobPlaces]
  BY <1>1, <1>3
(* The channel as it was, or with one more message, of this job.                *)
<1> DEFINE Said(m) == /\ chan' = Append(chan, m) /\ m.id = r /\ ~Asks(m)
                      /\ m.kind = "Finished" => p = "done" /\ m.body \in Outcomes
<1>5. \/ p # "done" /\ chan' = chan
      \/ \E m \in Incoming : Said(m)
  <2>1. ASSUME NEW e \in Events, chan' = Append(chan, In("Event", r, e))
        PROVE  \E m \in Incoming : Said(m)
    <3>1. In("Event", r, e) \in Incoming /\ ~Asks(In("Event", r, e))
          /\ In("Event", r, e).kind = "Event" /\ In("Event", r, e).id = r
      BY DEF Incoming, In, Bodies, Asks
    <3>2. Said(In("Event", r, e))
      BY <2>1, <3>1
    <3> QED BY <3>1, <3>2
  <2>2. ASSUME p = "done", chan' = Append(chan, In("Finished", r, outcome[r]))
        PROVE  \E m \in Incoming : Said(m)
    <3>1. In("Finished", r, outcome[r]) \in Incoming /\ ~Asks(In("Finished", r, outcome[r]))
          /\ In("Finished", r, outcome[r]).id = r
          /\ In("Finished", r, outcome[r]).body \in Outcomes
      BY <1>3 DEF Incoming, In, Bodies, Events, Asks
    <3>2. Said(In("Finished", r, outcome[r]))
      BY <2>2, <3>1
    <3> QED BY <3>1, <3>2
  <2> HIDE DEF Said
  <2> QED BY <1>1, <2>1, <2>2
<1>6. /\ chan' \in Seq(Incoming) /\ Len(chan) \in Nat
      /\ Len(chan') \in {Len(chan), Len(chan) + 1}
      /\ \A i \in 1 .. Len(chan) : chan'[i] = chan[i]
      /\ \A i \in 1 .. Len(chan') : i \notin 1 .. Len(chan) =>
           /\ i = Len(chan) + 1 /\ chan'[i].id = r /\ ~Asks(chan'[i])
           /\ chan'[i].kind = "Finished" => p = "done" /\ chan'[i].body \in Outcomes
  <2>1. CASE chan' = chan
    BY <2>1, Known
  <2>2. ASSUME NEW m \in Incoming, Said(m)
        PROVE  /\ chan' \in Seq(Incoming) /\ Len(chan') = Len(chan) + 1 /\ Len(chan) \in Nat
               /\ \A i \in 1 .. Len(chan) : chan'[i] = chan[i]
               /\ chan'[Len(chan) + 1] = m
    BY <2>2, Known, Appending
  <2>3. ASSUME NEW m \in Incoming, Said(m)
        PROVE  \A i \in 1 .. Len(chan') : i \notin 1 .. Len(chan) => i = Len(chan) + 1 /\ chan'[i] = m
    BY <2>2, <2>3
  <2>4. CASE \E m \in Incoming : Said(m)
    <3>1. PICK m \in Incoming : Said(m)
      BY <2>4
    <3>2. \A i \in 1 .. Len(chan') : i \notin 1 .. Len(chan) => i = Len(chan) + 1 /\ chan'[i] = m
      BY <2>3, <3>1
    <3>3. chan' \in Seq(Incoming) /\ Len(chan') = Len(chan) + 1 /\ Len(chan) \in Nat
          /\ \A i \in 1 .. Len(chan) : chan'[i] = chan[i]
      BY <2>2, <3>1
    <3> QED BY <3>1, <3>2, <3>3
  <2> HIDE DEF Said
  <2> QED BY <1>5, <2>1, <2>4
<1>7. TypeOK'
  BY <1>2, <1>4, <1>6, Known, Working DEF TypeOK
<1>8. ChannelOK'
  BY <1>6, Known DEF ChannelOK
<1>9. AskedOnce'
  <2>1. \A i \in 1 .. Len(chan') : Asks(chan'[i]) => i \in 1 .. Len(chan) /\ chan'[i] = chan[i]
    BY <1>6
  <2> QED BY <1>2, <2>1, Known DEF AskedOnce, Accepted
<1>10. QueueOK'
  <2>1. \A k \in 1 .. Len(queue) : queue[k] \in Requests /\ queue[k] # r
    BY <1>3, Known DEF QueueOK
  <2> QED BY <1>2, <1>4, <2>1, Known DEF QueueOK, NoIdleBacklog, Accepted
<1>11. JobsOK'
  <2>1. \A i \in 1 .. Len(chan) : chan[i].kind # "Finished"
    BY <1>3, Known DEF JobsOK
  <2>2. \A x \in Requests : job'[x] # "none" => Accepted(x)
    BY <1>3, <1>4, Known DEF JobsOK
  <2>3. \A x \in Requests : job'[x] \notin {"none", "done"} => x = running
    BY <1>3, <1>4, Known DEF JobsOK
  <2>4. \A i \in 1 .. Len(chan') : Tells(chan'[i]) => chan'[i].id = running
    BY <1>3, <1>6, Known DEF JobsOK
  <2>5. \A i \in 1 .. Len(chan') : chan'[i].kind = "Finished" => i = Len(chan) + 1 /\ p = "done"
    BY <1>6, <2>1
  <2>6. \A i \in 1 .. Len(chan') : chan'[i].kind = "Finished" =>
          job'[running] = "done" /\ \A j \in 1 .. Len(chan') : i < j => ~Tells(chan'[j])
    BY <1>3, <1>4, <1>6, <2>5
  <2> QED BY <1>2, <1>3, <1>4, <2>2, <2>3, <2>4, <2>6 DEF JobsOK, Accepted
<1>12. StartsInArrivalOrder'
  <2> SUFFICES ASSUME NEW i \in 1 .. Len(accepted), NEW j \in 1 .. Len(accepted), i < j,
                      NEW k \in 1 .. Len(queue), queue[k] = accepted[i]
               PROVE  job'[accepted[j]] = "none"
    BY <1>2 DEF StartsInArrivalOrder
  <2>1. job[accepted[j]] = "none"
    BY Known DEF StartsInArrivalOrder
  <2>2. accepted[j] \in Requests /\ accepted[j] # r
    BY <1>3, <2>1, Known
  <2> QED BY <1>4, <2>1, <2>2
<1>13. TerminalIsFinal' /\ AnswersOK'
  <2>1. TerminalIsFinal'
    BY <1>2, Known DEF TerminalIsFinal
  <2>2. AnswersOK'
    BY <1>2, Known DEF AnswersOK, Accepted, Answered, Queued
  <2> QED BY <2>1, <2>2
<1> QED BY <1>7, <1>8, <1>9, <1>10, <1>11, <1>12, <1>13 DEF WorkerInv

(* The death of the process.                                               *)
LEMMA CrashKeeps == ASSUME WorkerInv, Crash PROVE WorkerInv'
<1>1. serving' = FALSE
      /\ UNCHANGED <<reading, sends, used, chan, handshaken, running, queue, cancelledBeforeStart,
                     shuttingDown, accepted, control, job, steps, outcome, out>>
  BY DEF Crash, Break, clientVars, loopVars, jobVars
<1>2. TypeOK' /\ ChannelOK' /\ AskedOnce'
  BY <1>1, Known DEF TypeOK, ChannelOK, AskedOnce, Accepted
<1>3. QueueOK'
  BY <1>1, Known DEF QueueOK, NoIdleBacklog, Accepted
<1>4. JobsOK'
  BY <1>1, Known DEF JobsOK, Accepted
<1>5. AnswersOK'
  BY <1>1, Known DEF AnswersOK, Accepted, Answered, Queued
<1>6. TerminalIsFinal' /\ StartsInArrivalOrder'
  BY <1>1, Known DEF TerminalIsFinal, StartsInArrivalOrder
<1> QED BY <1>2, <1>3, <1>4, <1>5, <1>6 DEF WorkerInv

-----------------------------------------------------------------------------
(* The event loop: what it receives, accepts and writes.                       *)

Reception == serving /\ chan # <<>> /\ chan' = Tail(chan)

(* The head of the channel, and what is still in it.                       *)
LEMMA Received ==
  ASSUME WorkerInv, Reception
  PROVE  /\ chan' \in Seq(Incoming) /\ Head1 \in Incoming
         /\ 1 \in 1 .. Len(chan) /\ Head1 = chan[1] /\ Len(chan) \in Nat
         /\ \A i \in 1 .. Len(chan') :
              i + 1 \in 1 .. Len(chan) /\ 1 < i + 1 /\ chan'[i] = chan[i + 1]
         /\ Asks(Head1) \/ Tells(Head1) \/ Head1.kind = "Cancel" => Head1.id \in Requests
         /\ Tells(Head1) => Head1.id = running
         /\ ChannelOK'
<1>1. chan \in Seq(Incoming) /\ chan # <<>>
  BY Known DEF Reception
<1>2. /\ chan' \in Seq(Incoming) /\ Head1 \in Incoming /\ 1 \in 1 .. Len(chan) /\ Head1 = chan[1]
      /\ \A i \in 1 .. Len(chan') : i + 1 \in 1 .. Len(chan) /\ chan'[i] = chan[i + 1]
  BY <1>1, Taking DEF Reception, Head1
<1>3. ChannelOK'
  BY <1>2, Known DEF ChannelOK
<1> QED BY <1>1, <1>2, <1>3, Known DEF ChannelOK, JobsOK

(* A request that is received is new in every respect.                         *)
LEMMA NewRequest ==
  ASSUME WorkerInv, Reception, Asks(Head1)
  PROVE  /\ Head1.id \in Requests /\ ~Accepted(Head1.id) /\ job[Head1.id] = "none"
         /\ Head1.id # running /\ ~Queued(Head1.id) /\ ~Answered(Head1.id)
<1>1. Head1.id \in Requests /\ ~Accepted(Head1.id)
  BY Received, Known DEF AskedOnce
<1>2. job[Head1.id] = "none"
  BY <1>1, Known DEF JobsOK
<1>3. Head1.id # running /\ ~Answered(Head1.id)
  BY <1>1, <1>2, Known DEF JobsOK, AnswersOK
<1>4. ~Queued(Head1.id)
  BY <1>1, Known DEF QueueOK, Queued
<1> QED BY <1>1, <1>2, <1>3, <1>4

(* A request that is accepted comes after those accepted before.           *)
LEMMA Accepting ==
  ASSUME WorkerInv, NEW x \in Requests, ~Accepted(x), accepted' = Append(accepted, x)
  PROVE  /\ accepted' \in Seq(Requests) /\ Len(accepted) \in Nat
         /\ Len(accepted') = Len(accepted) + 1
         /\ \A n \in 1 .. Len(accepted) :
              n \in 1 .. Len(accepted') /\ accepted'[n] = accepted[n] /\ accepted[n] # x
         /\ Len(accepted') \in 1 .. Len(accepted') /\ accepted'[Len(accepted')] = x
         /\ \A r \in Requests : Accepted(r)' <=> Accepted(r) \/ r = x
<1>1. /\ accepted' \in Seq(Requests) /\ Len(accepted) \in Nat
      /\ Len(accepted') = Len(accepted) + 1
      /\ \A n \in 1 .. Len(accepted) : accepted'[n] = accepted[n]
      /\ accepted'[Len(accepted) + 1] = x
  BY Known, Appending
<1>2. \A n \in 1 .. Len(accepted) : n \in 1 .. Len(accepted') /\ accepted[n] # x
  BY <1>1 DEF Accepted
<1>3. \A n \in 1 .. Len(accepted') : n \in 1 .. Len(accepted) \/ n = Len(accepted')
  BY <1>1
<1>4. Len(accepted') \in 1 .. Len(accepted')
  BY <1>1
<1>5. \A r \in Requests : Accepted(r)' <=> Accepted(r) \/ r = x
  BY <1>1, <1>2, <1>3, <1>4 DEF Accepted
<1> QED BY <1>1, <1>2, <1>4, <1>5

(* Either nothing is accepted, or the request just received.                    *)
Takes == UNCHANGED accepted \/ (Asks(Head1) /\ accepted' = Append(accepted, Head1.id))

(* What an arm that takes the head of the channel accepts.                 *)
LEMMA TakesFacts ==
  ASSUME WorkerInv, Reception, Takes
  PROVE  /\ \A r \in Requests : Accepted(r) => Accepted(r)'
         /\ \A n \in 1 .. Len(accepted) : n \in 1 .. Len(accepted') /\ accepted'[n] = accepted[n]
         /\ \A n \in 1 .. Len(accepted') :
              \/ n \in 1 .. Len(accepted)
              \/ /\ n = Len(accepted') /\ Asks(Head1) /\ accepted'[n] = Head1.id
                 /\ \A m \in 1 .. Len(accepted) : m < n /\ accepted[m] # accepted'[n]
         /\ accepted' \in Seq(Requests)
<1>1. CASE UNCHANGED accepted
  BY <1>1, Known DEF Accepted
<1>2. CASE Asks(Head1) /\ accepted' = Append(accepted, Head1.id)
  <2>1. Head1.id \in Requests /\ ~Accepted(Head1.id)
    BY <1>2, NewRequest
  <2> QED BY <1>2, <2>1, Accepting
<1> QED BY <1>1, <1>2 DEF Takes

(* An id that has been asked with stays asked with once.                   *)
LEMMA AskedKeeps ==
  ASSUME WorkerInv, Reception, Takes, UNCHANGED used
  PROVE  AskedOnce'
<1>1. \A i \in 1 .. Len(chan') :
        i + 1 \in 1 .. Len(chan) /\ 1 < i + 1 /\ chan'[i] = chan[i + 1]
  BY Received
<1>2. \A i \in 1 .. Len(chan') : Asks(chan'[i]) =>
        chan'[i].id \in used /\ ~Accepted(chan'[i].id) /\ (Asks(Head1) => chan'[i].id # Head1.id)
  BY <1>1, Received, Known DEF AskedOnce
<1>3. \A i \in 1 .. Len(chan') : Asks(chan'[i]) =>
        \A n \in 1 .. Len(accepted') : accepted'[n] # chan'[i].id
  <2> SUFFICES ASSUME NEW i \in 1 .. Len(chan'), Asks(chan'[i]),
                      NEW n \in 1 .. Len(accepted'), accepted'[n] = chan'[i].id
               PROVE  FALSE
    OBVIOUS
  <2>1. CASE n \in 1 .. Len(accepted)
    BY <1>2, <2>1, TakesFacts DEF Accepted
  <2>2. CASE n \notin 1 .. Len(accepted)
    BY <1>2, <2>2, TakesFacts
  <2> QED BY <2>1, <2>2
<1>4. \A i, j \in 1 .. Len(chan') :
        i < j /\ Asks(chan'[i]) /\ Asks(chan'[j]) => chan'[i].id # chan'[j].id
  <2> SUFFICES ASSUME NEW i \in 1 .. Len(chan'), NEW j \in 1 .. Len(chan'),
                      i < j, Asks(chan'[i]), Asks(chan'[j])
               PROVE  chan'[i].id # chan'[j].id
    OBVIOUS
  <2>1. i + 1 \in 1 .. Len(chan) /\ j + 1 \in 1 .. Len(chan) /\ i + 1 < j + 1
        /\ chan'[i] = chan[i + 1] /\ chan'[j] = chan[j + 1]
    BY <1>1
  <2> QED BY <2>1, Known DEF AskedOnce
<1>5. \A n \in 1 .. Len(accepted') : accepted'[n] \in used
  BY TakesFacts, Received, Known DEF AskedOnce
<1>6. \A m, n \in 1 .. Len(accepted') : m < n => accepted'[m] # accepted'[n]
  <2> SUFFICES ASSUME NEW m \in 1 .. Len(accepted'), NEW n \in 1 .. Len(accepted'), m < n
               PROVE  accepted'[m] # accepted'[n]
    OBVIOUS
  <2>1. m \in 1 .. Len(accepted) /\ accepted'[m] = accepted[m]
    BY TakesFacts, Known
  <2>2. n \in 1 .. Len(accepted) \/ accepted[m] # accepted'[n]
    BY <2>1, TakesFacts
  <2> QED BY <2>1, <2>2, TakesFacts, Known DEF AskedOnce
<1> QED BY <1>2, <1>3, <1>4, <1>5, <1>6 DEF AskedOnce, Accepted

(* Where nothing starts or ends, and nothing joins or leaves the queue.         *)
LEMMA JobsStay ==
  ASSUME WorkerInv, Reception, Takes, UNCHANGED <<running, job>>
  PROVE  JobsOK'
<1>1. \A i \in 1 .. Len(chan') :
        i + 1 \in 1 .. Len(chan) /\ chan'[i] = chan[i + 1]
  BY Received
<1>2. \A i \in 1 .. Len(chan') : Tells(chan'[i]) => chan'[i].id = running
  BY <1>1, Known DEF JobsOK
<1>3. \A i \in 1 .. Len(chan') : chan'[i].kind = "Finished" =>
        job[running] = "done" /\ \A j \in 1 .. Len(chan') : i < j => ~Tells(chan'[j])
  <2> SUFFICES ASSUME NEW i \in 1 .. Len(chan'), chan'[i].kind = "Finished"
               PROVE  job[running] = "done" /\ \A j \in 1 .. Len(chan') : i < j => ~Tells(chan'[j])
    OBVIOUS
  <2>1. \A j \in 1 .. Len(chan') : i < j => i + 1 < j + 1
    OBVIOUS
  <2> QED BY <1>1, <2>1, Known DEF JobsOK
<1> QED BY <1>2, <1>3, TakesFacts, Known DEF JobsOK

(* An arm that leaves the queue alone.                                     *)
LEMMA QueueStays ==
  ASSUME WorkerInv, Reception, Takes, UNCHANGED <<running, queue, job, shuttingDown>>
  PROVE  QueueOK' /\ StartsInArrivalOrder'
<1>1. \A k \in 1 .. Len(queue) : queue[k] \in Requests /\ Accepted(queue[k])
  BY Known DEF QueueOK
<1>2. \A k \in 1 .. Len(queue), n \in 1 .. Len(accepted') :
        accepted'[n] = queue[k] => n \in 1 .. Len(accepted) /\ accepted[n] = queue[k]
  <2> SUFFICES ASSUME NEW k \in 1 .. Len(queue), NEW n \in 1 .. Len(accepted'),
                      accepted'[n] = queue[k]
               PROVE  n \in 1 .. Len(accepted)
    BY TakesFacts
  <2>1. PICK m \in 1 .. Len(accepted) : accepted[m] = queue[k]
    BY <1>1 DEF Accepted
  <2> QED BY <2>1, TakesFacts
<1>3. QueueOK'
  <2>1. \A k \in 1 .. Len(queue) : Accepted(queue[k])' /\ job[queue[k]] = "none"
    BY <1>1, TakesFacts, Known DEF QueueOK
  <2>2. \A k, l \in 1 .. Len(queue) : k < l =>
          \A m, n \in 1 .. Len(accepted') :
            accepted'[m] = queue[k] /\ accepted'[n] = queue[l] => m < n
    BY <1>2, Known DEF QueueOK
  <2>3. NoIdleBacklog' /\ (shuttingDown' => queue' = <<>>)
    BY Known DEF QueueOK, NoIdleBacklog
  <2> QED BY <2>1, <2>2, <2>3 DEF QueueOK
<1>4. StartsInArrivalOrder'
  <2> SUFFICES ASSUME NEW i \in 1 .. Len(accepted'), NEW j \in 1 .. Len(accepted'), i < j,
                      NEW k \in 1 .. Len(queue), queue[k] = accepted'[i]
               PROVE  job[accepted'[j]] = "none"
    BY DEF StartsInArrivalOrder
  <2>1. i \in 1 .. Len(accepted) /\ accepted[i] = queue[k]
    BY <1>2
  <2>2. CASE j \in 1 .. Len(accepted)
    BY <2>1, <2>2, TakesFacts, Known DEF StartsInArrivalOrder
  <2>3. CASE j \notin 1 .. Len(accepted)
    BY <2>3, TakesFacts, NewRequest
  <2> QED BY <2>2, <2>3
<1> QED BY <1>3, <1>4

-----------------------------------------------------------------------------
(* What is written to stdout.                                                 *)

(* What may be written: nothing about an answered request, and nothing about a  *)
(* request after its terminal message.                                        *)
Fresh(ms) ==
  /\ \A j \in 1 .. Len(ms) : ms[j].id \in Requests => ~Answered(ms[j].id)
  /\ \A i, j \in 1 .. Len(ms) : i < j /\ ms[i].id \in Requests => ms[j].id # ms[i].id

(* What an arm adds to stdout.                                             *)
LEMMA Writing ==
  ASSUME WorkerInv, NEW ms \in Seq(WorkerMessage), Write(ms)
  PROVE  /\ out' \in Seq(WorkerMessage) /\ Len(out') = Len(out) + Len(ms)
         /\ Len(out) \in Nat /\ Len(ms) \in Nat
         /\ \A i \in 1 .. Len(out) : i \in 1 .. Len(out') /\ out'[i] = out[i]
         /\ \A j \in 1 .. Len(ms) :
              Len(out) + j \in 1 .. Len(out') /\ out'[Len(out) + j] = ms[j]
         /\ \A i \in 1 .. Len(out') :
              \/ i \in 1 .. Len(out)
              \/ i - Len(out) \in 1 .. Len(ms) /\ out'[i] = ms[i - Len(out)]
<1>1. /\ out' \in Seq(WorkerMessage) /\ Len(out') = Len(out) + Len(ms)
      /\ \A i \in 1 .. Len(out) : out'[i] = out[i]
      /\ \A j \in 1 .. Len(ms) : out'[Len(out) + j] = ms[j]
  BY Known, Joining DEF Write
<1>2. Len(out) \in Nat /\ Len(ms) \in Nat
  BY Known
<1>3. \A i \in 1 .. Len(out') :
        \/ i \in 1 .. Len(out)
        \/ i - Len(out) \in 1 .. Len(ms) /\ Len(out) + (i - Len(out)) = i
  BY <1>1, <1>2
<1> QED BY <1>1, <1>2, <1>3

(* An arm that writes one answer.                                          *)
LEMMA Answering ==
  ASSUME WorkerInv, NEW ms \in Seq(WorkerMessage), Write(ms), NEW r
  PROVE  Answered(r)' <=> Answered(r) \/ \E j \in 1 .. Len(ms) : IsTerminal(ms[j], r)
<1>1. ASSUME NEW i \in 1 .. Len(out'), IsTerminal(out'[i], r)
      PROVE  Answered(r) \/ \E j \in 1 .. Len(ms) : IsTerminal(ms[j], r)
  <2>1. CASE i \in 1 .. Len(out)
    BY <1>1, <2>1, Writing DEF Answered
  <2>2. CASE i \notin 1 .. Len(out)
    <3>1. i - Len(out) \in 1 .. Len(ms) /\ out'[i] = ms[i - Len(out)]
      BY <2>2, Writing
    <3> QED BY <1>1, <3>1
  <2> QED BY <2>1, <2>2
<1>2. ASSUME NEW i \in 1 .. Len(out), IsTerminal(out[i], r) PROVE Answered(r)'
  <2>1. i \in 1 .. Len(out') /\ out'[i] = out[i]
    BY Writing
  <2> QED BY <1>2, <2>1 DEF Answered, IsTerminal
<1>3. ASSUME NEW j \in 1 .. Len(ms), IsTerminal(ms[j], r) PROVE Answered(r)'
  <2>1. Len(out) + j \in 1 .. Len(out') /\ out'[Len(out) + j] = ms[j]
    BY Writing
  <2> QED BY <1>3, <2>1 DEF Answered, IsTerminal
<1> QED BY <1>1, <1>2, <1>3 DEF Answered

(* A terminal message stays the last about its request.                    *)
LEMMA FinalKeeps ==
  ASSUME WorkerInv, NEW ms \in Seq(WorkerMessage), Write(ms), Fresh(ms)
  PROVE  TerminalIsFinal'
<1> SUFFICES ASSUME NEW i \in 1 .. Len(out'), NEW j \in 1 .. Len(out'), i < j,
                    out'[i].id \in Requests, IsTerminal(out'[i], out'[i].id)
             PROVE  out'[j].id # out'[i].id
  BY DEF TerminalIsFinal
<1>1. CASE i \in 1 .. Len(out) /\ j \in 1 .. Len(out)
  BY <1>1, Writing, Known DEF TerminalIsFinal
<1>2. CASE i \in 1 .. Len(out) /\ j \notin 1 .. Len(out)
  <2>1. Answered(out'[i].id)
    BY <1>2, Writing DEF Answered
  <2>2. j - Len(out) \in 1 .. Len(ms) /\ out'[j] = ms[j - Len(out)]
    BY <1>2, Writing
  <2> QED BY <2>1, <2>2 DEF Fresh
<1>3. CASE i \notin 1 .. Len(out)
  <2>1. i - Len(out) \in 1 .. Len(ms) /\ out'[i] = ms[i - Len(out)]
    BY <1>3, Writing
  <2>2. j \notin 1 .. Len(out)
    BY <1>3, Writing
  <2>3. j - Len(out) \in 1 .. Len(ms) /\ out'[j] = ms[j - Len(out)]
    BY <2>2, Writing
  <2>4. i - Len(out) < j - Len(out)
    BY Writing
  <2> QED BY <2>1, <2>3, <2>4 DEF Fresh
<1> QED BY <1>1, <1>2, <1>3

(* One message, or none.                                                      *)
LEMMA WritesOne ==
  ASSUME WorkerInv, NEW m \in WorkerMessage, Write(<<m>>)
  PROVE  /\ out' \in Seq(WorkerMessage)
         /\ \A r \in Requests : Answered(r)' <=> Answered(r) \/ IsTerminal(m, r)
         /\ (m.id \in Requests => ~Answered(m.id)) => TerminalIsFinal'
         /\ \A i \in 1 .. Len(out') : (i \in 1 .. Len(out) /\ out'[i] = out[i]) \/ out'[i] = m
<1>1. <<m>> \in Seq(WorkerMessage) /\ Len(<<m>>) = 1 /\ <<m>>[1] = m
      /\ \A j \in 1 .. Len(<<m>>) : <<m>>[j] = m /\ j = 1
  OBVIOUS
<1>2. \A r \in Requests : Answered(r)' <=> Answered(r) \/ IsTerminal(m, r)
  <2> TAKE r \in Requests
  <2>1. Answered(r)' <=> Answered(r) \/ \E j \in 1 .. Len(<<m>>) : IsTerminal(<<m>>[j], r)
    BY <1>1, Answering
  <2>2. 1 \in 1 .. Len(<<m>>)
    BY <1>1
  <2>3. (\E j \in 1 .. Len(<<m>>) : IsTerminal(<<m>>[j], r)) <=> IsTerminal(m, r)
    BY <1>1, <2>2, Zenon
  <2> QED BY <2>1, <2>3
<1>3. (m.id \in Requests => ~Answered(m.id)) => Fresh(<<m>>)
  BY <1>1 DEF Fresh
<1> QED BY <1>1, <1>2, <1>3, Writing, FinalKeeps

(* An arm that writes nothing.                                             *)
LEMMA WritesNothing ==
  ASSUME WorkerInv, Write(<<>>) PROVE UNCHANGED out
<1>1. out \in Seq(WorkerMessage)
  BY Known
<1> QED BY <1>1 DEF Write

(* Where nothing is written, no answer changes.                            *)
LEMMA OutStays ==
  ASSUME WorkerInv, UNCHANGED out
  PROVE  out' \in Seq(WorkerMessage) /\ TerminalIsFinal' /\ \A r \in Requests : Answered(r)' <=> Answered(r)
BY Known DEF TerminalIsFinal, Answered

-----------------------------------------------------------------------------
(* The arms of the loop.                                                      *)

(* What every arm leaves in its type.                                         *)
LEMMA LoopTypes ==
  ASSUME WorkerInv, Reception, out' \in Seq(WorkerMessage), accepted' \in Seq(Requests),
         queue' \in Seq(Requests), running' \in Requests \cup {NoRequest},
         job' \in [Requests -> JobPlaces], control' \in [Requests -> BOOLEAN],
         handshaken' \in BOOLEAN, shuttingDown' \in BOOLEAN, serving' \in BOOLEAN,
         cancelledBeforeStart' \subseteq Requests, UNCHANGED <<clientVars, steps, outcome>>
  PROVE  TypeOK'
BY Known, Received DEF TypeOK, clientVars

(* The cancellation flag of the running job is raised.                     *)
LEMMA CancelTypes == ASSUME WorkerInv, CancelRunning PROVE control' \in [Requests -> BOOLEAN]
BY Known DEF TypeOK, CancelRunning

Quiet(m) == /\ m.kind \notin TerminalKinds \cup {"ShuttingDown"}
            /\ m.id \in Requests => ~Answered(m.id)

(* Arms that answer nothing: end of input, errors, hello, progress.             *)
LEMMA QuietKeeps ==
  ASSUME WorkerInv, Reception,
         UNCHANGED out \/ \E m \in WorkerMessage : Quiet(m) /\ Write(<<m>>),
         control' \in [Requests -> BOOLEAN], handshaken' \in BOOLEAN, serving' \in BOOLEAN,
         UNCHANGED <<clientVars, running, queue, cancelledBeforeStart, shuttingDown,
                     accepted, jobVars>>
  PROVE  WorkerInv'
<1>1. UNCHANGED <<used, running, queue, cancelledBeforeStart, shuttingDown, accepted, job, steps,
                  outcome>> /\ Takes
  BY DEF clientVars, jobVars, Takes
<1> DEFINE Silent == /\ out' \in Seq(WorkerMessage) /\ TerminalIsFinal'
                     /\ \A r \in Requests : Answered(r)' <=> Answered(r)
                     /\ \A i \in 1 .. Len(out') : out'[i].kind # "ShuttingDown"
<1>2. Silent
  <2>1. \A i \in 1 .. Len(out) : out[i].kind # "ShuttingDown"
    BY Known DEF Reception, AnswersOK
  <2>2. ASSUME UNCHANGED out PROVE Silent
    BY <2>1, <2>2, OutStays
  <2>3. ASSUME NEW m \in WorkerMessage, Quiet(m), Write(<<m>>) PROVE Silent
    <3>1. ~\E r \in Requests : IsTerminal(m, r)
      BY <2>3 DEF Quiet, IsTerminal
    <3>2. m.kind # "ShuttingDown" /\ (m.id \in Requests => ~Answered(m.id))
      BY <2>3 DEF Quiet
    <3> QED BY <2>1, <2>3, <3>1, <3>2, WritesOne
  <2> HIDE DEF Silent
  <2> QED BY <2>2, <2>3
<1>3. AnswersOK'
  <2>1. \A r \in Requests : (Accepted(r)' <=> Accepted(r)) /\ (Queued(r)' <=> Queued(r))
    BY <1>1 DEF Accepted, Queued
  <2>2. \A r \in cancelledBeforeStart : r \in Requests
    BY Known DEF TypeOK
  <2> QED BY <1>1, <1>2, <2>1, <2>2, Known DEF AnswersOK
<1>4. TypeOK'
  BY <1>1, <1>2, Known, LoopTypes DEF TypeOK
<1> QED BY <1>1, <1>2, <1>3, <1>4, Received, AskedKeeps, JobsStay, QueueStays DEF WorkerInv

(* Arms that answer what they have just received: catalog, validate, a run        *)
(* refused while shutting down.                                               *)
LEMMA AnswerKeeps ==
  ASSUME WorkerInv, Reception, Asks(Head1), Accept,
         NEW k \in TerminalKinds, Write(<<Msg(k, Head1.id)>>),
         UNCHANGED <<clientVars, serving, handshaken, running, queue, cancelledBeforeStart,
                     shuttingDown, control, jobVars>>
  PROVE  WorkerInv'
<1> DEFINE x == Head1.id
           m == Msg(k, x)
<1>1. UNCHANGED <<used, serving, running, queue, cancelledBeforeStart, shuttingDown, job, steps,
                  outcome, handshaken, control>> /\ Takes
  BY DEF clientVars, jobVars, Takes, Accept
<1>2. /\ x \in Requests /\ ~Accepted(x) /\ x # running /\ ~Queued(x) /\ ~Answered(x)
      /\ accepted' = Append(accepted, x)
  BY NewRequest DEF Accept
<1>3. m \in WorkerMessage /\ m.id = x /\ m.kind = k
      /\ \A r \in Requests : IsTerminal(m, r) <=> r = x
  BY <1>2 DEF Msg, WorkerMessage, WireKinds, IsTerminal
<1> HIDE DEF x, m
<1>4. Write(<<m>>)
  BY DEF x, m
<1>5. /\ out' \in Seq(WorkerMessage) /\ TerminalIsFinal'
      /\ \A r \in Requests : Answered(r)' <=> Answered(r) \/ r = x
      /\ \A i \in 1 .. Len(out') : (i \in 1 .. Len(out) /\ out'[i] = out[i]) \/ out'[i] = m
  BY <1>2, <1>3, <1>4, WritesOne
<1>6. AnswersOK'
  <2>1. \A r \in Requests : (Accepted(r)' <=> Accepted(r) \/ r = x) /\ (Queued(r)' <=> Queued(r))
    BY <1>1, <1>2, Accepting DEF Queued
  <2>2. \A r \in cancelledBeforeStart : r \in Requests
    BY Known DEF TypeOK
  <2>3. serving' => \A i \in 1 .. Len(out') : out'[i].kind # "ShuttingDown"
    <3>1. k # "ShuttingDown"
      BY DEF TerminalKinds, Outcomes
    <3> QED BY <1>1, <1>3, <1>5, <3>1, Known DEF AnswersOK
  <2> QED BY <1>1, <1>2, <1>5, <2>1, <2>2, <2>3, Known DEF AnswersOK
<1>7. TypeOK'
  <2>1. accepted' \in Seq(Requests)
    BY <1>1, TakesFacts
  <2> QED BY <1>1, <1>5, <2>1, Known, LoopTypes DEF TypeOK
<1> QED BY <1>1, <1>5, <1>6, <1>7, Received, AskedKeeps, JobsStay, QueueStays DEF WorkerInv

(* No request waits twice.                                                 *)
LEMMA QueueDistinct ==
  ASSUME WorkerInv
  PROVE  \A k, l \in 1 .. Len(queue) : k < l => queue[k] # queue[l]
<1> SUFFICES ASSUME NEW k \in 1 .. Len(queue), NEW l \in 1 .. Len(queue), k < l,
                    queue[k] = queue[l]
             PROVE  FALSE
  OBVIOUS
<1>1. PICK n \in 1 .. Len(accepted) : accepted[n] = queue[k]
  BY Known DEF QueueOK, Accepted
<1>2. n < n
  BY <1>1, Known DEF QueueOK
<1> QED BY <1>1, <1>2

(* The running request does not wait.                                          *)
LEMMA QueuedNotRunning ==
  ASSUME WorkerInv
  PROVE  \A r \in Requests : Queued(r) => Accepted(r) /\ r # running
<1>1. \A k \in 1 .. Len(queue) :
        queue[k] \in Requests /\ Accepted(queue[k]) /\ job[queue[k]] = "none"
  BY Known DEF QueueOK
<1>2. running # NoRequest => job[running] # "none"
  BY Known DEF JobsOK
<1>3. \A k \in 1 .. Len(queue) : Accepted(queue[k]) /\ queue[k] # running
  BY <1>1, <1>2, Known
<1> QED BY <1>3 DEF Queued

(* A queue that has lost one element: where each of the others was.             *)
LEMMA QueueShrinks ==
  ASSUME WorkerInv, UNCHANGED accepted, NEW f,
         \A k \in 1 .. Len(queue') : f[k] \in 1 .. Len(queue) /\ queue'[k] = queue[f[k]],
         \A k, l \in 1 .. Len(queue') : k < l => f[k] < f[l],
         \A k \in 1 .. Len(queue') : job'[queue'[k]] = job[queue'[k]]
  PROVE  /\ \A k \in 1 .. Len(queue') : job'[queue'[k]] = "none"
         /\ \A k \in 1 .. Len(queue') : \E n \in 1 .. Len(accepted') : accepted'[n] = queue'[k]
         /\ \A k, l \in 1 .. Len(queue') : k < l =>
              \A m, n \in 1 .. Len(accepted') :
                accepted'[m] = queue'[k] /\ accepted'[n] = queue'[l] => m < n
<1>1. \A k \in 1 .. Len(queue') : Accepted(queue'[k]) /\ job[queue'[k]] = "none"
  BY Known DEF QueueOK
<1>2. ASSUME NEW k \in 1 .. Len(queue'), NEW l \in 1 .. Len(queue'), k < l,
             NEW m \in 1 .. Len(accepted), NEW n \in 1 .. Len(accepted),
             accepted[m] = queue'[k], accepted[n] = queue'[l]
      PROVE  m < n
  <2>1. f[k] \in 1 .. Len(queue) /\ f[l] \in 1 .. Len(queue) /\ f[k] < f[l]
        /\ accepted[m] = queue[f[k]] /\ accepted[n] = queue[f[l]]
    BY <1>2
  <2> QED BY <2>1, Known DEF QueueOK
<1>3. \A k \in 1 .. Len(queue') : \E n \in 1 .. Len(accepted) : accepted[n] = queue'[k]
  BY <1>1 DEF Accepted
<1> QED BY <1>1, <1>2, <1>3

(* A run that arrives while another is running.                            *)
LEMMA RunQueuedKeeps == ASSUME WorkerInv, RunQueued PROVE WorkerInv'
<1> DEFINE x == Head1.id
<1>1. Reception /\ Asks(Head1)
  BY DEF RunQueued, Receive, Reception, Asks
<1>2. /\ UNCHANGED <<used, serving, running, cancelledBeforeStart, shuttingDown, job, steps,
                     outcome, handshaken, control, out, clientVars>>
      /\ ~shuttingDown /\ running # NoRequest
      /\ queue' = Append(queue, x) /\ accepted' = Append(accepted, x) /\ Takes
  BY <1>1 DEF RunQueued, Stay, clientVars, jobVars, Takes, Accept, Enqueue
<1>3. x \in Requests /\ ~Accepted(x) /\ job[x] = "none" /\ x # running /\ ~Queued(x) /\ ~Answered(x)
  BY <1>1, NewRequest
<1> HIDE DEF x
<1>4. /\ queue' \in Seq(Requests) /\ Len(queue') = Len(queue) + 1 /\ Len(queue) \in Nat
      /\ \A k \in 1 .. Len(queue) : queue'[k] = queue[k] /\ queue[k] # x
      /\ queue'[Len(queue) + 1] = x
      /\ \A k \in 1 .. Len(queue') : k \in 1 .. Len(queue) \/ k = Len(queue) + 1
  <2>1. /\ queue' \in Seq(Requests) /\ Len(queue') = Len(queue) + 1 /\ Len(queue) \in Nat
        /\ \A k \in 1 .. Len(queue) : queue'[k] = queue[k]
        /\ queue'[Len(queue) + 1] = x
    BY <1>2, <1>3, Known, Appending
  <2> QED BY <1>3, <2>1 DEF Queued
<1>5. /\ accepted' \in Seq(Requests) /\ Len(accepted) \in Nat
      /\ Len(accepted') = Len(accepted) + 1
      /\ \A n \in 1 .. Len(accepted) :
              n \in 1 .. Len(accepted') /\ accepted'[n] = accepted[n] /\ accepted[n] # x
      /\ Len(accepted') \in 1 .. Len(accepted') /\ accepted'[Len(accepted')] = x
      /\ \A r \in Requests : Accepted(r)' <=> Accepted(r) \/ r = x
  BY <1>2, <1>3, Accepting
<1>6. QueueOK'
  <2>1. \A k \in 1 .. Len(queue') :
          (\E n \in 1 .. Len(accepted') : accepted'[n] = queue'[k]) /\ job[queue'[k]] = "none"
    <3> TAKE k \in 1 .. Len(queue')
    <3>1. CASE k \in 1 .. Len(queue)
      <4>1. Accepted(queue[k]) /\ job[queue[k]] = "none" /\ queue'[k] = queue[k]
        BY <1>4, <3>1, Known DEF QueueOK
      <4> QED BY <1>5, <4>1 DEF Accepted
    <3>2. CASE k = Len(queue) + 1
      BY <1>3, <1>4, <1>5, <3>2
    <3> QED BY <1>4, <3>1, <3>2
  <2>2. ASSUME NEW k \in 1 .. Len(queue'), NEW l \in 1 .. Len(queue'), k < l,
               NEW m \in 1 .. Len(accepted'), NEW n \in 1 .. Len(accepted'),
               accepted'[m] = queue'[k], accepted'[n] = queue'[l]
        PROVE  m < n
    <3>1. k \in 1 .. Len(queue) /\ queue'[k] = queue[k] /\ queue[k] # x
      BY <1>4, <2>2
    <3>2. m \in 1 .. Len(accepted) /\ accepted[m] = queue[k]
      BY <1>5, <2>2, <3>1
    <3>3. CASE l \in 1 .. Len(queue)
      <4>1. queue'[l] = queue[l] /\ queue[l] # x
        BY <1>4, <3>3
      <4>2. n \in 1 .. Len(accepted) /\ accepted[n] = queue[l]
        BY <1>5, <2>2, <4>1
      <4> QED BY <2>2, <3>1, <3>2, <3>3, <4>2, Known DEF QueueOK
    <3>4. CASE l = Len(queue) + 1
      <4>1. n = Len(accepted')
        BY <1>4, <1>5, <2>2, <3>4
      <4> QED BY <1>5, <3>2, <4>1
    <3> QED BY <1>4, <3>3, <3>4
  <2>3. NoIdleBacklog' /\ ~shuttingDown' /\ job' = job
    BY <1>2 DEF NoIdleBacklog
  <2>4. \A k \in 1 .. Len(queue') : job'[queue'[k]] = "none"
    BY <2>1, <2>3
  <2>5. \A k \in 1 .. Len(queue') : \E n \in 1 .. Len(accepted') : accepted'[n] = queue'[k]
    BY <2>1
  <2> QED BY <2>2, <2>3, <2>4, <2>5 DEF QueueOK, Accepted
<1>7. StartsInArrivalOrder'
  <2> SUFFICES ASSUME NEW i \in 1 .. Len(accepted'), NEW j \in 1 .. Len(accepted'), i < j,
                      NEW k \in 1 .. Len(queue'), queue'[k] = accepted'[i]
               PROVE  job'[accepted'[j]] = "none"
    BY DEF StartsInArrivalOrder
  <2>1. CASE j = Len(accepted')
    BY <1>2, <1>3, <1>5, <2>1
  <2>2. CASE j # Len(accepted')
    <3>1. i \in 1 .. Len(accepted) /\ j \in 1 .. Len(accepted)
          /\ accepted'[i] = accepted[i] /\ accepted'[j] = accepted[j] /\ accepted[i] # x
      BY <1>5, <2>2
    <3>2. k \in 1 .. Len(queue) /\ queue[k] = accepted[i]
      BY <1>4, <3>1
    <3> QED BY <1>2, <3>1, <3>2, Known DEF StartsInArrivalOrder
  <2> QED BY <2>1, <2>2
<1>8. AnswersOK'
  <2>1. \A r \in Requests : Queued(r)' <=> Queued(r) \/ r = x
    <3>1. \A r \in Requests : Queued(r)' => Queued(r) \/ r = x
      BY <1>4 DEF Queued
    <3>2. \A k \in 1 .. Len(queue) : k \in 1 .. Len(queue')
      BY <1>4
    <3>3. Len(queue) + 1 \in 1 .. Len(queue')
      BY <1>4
    <3>4. \A r \in Requests : Queued(r) \/ r = x => \E k \in 1 .. Len(queue') : queue'[k] = r
      BY <1>4, <3>2, <3>3 DEF Queued
    <3> QED BY <3>1, <3>4 DEF Queued
  <2>2. \A r \in Requests : Answered(r)' <=> Answered(r)
    BY <1>2 DEF Answered
  <2>3. \A r \in cancelledBeforeStart : r \in Requests
    BY Known DEF TypeOK
  <2> QED BY <1>2, <1>3, <1>5, <2>1, <2>2, <2>3, Known DEF AnswersOK
<1>9. TypeOK'
  BY <1>1, <1>2, <1>4, <1>5, Known, LoopTypes DEF TypeOK
<1>10. TerminalIsFinal'
  BY <1>2, OutStays
<1> QED BY <1>1, <1>2, <1>6, <1>7, <1>8, <1>9, <1>10, Received, AskedKeeps, JobsStay DEF WorkerInv

(* A run that arrives while none is.                                       *)
LEMMA RunStartedKeeps == ASSUME WorkerInv, RunStarted PROVE WorkerInv'
<1> DEFINE x == Head1.id
<1>1. Reception /\ Asks(Head1)
  BY DEF RunStarted, Receive, Reception, Asks
<1>2. /\ UNCHANGED <<used, serving, queue, cancelledBeforeStart, shuttingDown, steps,
                     outcome, handshaken, control, out, clientVars>>
      /\ running = NoRequest /\ running' = x /\ job' = [job EXCEPT ![x] = "starting"]
      /\ accepted' = Append(accepted, x) /\ Takes
  BY <1>1 DEF RunStarted, StartJob, Stay, clientVars, Takes, Accept
<1>3. x \in Requests /\ ~Accepted(x) /\ ~Answered(x)
  BY <1>1, NewRequest
<1> HIDE DEF x
<1>4. /\ job' \in [Requests -> JobPlaces] /\ job'[x] = "starting"
      /\ \A r \in Requests : r # x => job'[r] = job[r]
  BY <1>2, <1>3, Known DEF TypeOK, JobPlaces
<1>5. /\ accepted' \in Seq(Requests) /\ \A r \in Requests : Accepted(r)' <=> Accepted(r) \/ r = x
  BY <1>2, <1>3, Accepting
<1>6. queue = <<>> /\ queue' = <<>>
  BY <1>2, Known DEF QueueOK, NoIdleBacklog
<1>7. QueueOK' /\ StartsInArrivalOrder'
  BY <1>6 DEF QueueOK, NoIdleBacklog, StartsInArrivalOrder
<1>8. JobsOK'
  <2>1. \A i \in 1 .. Len(chan') : ~Tells(chan'[i])
    <3>1. \A i \in 1 .. Len(chan) : ~Tells(chan[i])
      BY <1>2, Known DEF JobsOK, ChannelOK
    <3> QED BY <1>1, <3>1, Received
  <2>2. \A r \in Requests : job[r] \in {"none", "done"}
    BY <1>2, Known DEF JobsOK
  <2>3. \A r \in Requests : job'[r] # "none" => Accepted(r)'
    BY <1>4, <1>5, Known DEF JobsOK
  <2> QED BY <1>2, <1>3, <1>4, <2>1, <2>2, <2>3 DEF JobsOK, Tells
<1>9. AnswersOK'
  <2>1. \A r \in Requests : (Answered(r)' <=> Answered(r)) /\ ~Queued(r) /\ ~Queued(r)'
    BY <1>2, <1>6 DEF Answered, Queued
  <2>2. \A r \in cancelledBeforeStart : r \in Requests
    BY Known DEF TypeOK
  <2> QED BY <1>2, <1>3, <1>5, <2>1, <2>2, Known DEF AnswersOK
<1>10. TypeOK'
  BY <1>1, <1>2, <1>3, <1>4, <1>5, Known, LoopTypes DEF TypeOK
<1>11. TerminalIsFinal'
  BY <1>2, OutStays
<1> QED BY <1>1, <1>2, <1>7, <1>8, <1>9, <1>10, <1>11, Received, AskedKeeps DEF WorkerInv

(* A cancellation, of a running or of a waiting request.                   *)
LEMMA CancelKeeps == ASSUME WorkerInv, Cancel PROVE WorkerInv'
<1>1. Reception /\ Head1.kind = "Cancel" /\ Head1.id \in Requests
  <2>1. Reception /\ Head1.kind = "Cancel"
    BY DEF Cancel, Receive, Reception
  <2> QED BY <2>1, Received
<1>2. /\ UNCHANGED <<used, serving, running, shuttingDown, job, steps, outcome, handshaken,
                     accepted, clientVars, jobVars>>
      /\ control' \in [Requests -> BOOLEAN] /\ Takes
  BY Known DEF Cancel, Stay, clientVars, jobVars, TypeOK, Takes
<1>3. CASE UNCHANGED <<queue, cancelledBeforeStart, out>>
  <2>1. handshaken' \in BOOLEAN /\ serving' \in BOOLEAN
    BY <1>2, Known DEF TypeOK
  <2> QED BY <1>1, <1>2, <1>3, <2>1, QuietKeeps
<1>4. CASE \E i \in 1 .. Len(queue) :
             /\ IsPosition(Head1.id, i) /\ queue' = RemoveAt(queue, i)
             /\ cancelledBeforeStart' = cancelledBeforeStart \cup {Head1.id}
             /\ Write(<<Msg("Cancelled", Head1.id)>>)
  <2> DEFINE x == Head1.id
             m == Msg("Cancelled", x)
  <2>1. PICK i \in 1 .. Len(queue) :
          /\ IsPosition(x, i) /\ queue' = RemoveAt(queue, i)
          /\ cancelledBeforeStart' = cancelledBeforeStart \cup {x} /\ Write(<<m>>)
    BY <1>4
  <2>2. x \in Requests /\ queue[i] = x
    BY <1>1, <2>1 DEF IsPosition
  <2>3. m \in WorkerMessage /\ m.id = x /\ m.kind = "Cancelled"
        /\ \A r \in Requests : IsTerminal(m, r) <=> r = x
    BY <2>2 DEF Msg, WorkerMessage, WireKinds, IsTerminal, TerminalKinds, Outcomes
  <2> HIDE DEF x, m
  <2>4. Queued(x) /\ Accepted(x) /\ job[x] = "none" /\ x # running /\ ~Answered(x)
    <3>1. Queued(x) /\ Accepted(x) /\ job[x] = "none"
      BY <2>2, Known DEF Queued, QueueOK
    <3> QED BY <2>2, <3>1, Known DEF JobsOK, AnswersOK
  <2>5. /\ queue' \in Seq(Requests) /\ Len(queue') = Len(queue) - 1 /\ Len(queue) \in Nat
        /\ \A k \in 1 .. Len(queue) - 1 : queue'[k] = IF k < i THEN queue[k] ELSE queue[k + 1]
    <3>1. queue \in Seq(Requests) /\ Len(queue) \in Nat
      BY Known
    <3>2. queue' = RemoveAt(queue, i)
      BY <2>1
    <3> QED BY <3>1, <3>2, Removing
  <2> DEFINE f == [k \in 1 .. Len(queue) - 1 |-> IF k < i THEN k ELSE k + 1]
  <2>6. \A k \in 1 .. Len(queue') : f[k] \in 1 .. Len(queue) /\ queue'[k] = queue[f[k]] /\ f[k] # i
    BY <2>5
  <2>7. \A k, l \in 1 .. Len(queue') : k < l => f[k] < f[l]
    BY <2>5
  <2> HIDE DEF f
  <2>8. QueueOK'
    <3>1. job' = job
      BY <1>2
    <3>2. /\ \A k \in 1 .. Len(queue') : job'[queue'[k]] = "none"
          /\ \A k \in 1 .. Len(queue') : \E n \in 1 .. Len(accepted') : accepted'[n] = queue'[k]
          /\ \A k, l \in 1 .. Len(queue') : k < l =>
               \A n, o \in 1 .. Len(accepted') :
                 accepted'[n] = queue'[k] /\ accepted'[o] = queue'[l] => n < o
      BY <1>2, <2>6, <2>7, <3>1, QueueShrinks
    <3>3. running' # NoRequest /\ ~shuttingDown'
      BY <1>2, <2>2, Known DEF QueueOK, NoIdleBacklog
    <3> QED BY <3>2, <3>3 DEF QueueOK, NoIdleBacklog, Accepted
  <2>9. StartsInArrivalOrder'
    BY <1>2, <2>6, Known DEF StartsInArrivalOrder
  <2>10. \A r \in Requests : (Queued(r)' <=> Queued(r) /\ r # x) /\ (Accepted(r)' <=> Accepted(r))
    <3>1. \A k \in 1 .. Len(queue') : queue'[k] # x
      BY <2>2, <2>6, QueueDistinct, Known
    <3>2. \A k \in 1 .. Len(queue) : queue[k] # x =>
            \E l \in 1 .. Len(queue') : queue'[l] = queue[k]
      <4> SUFFICES ASSUME NEW k \in 1 .. Len(queue), queue[k] # x
                   PROVE  \E l \in 1 .. Len(queue') : queue'[l] = queue[k]
        OBVIOUS
      <4>1. CASE k < i
        BY <2>5, <4>1
      <4>2. CASE k > i
        <5>1. k - 1 \in 1 .. Len(queue') /\ queue'[k - 1] = queue[k]
          BY <2>5, <4>2
        <5> QED BY <5>1
      <4> QED BY <2>2, <4>1, <4>2
    <3>3. \A k \in 1 .. Len(queue') : f[k] \in 1 .. Len(queue) /\ queue'[k] = queue[f[k]]
      BY <2>6
    <3>4. \A r \in Requests : Queued(r)' <=> Queued(r) /\ r # x
      BY <3>1, <3>2, <3>3 DEF Queued
    <3> QED BY <1>2, <3>4 DEF Accepted
  <2>11. /\ out' \in Seq(WorkerMessage) /\ TerminalIsFinal'
         /\ \A r \in Requests : Answered(r)' <=> Answered(r) \/ r = x
         /\ \A j \in 1 .. Len(out') : (j \in 1 .. Len(out) /\ out'[j] = out[j]) \/ out'[j] = m
    BY <2>1, <2>3, <2>4, WritesOne
  <2>12. AnswersOK'
    <3>1. \A r \in cancelledBeforeStart' : r = x \/ (r \in cancelledBeforeStart /\ r \in Requests)
      <4>1. cancelledBeforeStart \subseteq Requests
        BY Known DEF TypeOK
      <4>2. cancelledBeforeStart' = cancelledBeforeStart \cup {x}
        BY <2>1
      <4> QED BY <4>1, <4>2
    <3>2. serving' => \A j \in 1 .. Len(out') : out'[j].kind # "ShuttingDown"
      BY <1>2, <2>3, <2>11, Known DEF AnswersOK
    <3>3. \A r \in Requests : Answered(r)' => Accepted(r)' /\ r # running' /\ ~Queued(r)'
      BY <1>2, <2>4, <2>10, <2>11, Known DEF AnswersOK
    <3>4. \A r \in Requests : Accepted(r)' => Answered(r)' \/ r = running' \/ Queued(r)'
      BY <1>2, <2>10, <2>11, Known DEF AnswersOK
    <3>5. \A r \in cancelledBeforeStart' : r \in Requests /\ (r = x \/ Answered(r))
      BY <2>2, <3>1, Known DEF AnswersOK
    <3>6. \A r \in cancelledBeforeStart' : Answered(r)'
      BY <2>11, <3>5
    <3> QED BY <3>2, <3>3, <3>4, <3>6 DEF AnswersOK
  <2>13. TypeOK'
    <3>1. cancelledBeforeStart' \subseteq Requests
      <4>1. cancelledBeforeStart \subseteq Requests
        BY Known DEF TypeOK
      <4> QED BY <2>1, <2>2, <4>1
    <3> QED BY <1>1, <1>2, <2>5, <2>11, <3>1, Known, LoopTypes DEF TypeOK
  <2> QED BY <1>1, <1>2, <2>8, <2>9, <2>11, <2>12, <2>13, Received, AskedKeeps, JobsStay
         DEF WorkerInv
<1> QED BY <1>3, <1>4 DEF Cancel

(* A farewell after what is written says nothing about a request.                *)
LEMMA WithFarewell ==
  ASSUME NEW ms \in Seq(WorkerMessage), Fresh(ms)
  PROVE  /\ ms \o Farewell \in Seq(WorkerMessage) /\ Fresh(ms \o Farewell)
         /\ \A r \in Requests : (\E j \in 1 .. Len(ms \o Farewell) : IsTerminal((ms \o Farewell)[j], r))
              <=> (\E j \in 1 .. Len(ms) : IsTerminal(ms[j], r))
<1> DEFINE m == Msg("ShuttingDown", NoRequest)
           all == ms \o Farewell
<1>1. m \in WorkerMessage /\ m.id = NoRequest /\ m.kind = "ShuttingDown" /\ NoRequest \notin Requests
      /\ \A r : ~IsTerminal(m, r)
  BY WorkerAssumption DEF Msg, WorkerMessage, WireKinds, IsTerminal, TerminalKinds, Outcomes
<1>2. Farewell = <<m>>
  BY DEF Farewell
<1> HIDE DEF m
<1>3. <<m>> \in Seq(WorkerMessage) /\ Len(<<m>>) = 1 /\ <<m>>[1] = m
  BY <1>1
<1>4. /\ all \in Seq(WorkerMessage) /\ Len(all) = Len(ms) + 1 /\ Len(ms) \in Nat
      /\ \A j \in 1 .. Len(ms) : all[j] = ms[j]
      /\ \A j \in 1 .. Len(<<m>>) : all[Len(ms) + j] = <<m>>[j]
  BY <1>2, <1>3, Joining
<1>5. all[Len(ms) + 1] = m
  BY <1>3, <1>4
<1> HIDE DEF all
<1>6. \A j \in 1 .. Len(all) : j \in 1 .. Len(ms) \/ j = Len(ms) + 1
  BY <1>4
<1>7. \A j \in 1 .. Len(ms) : j \in 1 .. Len(all) /\ all[j] = ms[j]
  BY <1>4
<1>8. Fresh(all)
  <2>1. \A j \in 1 .. Len(all) : all[j].id \in Requests => ~Answered(all[j].id)
    BY <1>1, <1>5, <1>6, <1>7 DEF Fresh
  <2>2. ASSUME NEW i \in 1 .. Len(all), NEW j \in 1 .. Len(all), i < j, all[i].id \in Requests
        PROVE  all[j].id # all[i].id
    <3>1. i \in 1 .. Len(ms)
      BY <1>1, <1>5, <1>6, <2>2
    <3>2. CASE j \in 1 .. Len(ms)
      BY <1>7, <2>2, <3>1, <3>2 DEF Fresh
    <3>3. CASE j = Len(ms) + 1
      BY <1>1, <1>5, <2>2, <3>3
    <3> QED BY <1>6, <3>2, <3>3
  <2> QED BY <2>1, <2>2 DEF Fresh
<1>9. \A r \in Requests : (\E j \in 1 .. Len(all) : IsTerminal(all[j], r))
        <=> (\E j \in 1 .. Len(ms) : IsTerminal(ms[j], r))
  BY <1>1, <1>5, <1>6, <1>7
<1> QED BY <1>4, <1>8, <1>9 DEF all

(* Cancelling the whole queue answers exactly what waits in it.                  *)
LEMMA Draining ==
  ASSUME WorkerInv
  PROVE  /\ CancelledAll(queue) \in Seq(WorkerMessage) /\ Fresh(CancelledAll(queue))
         /\ \A r \in Requests : (\E j \in 1 .. Len(CancelledAll(queue)) :
              IsTerminal(CancelledAll(queue)[j], r)) <=> Queued(r)
         /\ \A j \in 1 .. Len(CancelledAll(queue)) : CancelledAll(queue)[j].kind # "ShuttingDown"
<1> DEFINE ms == CancelledAll(queue)
<1>1. Len(queue) \in Nat /\ \A j \in 1 .. Len(queue) : queue[j] \in Requests
  BY Known
<1>2. \A j \in 1 .. Len(queue) :
        /\ Msg("Cancelled", queue[j]) \in WorkerMessage
        /\ Msg("Cancelled", queue[j]).id = queue[j] /\ Msg("Cancelled", queue[j]).kind = "Cancelled"
        /\ \A r : IsTerminal(Msg("Cancelled", queue[j]), r) <=> r = queue[j]
  BY <1>1 DEF Msg, WorkerMessage, WireKinds, IsTerminal, TerminalKinds, Outcomes
<1>3. ms = [j \in 1 .. Len(queue) |-> Msg("Cancelled", queue[j])]
  BY DEF CancelledAll
<1>4. \A j \in 1 .. Len(queue) : ms[j] = Msg("Cancelled", queue[j])
  BY <1>3
<1>5. ms \in [1 .. Len(queue) -> WorkerMessage]
  BY <1>2, <1>3
<1>6. ms \in Seq(WorkerMessage) /\ Len(ms) = Len(queue)
  BY <1>1, <1>3, <1>5
<1> HIDE DEF ms
<1>7. Fresh(ms)
  <2>1. \A j \in 1 .. Len(queue) : Queued(queue[j]) /\ ~Answered(queue[j])
    BY <1>1, Known DEF AnswersOK, Queued
  <2>2. \A j \in 1 .. Len(ms) : ms[j].id \in Requests => ~Answered(ms[j].id)
    BY <1>2, <1>4, <1>6, <2>1
  <2>3. \A i, j \in 1 .. Len(ms) : i < j /\ ms[i].id \in Requests => ms[j].id # ms[i].id
    BY <1>2, <1>4, <1>6, QueueDistinct
  <2> QED BY <2>2, <2>3 DEF Fresh
<1>8. \A r \in Requests : (\E j \in 1 .. Len(ms) : IsTerminal(ms[j], r)) <=> Queued(r)
  BY <1>2, <1>4, <1>6 DEF Queued
<1>9. \A j \in 1 .. Len(ms) : ms[j].kind # "ShuttingDown"
  BY <1>2, <1>4, <1>6
<1> QED BY <1>6, <1>7, <1>8, <1>9 DEF ms

(* A shutdown answers what waits and tells the running job.                *)
LEMMA ShutdownKeeps == ASSUME WorkerInv, Shutdown PROVE WorkerInv'
<1>1. Reception
  BY DEF Shutdown, Receive, Reception
<1>2. /\ UNCHANGED <<used, running, job, steps, outcome, handshaken, accepted,
                     cancelledBeforeStart, clientVars, jobVars>>
      /\ queue' = <<>> /\ shuttingDown' = TRUE /\ CancelRunning /\ Takes
  BY DEF Shutdown, clientVars, jobVars, Takes
<1>3. PICK ms \in Seq(WorkerMessage) :
        /\ Write(ms) /\ Fresh(ms)
        /\ \A r \in Requests : (\E j \in 1 .. Len(ms) : IsTerminal(ms[j], r)) <=> Queued(r)
        /\ \/ serving' = serving /\ \A j \in 1 .. Len(ms) : ms[j].kind # "ShuttingDown"
           \/ serving' = FALSE
  <2>1. CASE running # NoRequest
    BY <2>1, Draining DEF Shutdown, Stay
  <2>2. CASE running = NoRequest
    <3>1. Write(CancelledAll(queue) \o Farewell) /\ serving' = FALSE
      BY <2>2 DEF Shutdown, Break
    <3> QED BY <3>1, Draining, WithFarewell
  <2> QED BY <2>1, <2>2
<1>4. /\ out' \in Seq(WorkerMessage) /\ TerminalIsFinal'
      /\ \A r \in Requests : Answered(r)' <=> Answered(r) \/ Queued(r)
  <2>1. \A r \in Requests : Answered(r)' <=> Answered(r) \/ \E j \in 1 .. Len(ms) : IsTerminal(ms[j], r)
    BY <1>3, Answering
  <2> QED BY <1>3, <2>1, Writing, FinalKeeps
<1>5. QueueOK' /\ StartsInArrivalOrder'
  BY <1>2 DEF QueueOK, NoIdleBacklog, StartsInArrivalOrder
<1>6. AnswersOK'
  <2>1. \A r \in Requests : ~Queued(r)' /\ (Accepted(r)' <=> Accepted(r))
    BY <1>2 DEF Queued, Accepted
  <2>2. serving' => \A j \in 1 .. Len(out') : out'[j].kind # "ShuttingDown"
    <3> SUFFICES ASSUME serving', NEW j \in 1 .. Len(out') PROVE out'[j].kind # "ShuttingDown"
      OBVIOUS
    <3>1. serving /\ \A i \in 1 .. Len(ms) : ms[i].kind # "ShuttingDown"
      BY <1>1, <1>3 DEF Reception
    <3>2. CASE j \in 1 .. Len(out)
      BY <1>3, <3>1, <3>2, Writing, Known DEF AnswersOK
    <3>3. CASE j \notin 1 .. Len(out)
      BY <1>3, <3>1, <3>3, Writing
    <3> QED BY <3>2, <3>3
  <2>3. \A r \in Requests : Queued(r) => Accepted(r) /\ r # running
    BY QueuedNotRunning
  <2>4. \A r \in Requests : Answered(r)' => Accepted(r)' /\ r # running' /\ ~Queued(r)'
    BY <1>2, <1>4, <2>1, <2>3, Known DEF AnswersOK
  <2>5. \A r \in Requests : Accepted(r)' => Answered(r)' \/ r = running' \/ Queued(r)'
    BY <1>2, <1>4, <2>1, Known DEF AnswersOK
  <2>6. \A r \in cancelledBeforeStart : r \in Requests /\ Answered(r)
    BY Known DEF AnswersOK, TypeOK
  <2>7. \A r \in cancelledBeforeStart' : Answered(r)'
    BY <1>2, <1>4, <2>6
  <2> QED BY <2>2, <2>4, <2>5, <2>7 DEF AnswersOK
<1>7. TypeOK'
  <2>1. control' \in [Requests -> BOOLEAN] /\ queue' \in Seq(Requests) /\ shuttingDown' \in BOOLEAN
    BY <1>2, CancelTypes
  <2>4. serving' \in BOOLEAN
    BY <1>3, Known DEF TypeOK
  <2>2. handshaken' \in BOOLEAN /\ running' \in Requests \cup {NoRequest}
        /\ job' \in [Requests -> JobPlaces] /\ accepted' \in Seq(Requests)
        /\ cancelledBeforeStart' \subseteq Requests
    BY <1>2, Known DEF TypeOK
  <2>3. UNCHANGED <<clientVars, steps, outcome>>
    BY <1>2
  <2> QED BY <1>1, <1>4, <2>1, <2>2, <2>3, <2>4, LoopTypes
<1> QED BY <1>1, <1>2, <1>4, <1>5, <1>6, <1>7, Received, AskedKeeps, JobsStay DEF WorkerInv

(* An outcome is the answer of the running request, and its first one.            *)
LEMMA OutcomeIsFirst ==
  ASSUME WorkerInv, Finished
  PROVE  /\ Reception /\ running \in Requests /\ Accepted(running) /\ job[running] = "done"
         /\ ~Answered(running) /\ cancelledBeforeStart' = cancelledBeforeStart
         /\ \A i \in 1 .. Len(chan') : ~Tells(chan'[i])
         /\ out' \in Seq(WorkerMessage) /\ TerminalIsFinal'
         /\ \A q \in Requests : Answered(q)' <=> Answered(q) \/ q = running
         /\ serving' => \A i \in 1 .. Len(out') : out'[i].kind # "ShuttingDown"
<1> DEFINE m == Msg(Head1.body, running)
<1>1. Reception /\ Head1.kind = "Finished" /\ Tells(Head1)
  BY DEF Finished, Receive, Reception, Tells
<1>2. /\ running \in Requests /\ Head1.id = running /\ Head1.body \in Outcomes
      /\ job[running] = "done" /\ 1 \in 1 .. Len(chan) /\ Head1 = chan[1]
  <2>1. 1 \in 1 .. Len(chan) /\ Head1 = chan[1] /\ Head1.id = running /\ Head1.id \in Requests
    BY <1>1, Received
  <2> QED BY <1>1, <2>1, Known DEF ChannelOK, JobsOK
<1>3. Accepted(running) /\ ~Answered(running)
  BY <1>2, Known DEF JobsOK, AnswersOK
<1>4. running \notin cancelledBeforeStart /\ cancelledBeforeStart' = cancelledBeforeStart
  <2>1. running \notin cancelledBeforeStart
    BY <1>3, Known DEF AnswersOK
  <2> QED BY <1>2, <2>1 DEF Finished
<1>5. \A i \in 1 .. Len(chan') : ~Tells(chan'[i])
  <2>1. \A j \in 1 .. Len(chan) : 1 < j => ~Tells(chan[j])
    BY <1>1, <1>2, Known DEF JobsOK
  <2> QED BY <1>1, <2>1, Received
<1>6. Terminal(Head1.id, Head1.body) = <<m>>
  BY <1>2, <1>4 DEF Terminal
<1>7. /\ m \in WorkerMessage /\ m.id = running /\ m.kind # "ShuttingDown"
      /\ \A q \in Requests : IsTerminal(m, q) <=> q = running
  BY <1>2 DEF Msg, WorkerMessage, WireKinds, IsTerminal, TerminalKinds, Outcomes
<1> HIDE DEF m
<1>8. <<m>> \in Seq(WorkerMessage) /\ Len(<<m>>) = 1 /\ <<m>>[1] = m /\ Fresh(<<m>>)
      /\ \A q \in Requests : (\E j \in 1 .. Len(<<m>>) : IsTerminal(<<m>>[j], q)) <=> q = running
  <2>1. <<m>> \in Seq(WorkerMessage) /\ Len(<<m>>) = 1 /\ <<m>>[1] = m /\ 1 \in 1 .. Len(<<m>>)
        /\ \A j \in 1 .. Len(<<m>>) : j = 1
    BY <1>7
  <2>2. Fresh(<<m>>)
    BY <1>3, <1>7, <2>1 DEF Fresh
  <2>3. \A j \in 1 .. Len(<<m>>) : <<m>>[j] = m
    BY <2>1
  <2>4. \A q \in Requests : (\E j \in 1 .. Len(<<m>>) : IsTerminal(<<m>>[j], q)) <=> q = running
    BY <1>7, <2>1, <2>3
  <2> QED BY <2>1, <2>2, <2>4
<1>9. PICK ms \in Seq(WorkerMessage) :
        /\ Write(ms) /\ Fresh(ms)
        /\ \A q \in Requests : (\E j \in 1 .. Len(ms) : IsTerminal(ms[j], q)) <=> q = running
        /\ \/ ms = <<m>>
           \/ serving' = FALSE
  <2>1. CASE shuttingDown
    <3>1. Write(<<m>> \o Farewell) /\ serving' = FALSE
      BY <1>6, <2>1 DEF Finished, Break
    <3> QED BY <1>8, <3>1, WithFarewell
  <2>2. CASE ~shuttingDown
    <3>1. Write(<<m>>)
      BY <1>6, <2>2 DEF Finished
    <3> QED BY <1>8, <3>1
  <2> QED BY <2>1, <2>2
<1>10. /\ out' \in Seq(WorkerMessage) /\ TerminalIsFinal'
       /\ \A q \in Requests : Answered(q)' <=> Answered(q) \/ q = running
  <2>1. \A q \in Requests : Answered(q)' <=> Answered(q) \/ \E j \in 1 .. Len(ms) : IsTerminal(ms[j], q)
    BY <1>9, Answering
  <2> QED BY <1>9, <2>1, Writing, FinalKeeps
<1>11. serving' => \A i \in 1 .. Len(out') : out'[i].kind # "ShuttingDown"
  <2>1. \A i \in 1 .. Len(out) : out[i].kind # "ShuttingDown"
    BY <1>1, Known DEF Reception, AnswersOK
  <2>2. CASE ms = <<m>>
    <3>1. Write(<<m>>)
      BY <1>9, <2>2
    <3> QED BY <1>7, <2>1, <3>1, WritesOne
  <2> QED BY <1>9, <2>2
<1> QED BY <1>1, <1>2, <1>3, <1>4, <1>5, <1>10, <1>11

(* The outcome of a job, and the start of the next.                        *)
LEMMA FinishedKeeps == ASSUME WorkerInv, Finished PROVE WorkerInv'
<1>1. /\ Reception /\ running \in Requests /\ Accepted(running) /\ job[running] = "done"
      /\ cancelledBeforeStart' = cancelledBeforeStart
      /\ \A i \in 1 .. Len(chan') : ~Tells(chan'[i])
      /\ out' \in Seq(WorkerMessage) /\ TerminalIsFinal'
      /\ \A q \in Requests : Answered(q)' <=> Answered(q) \/ q = running
      /\ serving' => \A i \in 1 .. Len(out') : out'[i].kind # "ShuttingDown"
  BY OutcomeIsFirst
<1>2. /\ UNCHANGED <<used, steps, outcome, handshaken, accepted, control, shuttingDown, clientVars>>
      /\ serving' \in BOOLEAN /\ Takes
  BY Known DEF Finished, StartNext, StartJob, Stay, Break, clientVars, jobVars, Takes, TypeOK
<1>3. /\ \A r \in Requests : job[r] # "none" => Accepted(r)
      /\ \A r \in Requests : r # running => job[r] \in {"none", "done"}
      /\ \A r \in Requests : Accepted(r)' <=> Accepted(r)
      /\ job \in [Requests -> JobPlaces] /\ NoRequest \notin Requests
  BY <1>2, Known DEF JobsOK, Accepted, TypeOK
<1>4. cancelledBeforeStart' \subseteq Requests /\ \A r \in cancelledBeforeStart' : Answered(r)'
  <2>1. cancelledBeforeStart \subseteq Requests
    BY Known DEF TypeOK
  <2>2. \A r \in cancelledBeforeStart : Answered(r)
    BY Known DEF AnswersOK
  <2>3. \A r \in cancelledBeforeStart : Answered(r)'
    BY <1>1, <2>1, <2>2
  <2> QED BY <1>1, <2>1, <2>3
<1>5. CASE queue = <<>> /\ running' = NoRequest /\ UNCHANGED <<queue, jobVars>>
  <2>1. job' = job /\ queue' = <<>> /\ running' = NoRequest
    BY <1>5 DEF jobVars
  <2>2. QueueOK' /\ StartsInArrivalOrder'
    BY <2>1 DEF QueueOK, NoIdleBacklog, StartsInArrivalOrder
  <2>3. JobsOK'
    <3>1. \A r \in Requests : job'[r] # "none" => Accepted(r)'
      BY <1>3, <2>1
    <3>2. \A r \in Requests : job'[r] \in {"none", "done"}
      BY <1>1, <1>3, <2>1
    <3> QED BY <1>1, <2>1, <3>1, <3>2 DEF JobsOK, Tells
  <2>4. AnswersOK'
    <3>1. \A r \in Requests : ~Queued(r) /\ ~Queued(r)'
      BY <1>5, <2>1 DEF Queued
    <3> QED BY <1>1, <1>3, <1>4, <2>1, <3>1, Known DEF AnswersOK
  <2>5. TypeOK'
    BY <1>1, <1>2, <1>4, <2>1, Known, LoopTypes DEF TypeOK
  <2> QED BY <1>1, <1>2, <2>2, <2>3, <2>4, <2>5, Received, AskedKeeps DEF WorkerInv
<1>6. CASE queue # <<>> /\ StartJob(Head(queue)) /\ queue' = Tail(queue) /\ serving' = serving
  <2> DEFINE x == Head(queue)
  <2>1. /\ running' = x /\ job' = [job EXCEPT ![x] = "starting"] /\ queue' = Tail(queue)
        /\ queue # <<>> /\ ~shuttingDown'
    BY <1>2, <1>6, Known DEF StartJob, QueueOK
  <2>2. /\ queue' \in Seq(Requests) /\ Len(queue') = Len(queue) - 1 /\ Len(queue) \in Nat
        /\ 1 \in 1 .. Len(queue) /\ x = queue[1] /\ x \in Requests
        /\ \A k \in 1 .. Len(queue') : k + 1 \in 1 .. Len(queue) /\ queue'[k] = queue[k + 1]
    BY <2>1, Known, Taking
  <2> HIDE DEF x
  <2>3. /\ job' \in [Requests -> JobPlaces] /\ job'[x] = "starting"
        /\ \A r \in Requests : r # x => job'[r] = job[r]
    BY <1>3, <2>1, <2>2 DEF JobPlaces
  <2>4. Accepted(x) /\ job[x] = "none" /\ x # running /\ Queued(x)
    BY <1>1, <2>2, Known DEF QueueOK, Queued
  <2>5. \A k \in 1 .. Len(queue') : queue'[k] \in Requests /\ queue'[k] # x
    <3>1. \A k \in 1 .. Len(queue') : 1 < k + 1
      OBVIOUS
    <3>2. \A k \in 1 .. Len(queue') : queue[1] # queue[k + 1]
      BY <2>2, <3>1, QueueDistinct
    <3>3. \A k \in 1 .. Len(queue') : queue'[k] \in Requests
      BY <2>2
    <3> QED BY <2>2, <3>2, <3>3
  <2> DEFINE f == [k \in 1 .. Len(queue') |-> k + 1]
  <2>6. \A k \in 1 .. Len(queue') : f[k] \in 1 .. Len(queue) /\ queue'[k] = queue[f[k]]
    BY <2>2
  <2>7. \A k, l \in 1 .. Len(queue') : k < l => f[k] < f[l]
    OBVIOUS
  <2> HIDE DEF f
  <2>8. QueueOK'
    <3>1. \A k \in 1 .. Len(queue') : job'[queue'[k]] = job[queue'[k]]
      BY <2>3, <2>5
    <3>2. /\ \A k \in 1 .. Len(queue') : job'[queue'[k]] = "none"
          /\ \A k \in 1 .. Len(queue') : \E n \in 1 .. Len(accepted') : accepted'[n] = queue'[k]
          /\ \A k, l \in 1 .. Len(queue') : k < l =>
               \A n, o \in 1 .. Len(accepted') :
                 accepted'[n] = queue'[k] /\ accepted'[o] = queue'[l] => n < o
      BY <1>2, <2>6, <2>7, <3>1, QueueShrinks
    <3>3. running' # NoRequest /\ ~shuttingDown'
      BY <1>3, <2>1, <2>2
    <3> QED BY <3>2, <3>3 DEF QueueOK, NoIdleBacklog, Accepted
  <2>9. StartsInArrivalOrder'
    <3> SUFFICES ASSUME NEW i \in 1 .. Len(accepted), NEW j \in 1 .. Len(accepted), i < j,
                        NEW k \in 1 .. Len(queue'), queue'[k] = accepted[i]
                 PROVE  job'[accepted[j]] = "none"
      BY <1>2 DEF StartsInArrivalOrder
    <3>1. k + 1 \in 1 .. Len(queue) /\ queue[k + 1] = accepted[i] /\ 1 < k + 1
      BY <2>2
    <3>2. job[accepted[j]] = "none"
      BY <3>1, Known DEF StartsInArrivalOrder
    <3>3. accepted[j] # x
      <4>1. \A m \in 1 .. Len(accepted) : accepted[m] = x => m < i
        BY <2>2, <3>1, Known DEF QueueOK
      <4>2. ~(j < i)
        OBVIOUS
      <4> QED BY <4>1, <4>2
    <3> QED BY <2>3, <3>2, <3>3, Known
  <2>10. \A r \in Requests : Queued(r)' <=> Queued(r) /\ r # x
    <3>1. \A k \in 1 .. Len(queue) : queue[k] # x => \E l \in 1 .. Len(queue') : queue'[l] = queue[k]
      <4> SUFFICES ASSUME NEW k \in 1 .. Len(queue), queue[k] # x
                   PROVE  \E l \in 1 .. Len(queue') : queue'[l] = queue[k]
        OBVIOUS
      <4>1. k - 1 \in 1 .. Len(queue') /\ (k - 1) + 1 = k
        BY <2>2
      <4> QED BY <2>2, <4>1
    <3> QED BY <2>2, <2>5, <3>1 DEF Queued
  <2>11. JobsOK'
    <3>1. \A r \in Requests : job'[r] # "none" => Accepted(r)'
      BY <1>3, <2>3, <2>4
    <3>2. \A r \in Requests : job'[r] \notin {"none", "done"} => r = running'
      BY <1>1, <1>3, <2>1, <2>3
    <3>3. job'[running'] # "none"
      BY <2>1, <2>3
    <3> QED BY <1>1, <3>1, <3>2, <3>3 DEF JobsOK, Tells
  <2>12. AnswersOK'
    <3>1. ~Answered(x)
      BY <2>2, <2>4, Known DEF AnswersOK
    <3>2. \A r \in Requests : Answered(r)' => Accepted(r)' /\ r # running' /\ ~Queued(r)'
      BY <1>1, <1>3, <2>1, <2>2, <2>4, <2>10, <3>1, QueuedNotRunning, Known DEF AnswersOK
    <3>3. \A r \in Requests : Accepted(r)' => Answered(r)' \/ r = running' \/ Queued(r)'
      BY <1>1, <1>3, <2>1, <2>10, Known DEF AnswersOK
    <3> QED BY <1>1, <1>4, <3>2, <3>3 DEF AnswersOK
  <2>13. TypeOK'
    <3>1. running' \in Requests \cup {NoRequest} /\ handshaken' \in BOOLEAN /\ shuttingDown' \in BOOLEAN
          /\ accepted' \in Seq(Requests) /\ control' \in [Requests -> BOOLEAN]
      BY <1>2, <2>1, <2>2, Known DEF TypeOK
    <3> QED BY <1>1, <1>2, <1>4, <2>2, <2>3, <3>1, LoopTypes
  <2> QED BY <1>1, <1>2, <2>8, <2>9, <2>11, <2>12, <2>13, Received, AskedKeeps DEF WorkerInv
<1> QED
  <2>1. CASE shuttingDown
    BY <1>5, <2>1, Known DEF Finished, QueueOK
  <2>2. CASE ~shuttingDown
    BY <1>5, <1>6, <2>2 DEF Finished, StartNext, Stay
  <2> QED BY <2>1, <2>2

(* Protocol errors, greetings and progress answer no request.                    *)
LEMMA QuietMessages ==
  ASSUME WorkerInv
  PROVE  /\ \A k \in {"ProtocolError", "Ready"} :
              Msg(k, NoRequest) \in WorkerMessage /\ Quiet(Msg(k, NoRequest))
         /\ running \in Requests =>
              Msg("Progress", running) \in WorkerMessage /\ Quiet(Msg("Progress", running))
<1>1. running \in Requests => ~Answered(running)
  BY Known DEF AnswersOK
<1> QED BY <1>1, Known DEF Msg, WorkerMessage, WireKinds, Quiet, TerminalKinds, Outcomes

(* The arms that change nothing about requests.                            *)
LEMMA QuietArms ==
  ASSUME WorkerInv, ClientEof \/ ClientProtocolError \/ Handshake \/ HelloAgain \/ Event
  PROVE  WorkerInv'
<1> DEFINE Same == UNCHANGED <<clientVars, running, queue, cancelledBeforeStart, shuttingDown,
                               accepted, jobVars>>
           Says == UNCHANGED out \/ \E m \in WorkerMessage : Quiet(m) /\ Write(<<m>>)
           Typed == /\ control' \in [Requests -> BOOLEAN] /\ handshaken' \in BOOLEAN
                    /\ serving' \in BOOLEAN
<1>0. handshaken \in BOOLEAN /\ control \in [Requests -> BOOLEAN] /\ serving \in BOOLEAN
  BY Known DEF TypeOK
<1>1. CASE ClientEof
  <2>1. Reception /\ Same /\ Says /\ handshaken' = handshaken /\ CancelRunning /\ serving' = FALSE
    BY <1>1 DEF ClientEof, Receive, Reception, loopVars, Break
  <2> QED BY <1>0, <2>1, CancelTypes, QuietKeeps
<1>2. CASE ClientProtocolError
  <2>1. /\ Reception /\ Same /\ handshaken' = handshaken /\ CancelRunning /\ serving' = FALSE
        /\ Write(<<Msg("ProtocolError", NoRequest)>>)
    BY <1>2 DEF ClientProtocolError, Receive, Reception, loopVars, Break
  <2> QED BY <1>0, <2>1, CancelTypes, QuietMessages, QuietKeeps
<1>3. CASE Handshake
  <2>1. Reception
    BY <1>3 DEF Handshake, Receive, Reception
  <2>2. Same /\ control' = control
    BY <1>3 DEF Handshake
  <2>3. \E k \in {"ProtocolError", "Ready"} : Write(<<Msg(k, NoRequest)>>)
    BY <1>3 DEF Handshake
  <2>4. handshaken' \in BOOLEAN /\ serving' \in BOOLEAN
    BY <1>0, <1>3 DEF Handshake, Stay, Break
  <2>5. Says
    BY <2>3, QuietMessages
  <2> HIDE DEF Says
  <2>6. Typed
    BY <1>0, <2>2, <2>4
  <2> QED BY <2>1, <2>2, <2>5, <2>6, QuietKeeps DEF Says
<1>4. CASE HelloAgain
  <2>1. /\ Reception /\ Same /\ handshaken' = handshaken /\ control' = control /\ serving' = FALSE
        /\ Write(<<Msg("ProtocolError", NoRequest)>>)
    BY <1>4 DEF HelloAgain, Receive, Reception, loopVars, Break
  <2> QED BY <1>0, <2>1, QuietMessages, QuietKeeps
<1>5. CASE Event
  <2>1. /\ Reception /\ Same /\ handshaken' = handshaken /\ control' = control /\ serving' = serving
        /\ Head1.kind = "Event"
    BY <1>5 DEF Event, Receive, Reception, loopVars, Stay
  <2>2. Head1.id = running /\ running \in Requests
    <3>1. Tells(Head1)
      BY <2>1 DEF Tells
    <3> QED BY <2>1, <3>1, Received
  <2>3. Says
    <3>1. CASE Head1.body = "Progress"
      <4>1. Write(<<Msg("Progress", running)>>)
        BY <1>5, <2>2, <3>1 DEF Event, EventToMessage
      <4> QED BY <2>2, <4>1, QuietMessages
    <3>2. CASE Head1.body # "Progress"
      <4>1. Write(<<>>)
        BY <1>5, <3>2 DEF Event, EventToMessage
      <4> QED BY <4>1, WritesNothing
    <3> QED BY <3>1, <3>2
  <2> QED BY <1>0, <2>1, <2>3, QuietKeeps
<1> QED BY <1>1, <1>2, <1>3, <1>4, <1>5

(* The arms that answer a request at once.                                 *)
LEMMA AnsweringArms == ASSUME WorkerInv, Catalog \/ Validate \/ RunRefused PROVE WorkerInv'
<1>1. Reception /\ Asks(Head1) /\ Accept
  BY DEF Catalog, Validate, RunRefused, Receive, Reception, Asks
<1>2. UNCHANGED <<clientVars, serving, handshaken, running, queue, cancelledBeforeStart,
                  shuttingDown, control, jobVars>>
  BY DEF Catalog, Validate, RunRefused, Stay
<1>3. PICK k \in TerminalKinds : Write(<<Msg(k, Head1.id)>>)
  <2>1. \E k \in {"Catalog", "Validated", "Failed"} : Write(<<Msg(k, Head1.id)>>)
    BY DEF Catalog, Validate, RunRefused
  <2> QED BY <2>1 DEF TerminalKinds, Outcomes
<1> QED BY <1>1, <1>2, <1>3, AnswerKeeps

(* Every step.                                                             *)
LEMMA WorkerInvStep == WorkerInv /\ [Next]_vars => WorkerInv'
<1> SUFFICES ASSUME WorkerInv, [Next]_vars PROVE WorkerInv'
  OBVIOUS
<1>1. CASE ClientStep
  BY <1>1, ClientKeeps
<1>2. CASE LoopStep
  BY <1>2, QuietArms, AnsweringArms, RunQueuedKeeps, RunStartedKeeps, CancelKeeps, ShutdownKeeps,
     FinishedKeeps DEF LoopStep
<1>3. CASE \E r \in Requests : JobThread(r)
  BY <1>3, JobKeeps
<1>4. CASE Crash
  BY <1>4, CrashKeeps
<1>5. CASE UNCHANGED vars
  <2>1. UNCHANGED <<reading, sends, used, chan, serving, handshaken, running, queue,
                    cancelledBeforeStart, shuttingDown, accepted, control, job, steps, outcome, out>>
    BY <1>5 DEF vars, clientVars, loopVars, jobVars
  <2>2. TypeOK' /\ ChannelOK' /\ AskedOnce'
    BY <2>1, Known DEF TypeOK, ChannelOK, AskedOnce, Accepted
  <2>3. QueueOK' /\ JobsOK'
    BY <2>1, Known DEF QueueOK, JobsOK, NoIdleBacklog, Accepted
  <2>4. AnswersOK'
    BY <2>1, Known DEF AnswersOK, Accepted, Answered, Queued
  <2>5. TerminalIsFinal' /\ StartsInArrivalOrder'
    BY <2>1, Known DEF TerminalIsFinal, StartsInArrivalOrder
  <2> QED BY <2>2, <2>3, <2>4, <2>5 DEF WorkerInv
<1> QED BY <1>1, <1>2, <1>3, <1>4, <1>5 DEF Next

(* The invariant, in every reachable state of every session.                     *)
THEOREM WorkerInvHolds == Spec => []WorkerInv
<1>1. Init => WorkerInv
  BY WorkerInvInit
<1>2. WorkerInv /\ [Next]_vars => WorkerInv'
  BY WorkerInvStep
<1> QED BY <1>1, <1>2, PTL DEF Spec

(* The worker's variables stay in the states their Rust types allow.             *)
THEOREM WorkerTypes == Spec => []TypeOK
<1>1. WorkerInv => TypeOK
  BY DEF WorkerInv
<1> QED BY <1>1, WorkerInvHolds, PTL

(* A terminal message is the last word about its request (ADR 0003), whichever     *)
(* of the four paths wrote it.                                                  *)
THEOREM OneTerminalMessage == Spec => []TerminalIsFinal
<1>1. WorkerInv => TerminalIsFinal
  BY DEF WorkerInv
<1> QED BY <1>1, WorkerInvHolds, PTL

(* No job overtakes a request the loop read earlier and has not answered.          *)
THEOREM ArrivalOrder == Spec => []StartsInArrivalOrder
<1>1. WorkerInv => StartsInArrivalOrder
  BY DEF WorkerInv
<1> QED BY <1>1, WorkerInvHolds, PTL

(* While something waits, something runs.                                       *)
THEOREM BacklogRuns == Spec => []NoIdleBacklog
<1>1. WorkerInv => NoIdleBacklog
  BY DEF WorkerInv, QueueOK
<1> QED BY <1>1, WorkerInvHolds, PTL

-----------------------------------------------------------------------------
(* The worker implements the request contract.                                  *)

(* What stdout carried it still carries, and what was accepted stays accepted.   *)
Grows == /\ \A i \in 1 .. Len(out) : i \in 1 .. Len(out') /\ out'[i] = out[i]
         /\ \A r \in Requests : Accepted(r) => Accepted(r)'

NoFarewell == \A i \in 1 .. Len(out) : out[i].kind # "ShuttingDown"

(* A process that ends has nothing left to answer, or has not said farewell.     *)
Ends == (running' = NoRequest /\ queue' = <<>>) \/ NoFarewell'

(* Where nothing is written or accepted, nothing grows wrongly.            *)
LEMMA GrowsWhenUnchanged == ASSUME WorkerInv, UNCHANGED <<out, accepted>> PROVE Grows
BY DEF Grows, Accepted

(* An arm only ever writes at the end.                                     *)
LEMMA GrowsByWriting ==
  ASSUME WorkerInv, Reception, Takes,
         UNCHANGED out \/ \E ms \in Seq(WorkerMessage) : Write(ms)
  PROVE  Grows
<1>1. \A i \in 1 .. Len(out) : i \in 1 .. Len(out') /\ out'[i] = out[i]
  <2>1. CASE UNCHANGED out
    BY <2>1
  <2>2. CASE \E ms \in Seq(WorkerMessage) : Write(ms)
    BY <2>2, Writing
  <2> QED BY <2>1, <2>2
<1> QED BY <1>1, TakesFacts DEF Grows

(* A process that ends without a farewell.                                 *)
LEMMA QuietEnd ==
  ASSUME WorkerInv, serving, UNCHANGED out \/ Write(<<Msg("ProtocolError", NoRequest)>>)
  PROVE  NoFarewell'
<1>1. NoFarewell
  BY Known DEF NoFarewell, AnswersOK
<1>2. CASE UNCHANGED out
  BY <1>1, <1>2 DEF NoFarewell
<1>3. CASE Write(<<Msg("ProtocolError", NoRequest)>>)
  <2> DEFINE m == Msg("ProtocolError", NoRequest)
  <2>1. m \in WorkerMessage /\ m.kind # "ShuttingDown"
    BY QuietMessages DEF Msg
  <2> HIDE DEF m
  <2>2. \A i \in 1 .. Len(out') : (i \in 1 .. Len(out) /\ out'[i] = out[i]) \/ out'[i] = m
    BY <1>3, <2>1, WritesOne DEF m
  <2> QED BY <1>1, <2>1, <2>2 DEF NoFarewell
<1> QED BY <1>2, <1>3

(* One arm of the loop, as the contract sees it.                           *)
LEMMA LoopContract ==
  ASSUME WorkerInv, LoopStep
  PROVE  serving /\ Grows /\ (serving' \/ Ends)
<1>1. Reception
  BY DEF LoopStep, ClientEof, ClientProtocolError, Handshake, HelloAgain, Catalog, Validate,
         RunRefused, RunQueued, RunStarted, Cancel, Shutdown, Event, Finished, Receive, Reception
<1>2. serving
  BY <1>1 DEF Reception
<1>e. <<>> \in Seq(WorkerMessage)
  OBVIOUS
<1>o. ASSUME NEW m \in WorkerMessage PROVE <<m>> \in Seq(WorkerMessage)
  BY <1>o
<1>3. CASE ClientEof \/ ClientProtocolError \/ HelloAgain
  <2>1. UNCHANGED accepted /\ (UNCHANGED out \/ Write(<<Msg("ProtocolError", NoRequest)>>))
    BY <1>3 DEF ClientEof, ClientProtocolError, HelloAgain, loopVars
  <2>2. Grows
    BY <1>1, <1>o, <2>1, QuietMessages, GrowsByWriting DEF Takes
  <2> QED BY <1>2, <2>1, <2>2, QuietEnd DEF Ends
<1>4. CASE Handshake
  <2>1. UNCHANGED accepted /\ \E k \in {"ProtocolError", "Ready"} : Write(<<Msg(k, NoRequest)>>)
    BY <1>4 DEF Handshake
  <2>2. serving' = serving \/ Write(<<Msg("ProtocolError", NoRequest)>>)
    BY <1>4 DEF Handshake, Stay
  <2>3. Grows
    BY <1>1, <1>o, <2>1, QuietMessages, GrowsByWriting DEF Takes
  <2> QED BY <1>2, <2>2, <2>3, QuietEnd DEF Ends
<1>5. CASE Catalog \/ Validate \/ RunRefused
  <2>1. Asks(Head1) /\ Accept /\ serving' = serving
    BY <1>5 DEF Catalog, Validate, RunRefused, Receive, Asks, Stay
  <2>2. \E k \in {"Catalog", "Validated", "Failed"} : Write(<<Msg(k, Head1.id)>>)
    BY <1>5 DEF Catalog, Validate, RunRefused
  <2>3. \A k \in {"Catalog", "Validated", "Failed"} : Msg(k, Head1.id) \in WorkerMessage
    BY <1>1, <2>1, NewRequest DEF Msg, WorkerMessage, WireKinds, TerminalKinds, Outcomes
  <2> QED BY <1>1, <1>2, <1>o, <2>1, <2>2, <2>3, GrowsByWriting DEF Takes, Accept
<1>6. CASE RunQueued \/ RunStarted
  <2>1. Asks(Head1) /\ Accept /\ serving' = serving /\ UNCHANGED out
    BY <1>6 DEF RunQueued, RunStarted, Receive, Asks, Stay
  <2> QED BY <1>1, <1>2, <2>1, GrowsByWriting DEF Takes, Accept
<1>7. CASE Cancel
  <2>1. UNCHANGED accepted /\ serving' = serving
    BY <1>7 DEF Cancel, Stay
  <2>2. UNCHANGED out \/ Write(<<Msg("Cancelled", Head1.id)>>)
    BY <1>7 DEF Cancel
  <2>3. Msg("Cancelled", Head1.id) \in WorkerMessage
    <3>1. Head1.kind = "Cancel"
      BY <1>7 DEF Cancel, Receive
    <3> QED BY <1>1, <3>1, Received DEF Msg, WorkerMessage, WireKinds, TerminalKinds, Outcomes
  <2> QED BY <1>1, <1>2, <1>o, <2>1, <2>2, <2>3, GrowsByWriting DEF Takes
<1>8. CASE Shutdown
  <2>1. UNCHANGED <<accepted, running>> /\ queue' = <<>> /\ (serving' = serving \/ running = NoRequest)
    BY <1>8 DEF Shutdown, Stay
  <2>2. Write(CancelledAll(queue)) \/ Write(CancelledAll(queue) \o Farewell)
    BY <1>8 DEF Shutdown
  <2> QED BY <1>1, <1>2, <2>1, <2>2, Draining, WithFarewell, GrowsByWriting DEF Takes, Ends
<1>9. CASE Event
  <2>1. UNCHANGED accepted /\ serving' = serving
    BY <1>9 DEF Event, loopVars, Stay
  <2>2. \E ms \in Seq(WorkerMessage) : Write(ms)
    <3>1. Msg("Progress", Head1.id) \in WorkerMessage
      <4>1. Tells(Head1)
        BY <1>9 DEF Event, Receive, Tells
      <4> QED BY <1>1, <4>1, Received DEF Msg, WorkerMessage, WireKinds
    <3>2. Write(<<>>) \/ Write(<<Msg("Progress", Head1.id)>>)
      BY <1>9 DEF Event, EventToMessage
    <3> QED BY <1>e, <1>o, <3>1, <3>2
  <2> QED BY <1>1, <1>2, <2>1, <2>2, GrowsByWriting DEF Takes
<1>10. CASE Finished
  <2>1. UNCHANGED accepted
    BY <1>10 DEF Finished
  <2>2. serving' = serving \/ (shuttingDown /\ running' = NoRequest /\ queue' = queue)
    BY <1>10 DEF Finished, Stay
  <2>3. Ends \/ serving' = serving
    BY <2>2, Known DEF Ends, QueueOK
  <2>4. PICK ms \in Seq(WorkerMessage) : Write(ms)
    <3> DEFINE t == Terminal(Head1.id, Head1.body)
    <3>1. t \in Seq(WorkerMessage)
      <4>1. Head1.kind = "Finished" /\ Tells(Head1) /\ 1 \in 1 .. Len(chan) /\ Head1 = chan[1]
        BY <1>1, <1>10, Received DEF Finished, Receive, Tells
      <4>2. Msg(Head1.body, Head1.id) \in WorkerMessage
        BY <1>1, <4>1, Received, Known
           DEF ChannelOK, Msg, WorkerMessage, WireKinds, TerminalKinds, Outcomes
      <4> QED BY <1>e, <1>o, <4>2 DEF Terminal
    <3> HIDE DEF t
    <3>2. Farewell \in Seq(WorkerMessage)
      <4>1. Msg("ShuttingDown", NoRequest) \in WorkerMessage
        BY DEF Msg, WorkerMessage, WireKinds
      <4> QED BY <1>o, <4>1 DEF Farewell
    <3>3. Write(t) \/ Write(t \o Farewell)
      BY <1>10 DEF Finished, t
    <3>4. t \o Farewell \in Seq(WorkerMessage)
      BY <3>1, <3>2
    <3> QED BY <3>1, <3>3, <3>4
  <2> QED BY <1>1, <1>2, <2>1, <2>3, <2>4, GrowsByWriting DEF Takes
<1> QED BY <1>3, <1>4, <1>5, <1>6, <1>7, <1>8, <1>9, <1>10 DEF LoopStep

(* Every step, as the contract sees it.                                    *)
LEMMA StepContract == ASSUME WorkerInv, Next PROVE serving /\ Grows /\ (serving' \/ Ends)
<1>1. CASE ClientStep
  <2>1. serving /\ UNCHANGED <<out, accepted, serving>>
    BY <1>1 DEF ClientStep, SendHello, SendRequest, SendCancel, SendShutdown, ReaderStops, Reads,
                loopVars
  <2> QED BY <2>1, GrowsWhenUnchanged
<1>2. CASE LoopStep
  BY <1>2, LoopContract
<1>3. CASE \E r \in Requests : JobThread(r)
  <2>1. serving /\ UNCHANGED <<out, accepted, serving>>
    BY <1>3, Working DEF jobFrame, loopVars
  <2> QED BY <2>1, GrowsWhenUnchanged
<1>4. CASE Crash
  <2>1. serving /\ UNCHANGED <<out, accepted>>
    BY <1>4 DEF Crash, loopVars
  <2> QED BY <2>1, GrowsWhenUnchanged, QuietEnd DEF Ends
<1> QED BY <1>1, <1>2, <1>3, <1>4 DEF Next

(* The answers of a request, read off stdout: none, or the first one for good.    *)
LEMMA FirstAnswer ==
  ASSUME WorkerInv, WorkerInv', Grows, NEW r \in Requests
  PROVE  \/ AnswersTo(r)' = AnswersTo(r)
         \/ /\ AnswersTo(r) = {} /\ Accepted(r)'
            /\ \E a \in AnswersTo(r)' : AnswersTo(r)' = {a} /\ a[2] \in TerminalKinds
<1>1. \A i \in 1 .. Len(out) : IsTerminal(out[i], r) =>
        i \in 1 .. Len(out') /\ out'[i] = out[i] /\ IsTerminal(out'[i], r)
  BY DEF Grows
<1>2. \A i, j \in 1 .. Len(out') : IsTerminal(out'[i], r) /\ IsTerminal(out'[j], r) => i = j
  <2> SUFFICES ASSUME NEW i \in 1 .. Len(out'), NEW j \in 1 .. Len(out'), i < j,
                      IsTerminal(out'[i], r), IsTerminal(out'[j], r)
               PROVE  FALSE
    OBVIOUS
  <2> QED BY DEF WorkerInv, TerminalIsFinal, IsTerminal
<1>3. CASE \E i \in 1 .. Len(out) : IsTerminal(out[i], r)
  <2>1. PICK i \in 1 .. Len(out) : IsTerminal(out[i], r)
    BY <1>3
  <2>2. \A j \in 1 .. Len(out') : IsTerminal(out'[j], r) <=> j = i
    BY <1>1, <1>2, <2>1
  <2>3. \A j \in 1 .. Len(out) : IsTerminal(out[j], r) <=> j = i
    BY <1>1, <2>1, <2>2
  <2>4. AnswersTo(r)' = {<<i, out'[i].kind>>}
    BY <1>1, <2>1, <2>2 DEF AnswersTo
  <2>5. AnswersTo(r) = {<<i, out[i].kind>>}
    BY <2>1, <2>3 DEF AnswersTo
  <2> QED BY <1>1, <2>1, <2>4, <2>5
<1>4. CASE ~\E i \in 1 .. Len(out) : IsTerminal(out[i], r)
  <2>1. AnswersTo(r) = {}
    BY <1>4 DEF AnswersTo
  <2>2. CASE ~\E i \in 1 .. Len(out') : IsTerminal(out'[i], r)
    <3>1. AnswersTo(r)' = {}
      BY <2>2 DEF AnswersTo
    <3> QED BY <2>1, <3>1
  <2>3. CASE \E i \in 1 .. Len(out') : IsTerminal(out'[i], r)
    <3>1. PICK i \in 1 .. Len(out') : IsTerminal(out'[i], r)
      BY <2>3
    <3>2. \A j \in 1 .. Len(out') : IsTerminal(out'[j], r) <=> j = i
      BY <1>2, <3>1
    <3>3. AnswersTo(r)' = {<<i, out'[i].kind>>}
      BY <3>1, <3>2 DEF AnswersTo
    <3>4. out'[i].kind \in TerminalKinds
      BY <3>1 DEF IsTerminal
    <3>5. Answered(r)'
      BY <3>1 DEF Answered, IsTerminal
    <3>6. Accepted(r)'
      BY <3>5 DEF WorkerInv, AnswersOK
    <3> QED BY <2>1, <3>3, <3>4, <3>6
  <2> QED BY <2>2, <2>3
<1> QED BY <1>3, <1>4

(* The elements of accepted are what has been accepted.                    *)
LEMMA Elements ==
  ASSUME NEW S, NEW s \in Seq(S)
  PROVE  ToSet(s) \subseteq S /\ \A e : e \in ToSet(s) <=> \E n \in 1 .. Len(s) : s[n] = e
BY DEF ToSet

(* Every step of the worker is a step of the contract, or leaves it alone.         *)
LEMMA ContractStep ==
  ASSUME WorkerInv, WorkerInv', [Next]_vars
  PROVE  [Contract!Next]_(Contract!vars)
<1>1. CASE Next
  <2> DEFINE session == IF serving THEN "open"
                        ELSE IF out # <<>> /\ Last(out).kind = "ShuttingDown" THEN "closed" ELSE "lost"
             answers == [r \in Requests |-> AnswersTo(r)]
  <2>1. serving /\ Grows /\ (serving' \/ Ends)
    BY <1>1, StepContract
  <2>2. session = "open" /\ session' \in {"open", "closed", "lost"}
    BY <2>1
  <2>3. accepted \in Seq(Requests) /\ accepted' \in Seq(Requests)
    BY DEF WorkerInv, TypeOK
  <2>4. /\ \A r \in Requests : r \in ToSet(accepted) <=> Accepted(r)
        /\ \A r \in Requests : r \in ToSet(accepted') <=> Accepted(r)'
        /\ ToSet(accepted) \subseteq Requests /\ ToSet(accepted') \subseteq Requests
    BY <2>3, Elements DEF Accepted
  <2>5. ToSet(accepted) \subseteq ToSet(accepted')
    BY <2>1, <2>4 DEF Grows
  <2>6. DOMAIN answers' = Requests /\ \A r \in Requests : answers[r] = AnswersTo(r) /\ answers'[r] = AnswersTo(r)'
    OBVIOUS
  <2>7. \A r \in Requests :
          \/ answers'[r] = answers[r]
          \/ /\ r \in ToSet(accepted') /\ answers[r] = {}
             /\ \E a \in answers'[r] : answers'[r] = {a} /\ a[2] \in TerminalKinds
    BY <2>1, <2>4, <2>6, FirstAnswer
  <2>8. session' = "closed" => \A r \in ToSet(accepted') : answers'[r] # {}
    <3> SUFFICES ASSUME session' = "closed", NEW r \in ToSet(accepted') PROVE AnswersTo(r)' # {}
      BY <2>4, <2>6
    <3>1. ~serving' /\ out' # <<>> /\ Last(out').kind = "ShuttingDown"
      OBVIOUS
    <3>2. ~NoFarewell'
      <4>1. out' \in Seq(WorkerMessage)
        BY DEF WorkerInv, TypeOK
      <4>2. Len(out') \in 1 .. Len(out') /\ Last(out') = out'[Len(out')]
        BY <3>1, <4>1 DEF Last
      <4> QED BY <3>1, <4>2 DEF NoFarewell
    <3>3. running' = NoRequest /\ queue' = <<>>
      BY <2>1, <3>1, <3>2 DEF Ends
    <3>4. r \in Requests /\ Accepted(r)' /\ ~Queued(r)'
      BY <2>4, <3>3 DEF Queued
    <3>5. Answered(r)'
      BY <3>3, <3>4, WorkerAssumption DEF WorkerInv, AnswersOK
    <3>6. PICK i \in 1 .. Len(out') : IsTerminal(out'[i], r)
      BY <3>5 DEF Answered, IsTerminal
    <3>7. <<i, out'[i].kind>> \in AnswersTo(r)'
      BY <3>6 DEF AnswersTo, IsTerminal
    <3> QED BY <3>7
  <2> HIDE DEF session, answers
  <2>9. Contract!Next
    BY <2>2, <2>4, <2>5, <2>6, <2>7, <2>8 DEF Contract!Next, Contract!KeepsOrGets, session, answers
  <2> QED BY <2>9
<1>2. CASE UNCHANGED vars
  <2>1. UNCHANGED <<accepted, out, serving>>
    BY <1>2 DEF vars, loopVars
  <2> QED BY <2>1 DEF Contract!vars, AnswersTo
<1> QED BY <1>1, <1>2

(* Initial states map to initial states.                                   *)
LEMMA ContractInit == Init => Contract!Init
<1> SUFFICES ASSUME Init PROVE Contract!Init
  OBVIOUS
<1>1. accepted = <<>> /\ out = <<>> /\ serving = TRUE
  BY DEF Init
<1>2. ToSet(accepted) = {}
  BY <1>1 DEF ToSet
<1>3. \A r \in Requests : AnswersTo(r) = {}
  BY <1>1 DEF AnswersTo
<1> QED BY <1>1, <1>2, <1>3 DEF Contract!Init

(* The worker implements the contract of docs/studio/adr/0003: whatever it does    *)
(* between the line it reads and the line it writes, its client sees requests     *)
(* taken in, each answered at most once, and a farewell only with all answered.   *)
THEOREM WorkerImplementsContract == Spec => ImplementsContract
<1>1. Init => Contract!Init
  BY ContractInit
<1>2. WorkerInv /\ WorkerInv' /\ [Next]_vars => [Contract!Next]_(Contract!vars)
  BY ContractStep
<1> QED BY <1>1, <1>2, WorkerInvHolds, PTL DEF Spec, ImplementsContract, Contract!Spec
=============================================================================
