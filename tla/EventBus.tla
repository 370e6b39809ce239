------------------------------ MODULE EventBus ------------------------------
(***************************************************************************)
(* The event buffer between the service and the interface (EventBus of      *)
(* scirust-studio-app-service).  Any thread publishes and the interface      *)
(* polls; the mutex makes each an action.  An event is its place in the      *)
(* order of publication.                                                     *)
(***************************************************************************)
EXTENDS Integers, Sequences

CONSTANTS
  Capacity,   \* the configured event_buffer_capacity
  MaxEvents   \* bound: events published

ASSUME BusAssumption == Capacity \in Nat /\ MaxEvents \in Nat

VARIABLES
  events,     \* BusState.events, oldest first
  dropped,    \* BusState.dropped
  published,  \* history: events published so far
  batch,      \* the EventBatch the last drain returned
  told        \* history: events the batches account for, delivered or lost

vars == <<events, dropped, published, batch, told>>

EventBatch == [events : Seq(Nat), dropped : Nat]

(* A capacity of zero is taken as one.                                        *)
Limit == IF Capacity = 0 THEN 1 ELSE Capacity

Init ==
  /\ events = <<>> /\ dropped = 0 /\ published = 0
  /\ batch = [events |-> <<>>, dropped |-> 0] /\ told = 0

(* Mutants: room is made one event too late; at the wrong end.                 *)
RoomOneLater(e) == IF Len(e) > Limit THEN Tail(e) ELSE e
RoomAtNewEnd(e) == IF Len(e) >= Limit THEN SubSeq(e, 1, Len(e) - 1) ELSE e
MakeRoom(e)     == IF Len(e) >= Limit THEN Tail(e) ELSE e

Publish ==
  /\ published < MaxEvents
  /\ published' = published + 1
  /\ events' = Append(MakeRoom(events), published')
  /\ dropped' = IF Len(events) >= Limit THEN dropped + 1 ELSE dropped
  /\ UNCHANGED <<batch, told>>

Drain ==
  /\ batch' = [events |-> events, dropped |-> dropped]
  /\ events' = <<>>
  /\ dropped' = 0
  /\ told' = told + dropped + Len(events)
  /\ UNCHANGED published

Next == Publish \/ Drain

Spec == Init /\ [][Next]_vars

-----------------------------------------------------------------------------
(* Properties.                                                               *)

(* Counters are natural numbers, and the buffer never exceeds its capacity.     *)
TypeOK ==
  /\ events \in Seq(Nat) /\ Len(events) <= Limit
  /\ dropped \in Nat /\ published \in 0 .. MaxEvents /\ told \in Nat
  /\ batch \in EventBatch

(* Nothing is lost in silence: what the batches told of, what is counted as     *)
(* dropped and what is buffered add up to everything ever published.           *)
LossIsCounted == told + dropped + Len(events) = published

(* The loss is at the oldest end: the buffer holds the newest events, in the    *)
(* order of publication, without a gap.                                       *)
NewestAreKept ==
  \A i \in 1 .. Len(events) : events[i] = published - Len(events) + i

(* An event is only given up for want of room.                                *)
LossOnlyWhenFull == dropped > 0 => Len(events) = Limit

(* A batch says exactly how many events are missing before its first one: the   *)
(* interface can place the gap.                                              *)
GapIsExact ==
  [][batch' # batch /\ batch'.events # <<>>
       => Head(batch'.events) = told + batch'.dropped + 1]_vars
=============================================================================
