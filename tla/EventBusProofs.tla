--------------------------- MODULE EventBusProofs ---------------------------
(* Proofs about the event buffer, for every capacity and any number of events. *)
EXTENDS EventBus, TLAPS

(* What a loss and an order have to do with each other: the counts, the buffer  *)
(* and the order of publication, together, are inductive.                     *)
IInv == TypeOK /\ LossIsCounted /\ NewestAreKept /\ LossOnlyWhenFull

(* A capacity of zero is taken as one, so there is always room for an event. *)
LEMMA LimitIsPositive == Limit \in Nat \ {0}
  BY BusAssumption DEF Limit

(* Making room keeps the newest events, and leaves space for one more.          *)
LEMMA RoomForOne ==
  ASSUME IInv
  PROVE  /\ MakeRoom(events) \in Seq(Nat)
         /\ Len(MakeRoom(events)) = IF Len(events) >= Limit THEN Len(events) - 1
                                                            ELSE Len(events)
         /\ Len(MakeRoom(events)) < Limit
         /\ \A i \in 1 .. Len(MakeRoom(events)) :
              MakeRoom(events)[i] = published - Len(MakeRoom(events)) + i
<1>1. CASE Len(events) >= Limit
  <2>1. events # <<>> /\ Len(events) = Limit
    BY <1>1, LimitIsPositive DEF IInv, TypeOK
  <2>2. MakeRoom(events) = Tail(events)
    BY <1>1 DEF MakeRoom
  <2>3. /\ Tail(events) \in Seq(Nat) /\ Len(Tail(events)) = Len(events) - 1
        /\ \A i \in 1 .. Len(Tail(events)) : Tail(events)[i] = events[i + 1]
    BY <2>1 DEF IInv, TypeOK
  <2>4. \A i \in 1 .. Len(Tail(events)) : i + 1 \in 1 .. Len(events)
    BY <2>3, <2>1, LimitIsPositive
  <2> QED
    BY <1>1, <2>1, <2>2, <2>3, <2>4, LimitIsPositive DEF IInv, TypeOK, NewestAreKept
<1>2. CASE ~(Len(events) >= Limit)
  BY <1>2, LimitIsPositive DEF IInv, TypeOK, NewestAreKept, MakeRoom
<1> QED
  BY <1>1, <1>2

(* An empty buffer.                                                          *)
LEMMA InitIInv == Init => IInv
  BY BusAssumption, LimitIsPositive
     DEF Init, IInv, TypeOK, LossIsCounted, NewestAreKept, LossOnlyWhenFull, EventBatch

(* publish: the new event goes in, the oldest may go out and be counted.     *)
LEMMA PublishKeeps == IInv /\ Publish => IInv'
<1> SUFFICES ASSUME IInv, Publish PROVE IInv'
  OBVIOUS
<1> DEFINE room == MakeRoom(events)
<1>1. room \in Seq(Nat) /\ Len(room) < Limit
  BY RoomForOne
<1>2. published' \in Nat /\ published \in Nat
  BY BusAssumption DEF Publish, IInv, TypeOK
<1>3. /\ events' = Append(room, published')
      /\ events' \in Seq(Nat) /\ Len(events') = Len(room) + 1
  BY <1>1, <1>2 DEF Publish
<1>4. TypeOK'
  BY <1>1, <1>2, <1>3, LimitIsPositive, BusAssumption DEF Publish, IInv, TypeOK, Limit
<1>5. LossIsCounted'
  <2>1. told' = told /\ published' = published + 1 /\ Len(events) \in Nat
    BY DEF Publish, IInv, TypeOK
  <2>2. told \in Nat /\ dropped \in Nat /\ told + dropped + Len(events) = published
    BY DEF IInv, TypeOK, LossIsCounted
  <2>3. CASE Len(events) >= Limit
    <3>1. dropped' = dropped + 1 /\ Len(events') = Len(events)
      BY <1>3, <2>1, <2>3, RoomForOne DEF Publish
    <3> QED
      BY <2>1, <2>2, <3>1, <1>2 DEF LossIsCounted
  <2>4. CASE ~(Len(events) >= Limit)
    <3>1. dropped' = dropped /\ Len(events') = Len(events) + 1
      BY <1>3, <2>1, <2>4, RoomForOne DEF Publish
    <3> QED
      BY <2>1, <2>2, <3>1, <1>2 DEF LossIsCounted
  <2> QED
    BY <2>3, <2>4
<1>6. NewestAreKept'
  <2>1. \A i \in 1 .. Len(events') :
          events'[i] = IF i = Len(room) + 1 THEN published' ELSE room[i]
    BY <1>1, <1>2, <1>3
  <2>2. \A i \in 1 .. Len(room) : room[i] = published - Len(room) + i
    BY RoomForOne
  <2> QED
    BY <1>1, <1>2, <1>3, <2>1, <2>2 DEF NewestAreKept, Publish
<1>7. LossOnlyWhenFull'
  BY <1>1, <1>3, RoomForOne, LimitIsPositive
     DEF Publish, IInv, TypeOK, LossOnlyWhenFull, Limit
<1> QED
  BY <1>4, <1>5, <1>6, <1>7 DEF IInv

(* drain: everything buffered is handed over, with the count.                *)
LEMMA DrainKeeps == IInv /\ Drain => IInv'
<1> SUFFICES ASSUME IInv, Drain PROVE IInv'
  OBVIOUS
<1>1. events' = <<>> /\ dropped' = 0 /\ published' = published
  BY DEF Drain
<1>2. TypeOK'
  BY <1>1, LimitIsPositive DEF Drain, IInv, TypeOK, EventBatch, Limit
<1>3. LossIsCounted' /\ NewestAreKept' /\ LossOnlyWhenFull'
  BY <1>1 DEF Drain, IInv, TypeOK, LossIsCounted, NewestAreKept, LossOnlyWhenFull
<1> QED
  BY <1>2, <1>3 DEF IInv

(* The four properties are inductive together.                               *)
LEMMA NextKeeps == IInv /\ [Next]_vars => IInv'
<1> SUFFICES ASSUME IInv, [Next]_vars PROVE IInv'
  OBVIOUS
<1>1. CASE Publish
  BY <1>1, PublishKeeps
<1>2. CASE Drain
  BY <1>2, DrainKeeps
<1>3. CASE UNCHANGED vars
  BY <1>3 DEF vars, IInv, TypeOK, LossIsCounted, NewestAreKept, LossOnlyWhenFull, Limit
<1> QED
  BY <1>1, <1>2, <1>3 DEF Next

(* Whatever the capacity, the buffer stays within it and every loss is counted,  *)
(* at the oldest end, and only for want of room (EventBus::publish and drain).   *)
THEOREM NothingLostInSilence == Spec => []IInv
  BY InitIInv, NextKeeps, PTL DEF Spec

(* The counters keep their types and the buffer stays within its capacity.       *)
THEOREM BufferStaysBounded == Spec => []TypeOK
<1>1. IInv => TypeOK
  BY DEF IInv
<1> QED
  BY <1>1, NothingLostInSilence, PTL

(* EventBus::drain and publish account for every event ever published.           *)
THEOREM EveryLossIsCounted == Spec => []LossIsCounted
<1>1. IInv => LossIsCounted
  BY DEF IInv
<1> QED
  BY <1>1, NothingLostInSilence, PTL

(* EventBus::publish gives up the oldest event, never a newer one.               *)
THEOREM NewestEventsAreKept == Spec => []NewestAreKept
<1>1. IInv => NewestAreKept
  BY DEF IInv
<1> QED
  BY <1>1, NothingLostInSilence, PTL

(* EventBus::publish gives up no event while there is room.                      *)
THEOREM NoNeedlessLoss == Spec => []LossOnlyWhenFull
<1>1. IInv => LossOnlyWhenFull
  BY DEF IInv
<1> QED
  BY <1>1, NothingLostInSilence, PTL

(* The count a batch carries is exactly the gap before its first event.          *)
THEOREM GapsAreExact == Spec => GapIsExact
<1> DEFINE Gap == batch' # batch /\ batch'.events # <<>>
                    => Head(batch'.events) = told + batch'.dropped + 1
<1>1. IInv /\ [Next]_vars => [Gap]_vars
  <2> SUFFICES ASSUME IInv, [Next]_vars, batch' # batch, batch'.events # <<>>
               PROVE  Head(batch'.events) = told + batch'.dropped + 1
    OBVIOUS
  <2>1. Drain
    BY DEF Next, Publish, vars
  <2>2. batch'.events = events /\ batch'.dropped = dropped
    BY <2>1 DEF Drain
  <2>3. Len(events) \in Nat /\ Len(events) >= 1 /\ Head(events) = events[1]
    BY <2>2 DEF IInv, TypeOK
  <2>4. events[1] = published - Len(events) + 1
    BY <2>3 DEF IInv, NewestAreKept
  <2> QED
    BY <2>2, <2>3, <2>4 DEF IInv, TypeOK, LossIsCounted
<1> QED
  BY <1>1, NothingLostInSilence, PTL DEF Spec, GapIsExact
=============================================================================
