--------------------------- MODULE AppQueueProofs ---------------------------
(***************************************************************************)
(* Theorems about the application task's queues, for every number of       *)
(* senders and every size of the queues.                                   *)
(*                                                                         *)
(* The argument counts: every message in the io queue has exactly one      *)
(* announcement (Announced), and the stack's events are at most GapSize.   *)
(***************************************************************************)
EXTENDS AppQueue, FiniteSetTheorems, TLAPS

Positions(q, e) == {i \in DOMAIN q : q[i] = e}
Event == {"io", "gap"}

-----------------------------------------------------------------------------
(* Counting in a sequence.                                                 *)

LEMMA PositionsFinite ==
  ASSUME NEW S, NEW q \in Seq(S), NEW e
  PROVE /\ IsFiniteSet(Positions(q, e))
        /\ Cardinality(Positions(q, e)) \in Nat
<1>1. Len(q) \in Nat /\ DOMAIN q = 1 .. Len(q)
  OBVIOUS
<1>2. IsFiniteSet(1 .. Len(q))
  BY <1>1, FS_Interval
<1>3. Positions(q, e) \in SUBSET (1 .. Len(q))
  BY <1>1 DEF Positions
<1> QED
  BY <1>2, <1>3, FS_Subset, FS_CardinalityType

(* An element at the end counts for itself only.                           *)
LEMMA CountAppend ==
  ASSUME NEW S, NEW q \in Seq(S), NEW x \in S, NEW e
  PROVE Cardinality(Positions(Append(q, x), e)) =
          Cardinality(Positions(q, e)) + (IF x = e THEN 1 ELSE 0)
<1> DEFINE n == Len(q) + 1
<1>1. /\ IsFiniteSet(Positions(q, e)) /\ Cardinality(Positions(q, e)) \in Nat
  BY PositionsFinite
<1>2. n \notin Positions(q, e)
  BY DEF Positions
<1>3. CASE x = e
  <2>1. Positions(Append(q, x), e) = Positions(q, e) \cup {n}
    BY <1>3 DEF Positions
  <2> QED
    BY <1>1, <1>2, <1>3, <2>1, FS_AddElement
<1>4. CASE x # e
  <2>1. Positions(Append(q, x), e) = Positions(q, e)
    BY <1>4 DEF Positions
  <2> QED
    BY <1>1, <1>4, <2>1
<1> QED
  BY <1>3, <1>4

(* Without its head, a sequence counts what the head did not.              *)
LEMMA CountTail ==
  ASSUME NEW S, NEW q \in Seq(S), q # <<>>, NEW e
  PROVE Cardinality(Positions(q, e)) =
          Cardinality(Positions(Tail(q), e)) + (IF Head(q) = e THEN 1 ELSE 0)
<1> DEFINE P == Positions(Tail(q), e)
           R == Positions(q, e) \ {1}
           f == [i \in P |-> i + 1]
<1>1. /\ Tail(q) \in Seq(S) /\ Len(q) \in Nat /\ Len(q) # 0
      /\ Len(Tail(q)) = Len(q) - 1
      /\ \A i \in 1 .. Len(Tail(q)) : Tail(q)[i] = q[i + 1]
      /\ Head(q) = q[1]
      /\ DOMAIN q = 1 .. Len(q) /\ DOMAIN Tail(q) = 1 .. Len(Tail(q))
  OBVIOUS
<1>2. /\ IsFiniteSet(P) /\ Cardinality(P) \in Nat
      /\ IsFiniteSet(Positions(q, e))
      /\ Cardinality(Positions(q, e)) \in Nat
  BY <1>1, PositionsFinite
<1>3. f \in [P -> R]
  BY <1>1 DEF Positions
<1>4. \A a, b \in P : f[a] = f[b] => a = b
  BY <1>1 DEF Positions
<1>5. \A r \in R : \E p \in P : f[p] = r
  <2>1. SUFFICES ASSUME NEW r \in R PROVE r - 1 \in P /\ f[r - 1] = r
    OBVIOUS
  <2>2. r - 1 \in P
    BY <1>1 DEF Positions
  <2> QED
    BY <2>2, <1>1 DEF Positions
<1>6. f \in Bijection(P, R)
  BY <1>3, <1>4, <1>5 DEF Bijection, Injection, Surjection, IsInjective
<1>7. ExistsBijection(P, R)
  BY <1>6 DEF ExistsBijection
<1> HIDE DEF f, P, R
<1>8. Cardinality(R) = Cardinality(P)
  BY <1>2, <1>7, FS_Bijection
<1>9. 1 \in Positions(q, e) <=> Head(q) = e
  BY <1>1 DEF Positions
<1>10. Cardinality(R) =
         IF Head(q) = e THEN Cardinality(Positions(q, e)) - 1 ELSE Cardinality(Positions(q, e))
  BY <1>2, <1>9, FS_RemoveElement DEF R
<1> QED
  BY <1>2, <1>8, <1>10 DEF P

(* The two kinds of events make up the queue.                              *)
LEMMA CountAll ==
  ASSUME NEW q \in Seq(Event)
  PROVE Len(q) = Cardinality(Positions(q, "io")) + Cardinality(Positions(q, "gap"))
<1>1. Len(q) \in Nat /\ DOMAIN q = 1 .. Len(q) /\ \A i \in DOMAIN q : q[i] \in Event
  OBVIOUS
<1>2. /\ Positions(q, "io") \cup Positions(q, "gap") = 1 .. Len(q)
      /\ Positions(q, "io") \cap Positions(q, "gap") = {}
  BY <1>1 DEF Positions, Event
<1>3. Cardinality(1 .. Len(q)) = Len(q)
  BY <1>1, FS_Interval
<1>4. /\ IsFiniteSet(Positions(q, "io")) /\ Cardinality(Positions(q, "io")) \in Nat
      /\ IsFiniteSet(Positions(q, "gap")) /\ Cardinality(Positions(q, "gap")) \in Nat
  BY PositionsFinite
<1>5. Cardinality(1 .. Len(q)) =
        Cardinality(Positions(q, "io")) + Cardinality(Positions(q, "gap")) - Cardinality({})
  BY <1>2, <1>4, FS_Union
<1> QED
  BY <1>3, <1>4, <1>5, FS_EmptySet

-----------------------------------------------------------------------------
(* The types.                                                              *)

(* A sender between its two sends has posted something.                    *)
Typed == TypeOK /\ \A s \in Sender : pc[s] = "event" => posted[s] # 0

(* Some facts about a single queue operation.                              *)
LEMMA QueueTypes ==
  ASSUME NEW S, NEW q \in Seq(S)
  PROVE /\ Len(q) \in Nat
        /\ \A x \in S : Append(q, x) \in Seq(S) /\ Len(Append(q, x)) = Len(q) + 1
        /\ q # <<>> => Head(q) \in S /\ Tail(q) \in Seq(S) /\ Len(Tail(q)) = Len(q) - 1
        /\ q = <<>> <=> Len(q) = 0
OBVIOUS

LEMMA TypedInit == Init => Typed
BY QueueAssumption DEF Init, Typed, TypeOK, QueueAssumption

LEMMA TypedStep == Typed /\ [Next]_vars => Typed'
<1> SUFFICES ASSUME Typed, [Next]_vars PROVE Typed'
  OBVIOUS
<1> USE QueueAssumption DEF QueueAssumption
<1>1. ASSUME NEW s \in Sender, SendIo(s) PROVE Typed'
  <2> DEFINE msg == <<s, posted'[s]>>
  <2>1. /\ posted' \in [Sender -> 0 .. MaxPosts]
        /\ posted'[s] \in 1 .. MaxPosts
        /\ \A r \in Sender : r # s => posted'[r] = posted[r]
    BY <1>1 DEF SendIo, Typed, TypeOK
  <2>2. msg \in Message
    BY <2>1 DEF Message
  <2>3. CASE Len(io) < IoSize
    <3>1. io' = Append(io, msg) /\ pc' = [pc EXCEPT ![s] = "event"] /\ refused' = refused
      BY <1>1, <2>3 DEF SendIo
    <3>2. io' \in Seq(Message) /\ Len(io') <= IoSize
      BY <2>2, <2>3, <3>1, QueueTypes DEF Typed, TypeOK
    <3> QED
      BY <1>1, <2>1, <3>1, <3>2 DEF SendIo, Typed, TypeOK
  <2>4. CASE ~(Len(io) < IoSize)
    BY <1>1, <2>1, <2>2, <2>4 DEF SendIo, Typed, TypeOK
  <2> QED
    BY <2>3, <2>4
<1>2. ASSUME NEW s \in Sender, SendEvt(s) PROVE Typed'
  <2>1. <<s, posted[s]>> \in Message
    BY <1>2 DEF SendEvt, Message, Typed, TypeOK
  <2>2. CASE Len(evt) < EvtSize
    <3>1. evt' \in Seq({"io", "gap"}) /\ refused' = refused
      BY <1>2, <2>2, QueueTypes DEF SendEvt, Typed, TypeOK
    <3> QED
      BY <1>2, <3>1 DEF SendEvt, Typed, TypeOK
  <2>3. CASE ~(Len(evt) < EvtSize)
    BY <1>2, <2>1, <2>3 DEF SendEvt, Typed, TypeOK
  <2> QED
    BY <2>2, <2>3
<1>3. CASE PostGap
  <2>1. evt' \in Seq({"io", "gap"})
    BY <1>3 DEF PostGap, Typed, TypeOK
  <2> QED
    BY <1>3, <2>1 DEF PostGap, Typed, TypeOK
<1>4. CASE TakeEvt
  BY <1>4 DEF TakeEvt, Typed, TypeOK
<1>5. CASE TakeIo
  <2>1. CASE io # <<>>
    <3>1. /\ Head(io) \in Message /\ Tail(io) \in Seq(Message) /\ Len(Tail(io)) <= IoSize
          /\ Append(handled, Head(io)) \in Seq(Message)
      BY <2>1, QueueTypes DEF Typed, TypeOK
    <3> QED
      BY <1>5, <2>1, <3>1 DEF TakeIo, Typed, TypeOK
  <2>2. CASE io = <<>>
    BY <1>5, <2>2 DEF TakeIo, Typed, TypeOK
  <2> QED
    BY <2>1, <2>2
<1>6. CASE HandlerReturns
  BY <1>6 DEF HandlerReturns, Typed, TypeOK
<1>7. CASE UNCHANGED vars
  BY <1>7 DEF vars, Typed, TypeOK
<1> QED
  BY <1>1, <1>2, <1>3, <1>4, <1>5, <1>6, <1>7 DEF Next, Task

(* Every variable keeps its type, and the io queue its size.               *)
THEOREM TypeCorrect == Spec => []TypeOK
<1>1. Typed => TypeOK
  BY DEF Typed
<1> QED
  BY <1>1, TypedInit, TypedStep, PTL DEF Spec

-----------------------------------------------------------------------------
(* The counts.                                                             *)

(* The stack never has more events waiting than messages.                  *)
GapBounded == Cardinality(Positions(evt, "gap")) <= GapSize
(* No post is refused at its second send.                                  *)
RefusedAtOnce ==
  /\ RefusedNeverQueued
  /\ \A m \in refused : m[2] <= posted[m[1]]
  /\ \A i \in DOMAIN io : io[i][2] <= posted[io[i][1]]
  /\ \A i \in DOMAIN handled : handled[i][2] <= posted[handled[i][1]]

Counted == Typed /\ Announced /\ GapBounded

LEMMA BetweenAdd ==
  ASSUME Typed, NEW s \in Sender, pc[s] = "idle", pc' = [pc EXCEPT ![s] = "event"]
  PROVE Cardinality(Between') = Cardinality(Between) + 1
<1>1. IsFiniteSet(Between)
  BY QueueAssumption, FS_Subset DEF Between, QueueAssumption
<1>2. Between' = Between \cup {s} /\ s \notin Between
  BY DEF Between, Typed, TypeOK
<1> QED
  BY <1>1, <1>2, FS_AddElement

LEMMA BetweenRemove ==
  ASSUME Typed, NEW s \in Sender, pc[s] = "event", pc' = [pc EXCEPT ![s] = "idle"]
  PROVE Cardinality(Between') \in Nat /\ Cardinality(Between) = Cardinality(Between') + 1
<1>1. IsFiniteSet(Between)
  BY QueueAssumption, FS_Subset DEF Between, QueueAssumption
<1>2. Between' = Between \ {s} /\ s \in Between
  BY DEF Between, Typed, TypeOK
<1>3. Cardinality(Between) \in Nat
  BY <1>1, FS_CardinalityType
<1>4. IsFiniteSet(Between') /\ Cardinality(Between') = Cardinality(Between) - 1
  BY <1>1, <1>2, FS_RemoveElement
<1>5. Cardinality(Between') \in Nat
  BY <1>4, FS_CardinalityType
<1> QED
  BY <1>3, <1>4, <1>5

LEMMA CountTypes ==
  ASSUME Typed
  PROVE /\ Cardinality(Between) \in Nat /\ Cardinality(Events("io")) \in Nat
        /\ Cardinality(Events("gap")) \in Nat /\ Len(io) \in Nat /\ Len(evt) \in Nat
        /\ Len(evt) = Cardinality(Events("io")) + Cardinality(Events("gap"))
        /\ (\E s \in Sender : pc[s] = "event") => Cardinality(Between) # 0
<1>1. IsFiniteSet(Between)
  BY QueueAssumption, FS_Subset DEF Between, QueueAssumption
<1>2. Cardinality(Between) \in Nat /\ (Cardinality(Between) = 0 => Between = {})
  BY <1>1, FS_CardinalityType, FS_EmptySet
<1>3. evt \in Seq(Event) /\ io \in Seq(Message)
  BY DEF Typed, TypeOK, Event
<1>4. Events("io") = Positions(evt, "io") /\ Events("gap") = Positions(evt, "gap")
  BY DEF Events, Positions
<1> QED
  BY <1>2, <1>3, <1>4, PositionsFinite, CountAll DEF Between

(* A send to the event queue never finds it full.                          *)
LEMMA RoomForEvents == Counted => EventsFit
<1> SUFFICES ASSUME Counted, (\E s \in Sender : pc[s] = "event") \/ Cardinality(Events("gap")) < GapSize
    PROVE Len(evt) < EvtSize
  BY DEF EventsFit
<1>1. Typed /\ Announced /\ GapBounded
  BY DEF Counted
<1>2. Events("gap") = Positions(evt, "gap")
  BY DEF Events, Positions
<1>3. Len(io) <= IoSize /\ IoSize \in Nat /\ GapSize \in Nat
  BY <1>1, QueueAssumption DEF Typed, TypeOK, QueueAssumption
<1> QED
  BY <1>1, <1>2, <1>3, CountTypes DEF Announced, GapBounded, EvtSize
LEMMA CountedInit == Init => Counted
<1> SUFFICES ASSUME Init PROVE Counted
  OBVIOUS
<1>1. Typed
  BY TypedInit
<1>2. /\ Positions(evt, "gap") = {} /\ Events("io") = {} /\ Between = {}
      /\ Len(io) = 0 /\ task # "io"
  BY DEF Init, Positions, Events, Between
<1>3. GapSize \in Nat
  BY QueueAssumption DEF QueueAssumption
<1>4. /\ Cardinality(Positions(evt, "gap")) = 0 /\ Cardinality(Events("io")) = 0
      /\ Cardinality(Between) = 0
  BY <1>2, FS_EmptySet
<1> QED
  BY <1>1, <1>2, <1>3, <1>4 DEF Counted, Announced, GapBounded

(* Every step keeps the counts: a post adds a message and a sender between *)
(* its sends, the second send turns that sender into an event, the task    *)
(* takes the event and then the message.                                   *)
LEMMA CountedStep == Counted /\ [Next]_vars => Counted'
<1> SUFFICES ASSUME Counted, [Next]_vars PROVE Announced' /\ GapBounded'
  BY TypedStep DEF Counted
<1> DEFINE B == Cardinality(Between)
           I == Cardinality(Positions(evt, "io"))
           G == Cardinality(Positions(evt, "gap"))
           T == IF task = "io" THEN 1 ELSE 0
<1>1. Typed /\ Typed' /\ EventsFit
  BY TypedStep, RoomForEvents DEF Counted
<1>2. /\ Len(io) = I + B + T /\ G <= GapSize
      /\ B \in Nat /\ I \in Nat /\ G \in Nat
      /\ evt \in Seq(Event) /\ io \in Seq(Message) /\ GapSize \in Nat
  <2>1. Events("io") = Positions(evt, "io") /\ Events("gap") = Positions(evt, "gap")
    BY DEF Events, Positions
  <2>2. evt \in Seq(Event) /\ io \in Seq(Message) /\ GapSize \in Nat
    BY <1>1, QueueAssumption DEF Typed, TypeOK, Event, QueueAssumption
  <2>3. B \in Nat /\ I \in Nat /\ G \in Nat
    BY <1>1, <2>1, CountTypes
  <2>4. Len(io) = I + B + T /\ G <= GapSize
    BY <2>1 DEF Counted, Announced, GapBounded
  <2> QED
    BY <2>2, <2>3, <2>4
<1>3. SUFFICES /\ Len(io)' = I' + B' + T'
               /\ G' <= GapSize
  BY DEF Announced, GapBounded, Events, Positions
<1>4. ASSUME NEW s \in Sender, SendIo(s) PROVE Len(io)' = I' + B' + T' /\ G' <= GapSize
  <2>1. I' = I /\ G' = G /\ T' = T
    BY <1>4 DEF SendIo
  <2>2. CASE Len(io) < IoSize
    <3>1. Len(io') = Len(io) + 1
      BY <1>2, <1>4, <2>2 DEF SendIo
    <3>2. B' = B + 1
      BY <1>1, <1>4, <2>2, BetweenAdd DEF SendIo
    <3> QED
      BY <1>2, <2>1, <3>1, <3>2
  <2>3. CASE ~(Len(io) < IoSize)
    BY <1>2, <1>4, <2>1, <2>3 DEF SendIo, Between
  <2> QED
    BY <2>2, <2>3
<1>5. ASSUME NEW s \in Sender, SendEvt(s) PROVE Len(io)' = I' + B' + T' /\ G' <= GapSize
  <2>1. evt' = Append(evt, "io")
    BY <1>1, <1>5 DEF SendEvt, EventsFit
  <2>2. I' = I + 1 /\ G' = G
    BY <1>2, <2>1, CountAppend DEF Event
  <2>3. B = B' + 1 /\ B' \in Nat
    BY <1>1, <1>5, BetweenRemove DEF SendEvt
  <2> QED
    BY <1>2, <1>5, <2>2, <2>3 DEF SendEvt
<1>6. CASE PostGap
  <2>1. evt' = Append(evt, "gap") /\ G < GapSize
    BY <1>1, <1>6 DEF PostGap, EventsFit, Events, Positions
  <2>2. I' = I /\ G' = G + 1
    BY <1>2, <2>1, CountAppend DEF Event
  <2> QED
    BY <1>2, <1>6, <2>1, <2>2 DEF PostGap, Between
<1>7. CASE TakeEvt
  <2>1. evt # <<>> /\ evt' = Tail(evt) /\ io' = io /\ B' = B /\ T = 0
    BY <1>7 DEF TakeEvt, Between
  <2>2. T' = IF Head(evt) = "io" THEN 1 ELSE 0
    BY <1>7 DEF TakeEvt
  <2>3. /\ I = I' + (IF Head(evt) = "io" THEN 1 ELSE 0)
        /\ G = G' + (IF Head(evt) = "gap" THEN 1 ELSE 0)
    BY <1>2, <2>1, CountTail
  <2>4. evt' \in Seq(Event)
    BY <1>1 DEF Typed, TypeOK, Event
  <2>5. I' \in Nat /\ G' \in Nat
    BY <2>4, PositionsFinite
  <2> QED
    BY <1>2, <2>1, <2>2, <2>3, <2>5
<1>8. CASE TakeIo
  <2>1. io # <<>>
    BY <1>2, <1>8 DEF TakeIo
  <2>2. Len(io') = Len(io) - 1 /\ T = 1 /\ T' = 0
    BY <1>2, <1>8, <2>1 DEF TakeIo
  <2>3. I' = I /\ G' = G /\ B' = B
    BY <1>8 DEF TakeIo, Between
  <2> QED
    BY <1>2, <2>2, <2>3
<1>9. CASE HandlerReturns
  BY <1>2, <1>9 DEF HandlerReturns, Between
<1>10. CASE UNCHANGED vars
  BY <1>2, <1>10 DEF vars, Between
<1> QED
  BY <1>4, <1>5, <1>6, <1>7, <1>8, <1>9, <1>10 DEF Next, Task

LEMMA CountedAlways == Spec => []Counted
BY CountedInit, CountedStep, PTL DEF Spec

(* Every message in the io queue has one announcement.                     *)
THEOREM AnnouncedOnce == Spec => []Announced
<1>1. Counted => Announced
  BY DEF Counted
<1> QED
  BY <1>1, CountedAlways, PTL

(* The event queue is never full when something has to be sent to it.      *)
THEOREM EventsAlwaysFit == Spec => []EventsFit
BY CountedAlways, RoomForEvents, PTL

(* On an io event the task finds a message.                                *)
THEOREM EventsFindMessages == Spec => []EventFindsMessage
<1>1. Counted => EventFindsMessage
  <2> SUFFICES ASSUME Counted, task = "io" PROVE io # <<>>
    BY DEF EventFindsMessage
  <2>1. Len(io) = Cardinality(Events("io")) + Cardinality(Between) + 1
    BY DEF Counted, Announced
  <2>2. Cardinality(Events("io")) \in Nat /\ Cardinality(Between) \in Nat /\ io \in Seq(Message)
    BY CountTypes DEF Counted, Typed, TypeOK
  <2> QED
    BY <2>1, <2>2
<1> QED
  BY <1>1, CountedAlways, PTL

-----------------------------------------------------------------------------
(* Refused posts.                                                          *)

LEMMA RefusedInit == Init => RefusedAtOnce
BY DEF Init, RefusedAtOnce, RefusedNeverQueued

(* A refused message is younger than what is queued or handled, and stays  *)
(* out, since no second send is refused.                                   *)
LEMMA RefusedStep == Counted /\ RefusedAtOnce /\ [Next]_vars => RefusedAtOnce'
<1> SUFFICES ASSUME Counted, RefusedAtOnce, [Next]_vars PROVE RefusedAtOnce'
  OBVIOUS
<1>1. Typed /\ EventsFit
  BY RoomForEvents DEF Counted
<1>2. /\ io \in Seq(Message) /\ handled \in Seq(Message) /\ refused \subseteq Message
      /\ posted \in [Sender -> 0 .. MaxPosts] /\ MaxPosts \in Nat
  BY <1>1, QueueAssumption DEF Typed, TypeOK, QueueAssumption
<1>3. \A m \in Message : m[1] \in Sender /\ m[2] \in 1 .. MaxPosts /\ m = <<m[1], m[2]>>
  BY DEF Message
<1>4. ASSUME NEW s \in Sender, SendIo(s) PROVE RefusedAtOnce'
  <2> DEFINE msg == <<s, posted[s] + 1>>
  <2>1. /\ posted'[s] = posted[s] + 1 /\ posted' \in [Sender -> 0 .. MaxPosts]
        /\ \A r \in Sender : posted[r] <= posted'[r]
        /\ handled' = handled
    BY <1>2, <1>4 DEF SendIo
  <2>2. /\ \A m \in refused : m # msg /\ m[2] <= posted'[m[1]]
        /\ \A i \in DOMAIN io : io[i] # msg /\ io[i][2] <= posted'[io[i][1]]
        /\ \A i \in DOMAIN handled : handled[i] # msg /\ handled[i][2] <= posted'[handled[i][1]]
    <3>1. ASSUME NEW m \in Message, m[2] <= posted[m[1]] PROVE m # msg /\ m[2] <= posted'[m[1]]
      BY <1>2, <1>3, <2>1, <3>1
    <3> QED
      BY <1>2, <3>1 DEF RefusedAtOnce
  <2>3. CASE Len(io) < IoSize
    <3>1. io' = Append(io, msg) /\ refused' = refused
      BY <1>4, <2>1, <2>3 DEF SendIo
    <3>2. \A i \in DOMAIN io' : io'[i] = msg \/ (i \in DOMAIN io /\ io'[i] = io[i])
      BY <1>2, <3>1
    <3> QED
      BY <1>2, <2>1, <2>2, <3>1, <3>2 DEF RefusedAtOnce, RefusedNeverQueued
  <2>4. CASE ~(Len(io) < IoSize)
    <3>1. io' = io /\ refused' = refused \cup {msg}
      BY <1>4, <2>1, <2>4 DEF SendIo
    <3> QED
      BY <1>2, <2>1, <2>2, <3>1 DEF RefusedAtOnce, RefusedNeverQueued
  <2> QED
    BY <2>3, <2>4
<1>5. ASSUME NEW s \in Sender, SendEvt(s) PROVE RefusedAtOnce'
  BY <1>1, <1>5 DEF SendEvt, EventsFit, RefusedAtOnce, RefusedNeverQueued
<1>6. CASE TakeIo
  <2>1. CASE io # <<>>
    <3>1. /\ handled' = Append(handled, io[1]) /\ io' = Tail(io) /\ 1 \in DOMAIN io
          /\ refused' = refused /\ posted' = posted
      BY <1>2, <1>6, <2>1 DEF TakeIo
    <3>2. /\ \A i \in DOMAIN io' : \E j \in DOMAIN io : io'[i] = io[j]
          /\ \A i \in DOMAIN handled' : handled'[i] = io[1] \/ (i \in DOMAIN handled /\ handled'[i] = handled[i])
      <4>1. \A i \in DOMAIN io' : i + 1 \in DOMAIN io /\ io'[i] = io[i + 1]
        BY <1>2, <2>1, <3>1
      <4>2. io[1] \in Message
        BY <1>2, <3>1
      <4>3. ASSUME NEW i \in DOMAIN handled', i # Len(handled) + 1
            PROVE i \in DOMAIN handled /\ handled'[i] = handled[i]
        BY <1>2, <3>1, <4>2, <4>3
      <4>4. handled'[Len(handled) + 1] = io[1]
        BY <1>2, <3>1, <4>2
      <4> QED
        BY <4>1, <4>3, <4>4
    <3>3. \A i \in DOMAIN io' : io'[i] \notin refused' /\ io'[i][2] <= posted'[io'[i][1]]
      BY <3>1, <3>2 DEF RefusedAtOnce, RefusedNeverQueued
    <3>4. \A i \in DOMAIN handled' :
            handled'[i] \notin refused' /\ handled'[i][2] <= posted'[handled'[i][1]]
      <4> SUFFICES ASSUME NEW i \in DOMAIN handled'
          PROVE handled'[i] \notin refused' /\ handled'[i][2] <= posted'[handled'[i][1]]
        OBVIOUS
      <4>1. CASE handled'[i] = io[1]
        BY <3>1, <4>1 DEF RefusedAtOnce, RefusedNeverQueued
      <4>2. CASE i \in DOMAIN handled /\ handled'[i] = handled[i]
        BY <3>1, <4>2 DEF RefusedAtOnce, RefusedNeverQueued
      <4> QED
        BY <3>2, <4>1, <4>2
    <3>5. \A m \in refused' : m[2] <= posted'[m[1]]
      BY <3>1 DEF RefusedAtOnce
    <3> QED
      BY <3>3, <3>4, <3>5 DEF RefusedAtOnce, RefusedNeverQueued
  <2>2. CASE io = <<>>
    BY <1>6, <2>2 DEF TakeIo, RefusedAtOnce, RefusedNeverQueued
  <2> QED
    BY <2>1, <2>2
<1>7. CASE PostGap \/ TakeEvt \/ HandlerReturns \/ UNCHANGED vars
  BY <1>7 DEF PostGap, TakeEvt, HandlerReturns, vars, RefusedAtOnce, RefusedNeverQueued
<1> QED
  BY <1>4, <1>5, <1>6, <1>7 DEF Next, Task

(* A refused message is never queued or handled.                           *)
THEOREM RefusedStaysOut == Spec => []RefusedNeverQueued
<1>1. RefusedAtOnce => RefusedNeverQueued
  BY DEF RefusedAtOnce
<1> QED
  BY <1>1, CountedAlways, RefusedInit, RefusedStep, PTL DEF Spec

-----------------------------------------------------------------------------
(* The queues implement the channel, but for its liveness.                 *)

THEOREM ImplementsSafety == Spec => Channel!Safety
<1>1. Init => Channel!Init
  BY DEF Init, Channel!Init
<1>2. Counted /\ [Next]_vars => [Channel!Next]_<<io, handled>>
  <2> SUFFICES ASSUME Counted, [Next]_vars
      PROVE Channel!Next \/ UNCHANGED <<io, handled>>
    OBVIOUS
  <2>1. ASSUME NEW s \in Sender, SendIo(s) PROVE Channel!Next \/ UNCHANGED <<io, handled>>
    <3>1. CASE Len(io) < IoSize
      <4>1. <<s, posted'[s]>> \in Message
        BY <2>1, QueueAssumption DEF SendIo, Message, Counted, Typed, TypeOK, QueueAssumption
      <4>2. Channel!Put(<<s, posted'[s]>>)
        BY <2>1, <3>1 DEF SendIo, Channel!Put
      <4> QED
        BY <4>1, <4>2 DEF Channel!Next
    <3>2. CASE ~(Len(io) < IoSize)
      BY <2>1, <3>2 DEF SendIo
    <3> QED
      BY <3>1, <3>2
  <2>2. CASE TakeIo
    BY <2>2 DEF TakeIo, Channel!Next, Channel!Get
  <2>3. CASE PostGap \/ TakeEvt \/ HandlerReturns \/ UNCHANGED vars \/ \E s \in Sender : SendEvt(s)
    BY <2>3 DEF PostGap, TakeEvt, HandlerReturns, vars, SendEvt
  <2> QED
    BY <2>1, <2>2, <2>3 DEF Next, Task
<1> QED
  BY <1>1, <1>2, CountedAlways, PTL DEF Spec, Channel!Safety
=============================================================================
