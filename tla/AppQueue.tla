------------------------------ MODULE AppQueue ------------------------------
(***************************************************************************)
(* The two queues of an application task (dfu_task.c; the applications     *)
(* and samples have the same task): a message goes to the io queue first,  *)
(* then an event that announces it goes to the event queue, which the      *)
(* Bluetooth stack (external) uses too.  The task takes an event, and on   *)
(* an io event one message.  Neither send waits for room.                  *)
(***************************************************************************)
EXTENDS Naturals, Sequences, FiniteSets

CONSTANTS
  Sender,      \* what posts messages: the task's own handlers, timers, the stack
  App,         \* the sender that is the task itself
  IoSize,      \* MAX_NUMBER_OF_IO_MESSAGE
  GapSize,     \* MAX_NUMBER_OF_GAP_MESSAGE
  MaxPosts     \* bound: messages of each sender

ASSUME QueueAssumption ==
  /\ IsFiniteSet(Sender) /\ App \in Sender
  /\ IoSize \in Nat \ {0} /\ GapSize \in Nat /\ MaxPosts \in Nat

VARIABLES
  io,        \* the io queue
  evt,       \* the event queue
  pc,        \* where each sender is: "event" is between its two sends
  task,      \* what the task does
  posted,    \* messages each sender has tried to post
  refused,   \* messages whose post returned false
  handled    \* messages handed to the handler

vars == <<io, evt, pc, task, posted, refused, handled>>

(* Mutant: an event queue as long as the io queue.                         *)
EvtSizeIo == IoSize
(* MAX_NUMBER_OF_EVENT_MESSAGE                                             *)
EvtSize == GapSize + IoSize

Message == Sender \X (1 .. MaxPosts)
Events(e) == {i \in DOMAIN evt : evt[i] = e}

Init ==
  /\ io = <<>> /\ evt = <<>>
  /\ pc = [s \in Sender |-> "idle"] /\ task = "recv"
  /\ posted = [s \in Sender |-> 0] /\ refused = {} /\ handled = <<>>

(* Mutant: off by one.                                                     *)
SendIoOver(s) ==
  /\ pc[s] = "idle" /\ posted[s] < MaxPosts
  /\ s = App => task = "handle"
  /\ posted' = [posted EXCEPT ![s] = @ + 1]
  /\ IF Len(io) <= IoSize
     THEN /\ io' = Append(io, <<s, posted'[s]>>)
          /\ pc' = [pc EXCEPT ![s] = "event"]
          /\ UNCHANGED refused
     ELSE /\ refused' = refused \cup {<<s, posted'[s]>>}
          /\ UNCHANGED <<io, pc>>
  /\ UNCHANGED <<evt, task, handled>>

(* The first send.  The task posts while it handles something.             *)
SendIo(s) ==
  /\ pc[s] = "idle" /\ posted[s] < MaxPosts
  /\ s = App => task = "handle"
  /\ posted' = [posted EXCEPT ![s] = @ + 1]
  /\ IF Len(io) < IoSize
     THEN /\ io' = Append(io, <<s, posted'[s]>>)
          /\ pc' = [pc EXCEPT ![s] = "event"]
          /\ UNCHANGED refused
     ELSE /\ refused' = refused \cup {<<s, posted'[s]>>}
          /\ UNCHANGED <<io, pc>>
  /\ UNCHANGED <<evt, task, handled>>

(* Mutant: no event when one is waiting already.                           *)
SendEvtOnce(s) ==
  /\ pc[s] = "event"
  /\ pc' = [pc EXCEPT ![s] = "idle"]
  /\ evt' = IF Events("io") = {} THEN Append(evt, "io") ELSE evt
  /\ UNCHANGED <<io, task, posted, refused, handled>>

(* The second send; refused, it leaves the message where it is.            *)
SendEvt(s) ==
  /\ pc[s] = "event"
  /\ pc' = [pc EXCEPT ![s] = "idle"]
  /\ IF Len(evt) < EvtSize
     THEN evt' = Append(evt, "io") /\ UNCHANGED refused
     ELSE refused' = refused \cup {<<s, posted[s]>>} /\ UNCHANGED evt
  /\ UNCHANGED <<io, task, posted, handled>>

(* The stack (external) has GapSize messages of its own and announces each *)
(* one with an event.                                                      *)
PostGap ==
  /\ Cardinality(Events("gap")) < GapSize
  /\ evt' = IF Len(evt) < EvtSize THEN Append(evt, "gap") ELSE evt
  /\ UNCHANGED <<io, pc, task, posted, refused, handled>>

(* The loop of dfu_main_task.                                              *)
TakeEvt ==
  /\ task = "recv" /\ evt # <<>>
  /\ task' = IF Head(evt) = "io" THEN "io" ELSE "handle"
  /\ evt' = Tail(evt)
  /\ UNCHANGED <<io, pc, posted, refused, handled>>

(* Mutant: an event stands for all the messages.                           *)
TakeIoAll ==
  /\ task = "io"
  /\ handled' = handled \o io /\ io' = <<>> /\ task' = "handle"
  /\ UNCHANGED <<evt, pc, posted, refused>>

TakeIo ==
  /\ task = "io"
  /\ IF io # <<>>
     THEN handled' = Append(handled, Head(io)) /\ io' = Tail(io) /\ task' = "handle"
     ELSE task' = "recv" /\ UNCHANGED <<io, handled>>
  /\ UNCHANGED <<evt, pc, posted, refused>>

HandlerReturns ==
  /\ task = "handle" /\ pc[App] = "idle"
  /\ task' = "recv"
  /\ UNCHANGED <<io, evt, pc, posted, refused, handled>>

Task == TakeEvt \/ TakeIo \/ HandlerReturns
Next == Task \/ PostGap \/ \E s \in Sender : SendIo(s) \/ SendEvt(s)

Spec == Init /\ [][Next]_vars
(* The scheduler runs the task and lets a sender make its second send.     *)
FairSpec == Spec /\ WF_vars(Task) /\ \A s \in Sender : WF_vars(SendEvt(s))

-----------------------------------------------------------------------------
(* The types.                                                              *)
TypeOK ==
  /\ io \in Seq(Message) /\ Len(io) <= IoSize
  /\ evt \in Seq({"io", "gap"})
  /\ pc \in [Sender -> {"idle", "event"}]
  /\ task \in {"recv", "io", "handle"}
  /\ posted \in [Sender -> 0 .. MaxPosts]
  /\ refused \in SUBSET Message
  /\ handled \in Seq(Message)

(* Each message in the io queue has one announcement: an event, a sender   *)
(* about to send it, or the task that has just taken it.                   *)
Between == {s \in Sender : pc[s] = "event"}
Announced ==
  Len(io) = Cardinality(Events("io")) + Cardinality(Between) + (IF task = "io" THEN 1 ELSE 0)

(* A send to the event queue never finds it full, neither the second send  *)
(* of a post nor an event of the stack: its size is the sum of the others. *)
EventsFit ==
  (\E s \in Sender : pc[s] = "event") \/ Cardinality(Events("gap")) < GapSize
    => Len(evt) < EvtSize

(* A post that returned false left nothing behind: its message is not in   *)
(* the io queue and is never handled.                                      *)
RefusedNeverQueued ==
  /\ \A i \in DOMAIN io : io[i] \notin refused
  /\ \A i \in DOMAIN handled : handled[i] \notin refused

(* On an io event the task finds a message: events never outnumber what    *)
(* they announce, in whatever order several senders make their two sends.  *)
EventFindsMessage == task = "io" => io # <<>>

(* The queues implement the channel: what is accepted is handled once, in  *)
(* order, and eventually, however the senders interleave.                  *)
Channel == INSTANCE AppChannel WITH queue <- io, Size <- IoSize
ImplementsChannel == Channel!Spec

=============================================================================
