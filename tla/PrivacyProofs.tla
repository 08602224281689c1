----------------------------- MODULE PrivacyProofs -----------------------------
(***************************************************************************)
(* Theorems about the privacy manager, for every number of bonds, size of  *)
(* the resolving list and bound.                                           *)
(*                                                                         *)
(* The argument is about a manager m and the request q that is under way:  *)
(* Sound(m, q) holds initially, is kept by every step, and is strong       *)
(* enough for the invariants.                                              *)
(***************************************************************************)
EXTENDS Privacy, FiniteSetTheorems, TLAPS

Kinds(m) ==
  /\ m \in Manager
  /\ \A i \in Slots : m.table[i].addr = NoDevice => m.table[i] = ZeroEntry
  /\ \A i \in Slots : m.table[i].state = "REMOVE_PENDING" => m.table[i].is_added # "IDLE"

Distinct(t) ==
  \A i, j \in Slots : t[i].addr = t[j].addr /\ t[i].addr # NoDevice => i = j

Tracked(m, q) ==
  /\ q \in Request
  /\ m.modify_pending <=> q.op # "NONE"
  /\ q.op \in {"ADD", "REMOVE"} =>
       /\ m.idx \in Slots
       /\ q.addr \in Devices
       /\ m.table[m.idx].addr = q.addr
       /\ m.table[m.idx].is_added # "IDLE"
  /\ q.op = "CLEAR" => m.clear_pending /\ q.cause \notin DropCauses

Quiet(m) ==
  m.state = "IDLE" =>
    ~m.clear_pending /\ ~m.modify_pending /\ \A i \in Slots : m.table[i].state = "IDLE"

Sound(m, q) == Kinds(m) /\ Distinct(m.table) /\ Tracked(m, q) /\ Quiet(m)

LEMMA SlotFacts == Slots \subseteq Nat /\ NoIndex \notin Slots /\ NoDevice \notin Devices
BY PrivacyAssumption, SMT DEF PrivacyAssumption, Slots, NoIndex

LEMMA ZeroFacts ==
  /\ ZeroEntry \in Entry /\ ZeroEntry.addr = NoDevice
  /\ ZeroEntry.state = "IDLE" /\ ZeroEntry.is_added = "IDLE"
BY DEF ZeroEntry, Entry

(* Fields of a manager.                                                    *)
LEMMA ManagerFields ==
  ASSUME NEW m \in Manager
  PROVE /\ m = [table |-> m.table, clear_pending |-> m.clear_pending,
                modify_pending |-> m.modify_pending, idx |-> m.idx, state |-> m.state]
        /\ m.table \in [Slots -> Entry]
        /\ \A i \in Slots : m.table[i] \in Entry
        /\ m.clear_pending \in BOOLEAN /\ m.modify_pending \in BOOLEAN
        /\ m.idx \in Slots \cup {NoIndex} /\ m.state \in {"IDLE", "BUSY"}
BY DEF Manager

-----------------------------------------------------------------------------
(* The three operations keep a manager sound, whatever request is under    *)
(* way.                                                                    *)

LEMMA ClearSound ==
  ASSUME NEW m, NEW q, Sound(m, q), NEW m2 \in ModifyClear(m)
  PROVE Sound(m2, q)
<1>1. m2 = [m EXCEPT !.clear_pending = TRUE, !.state = "BUSY"]
  BY DEF ModifyClear
<1>2. m \in Manager
  BY DEF Sound, Kinds
<1>3. /\ m2 \in Manager /\ m2.table = m.table /\ m2.idx = m.idx /\ m2.clear_pending
      /\ m2.modify_pending = m.modify_pending /\ m2.state = "BUSY"
  BY <1>1, <1>2 DEF Manager
<1> QED
  BY <1>3 DEF Sound, Kinds, Distinct, Tracked, Quiet

LEMMA AddSound ==
  ASSUME NEW m, NEW q, NEW d \in Devices, Sound(m, q), NEW m2 \in ModifyAdd(m, d)
  PROVE Sound(m2, q)
<1>1. CASE m2 = m
  BY <1>1
<1>2. CASE m2 # m
  <2>1. PICK i \in EntriesOf(m.table, NoDevice) :
          m2 = [m EXCEPT !.table[i] = NewEntry(d), !.state = "BUSY"]
    BY <1>2 DEF ModifyAdd, First
  <2>2. EntriesOf(m.table, d) = {}
    BY <1>2 DEF ModifyAdd
  <2>3. m \in Manager /\ i \in Slots /\ m.table[i].addr = NoDevice
    BY <2>1 DEF Sound, Kinds, EntriesOf
  <2>4. NewEntry(d) \in Entry /\ NewEntry(d).addr = d /\ NewEntry(d).is_added = "IDLE"
        /\ NewEntry(d).state = "ADD_PENDING"
    BY DEF NewEntry, Entry
  <2>5. /\ m2 \in Manager /\ m2.table = [m.table EXCEPT ![i] = NewEntry(d)]
        /\ m2.idx = m.idx /\ m2.clear_pending = m.clear_pending
        /\ m2.modify_pending = m.modify_pending /\ m2.state = "BUSY"
    BY <2>1, <2>3, <2>4 DEF Manager
  <2>6. \A j \in Slots : m2.table[j] = IF j = i THEN NewEntry(d) ELSE m.table[j]
    BY <2>3, <2>5 DEF Manager
  <2>7. Kinds(m2)
    BY <2>4, <2>5, <2>6, SlotFacts DEF Sound, Kinds
  <2>8. Distinct(m2.table)
    BY <2>2, <2>4, <2>6 DEF Sound, Distinct, EntriesOf
  <2>9. Tracked(m2, q)
    BY <2>3, <2>5, <2>6, SlotFacts DEF Sound, Tracked
  <2> QED
    BY <2>5, <2>7, <2>8, <2>9 DEF Sound, Quiet
<1> QED
  BY <1>1, <1>2

LEMMA RemoveSound ==
  ASSUME NEW m, NEW q, NEW d \in Devices, Sound(m, q), NEW m2 \in ModifyRemove(m, d)
  PROVE Sound(m2, q)
<1>1. CASE m2 = m
  BY <1>1
<1>2. CASE m2 # m
  <2>1. PICK i \in EntriesOf(m.table, d) :
          m2 = IF m.table[i].is_added # "IDLE"
                 THEN [m EXCEPT !.table[i].state = "REMOVE_PENDING", !.state = "BUSY"]
                 ELSE [m EXCEPT !.table[i] = ZeroEntry]
    BY <1>2 DEF ModifyRemove, First
  <2>2. m \in Manager /\ i \in Slots /\ m.table[i].addr = d /\ m.table[i] \in Entry
    BY <2>1 DEF Sound, Kinds, EntriesOf, Manager
  <2>3. CASE m.table[i].is_added # "IDLE"
    <3>1. DEFINE e == [m.table[i] EXCEPT !.state = "REMOVE_PENDING"]
    <3>2. e \in Entry /\ e.addr = d /\ e.state = "REMOVE_PENDING"
          /\ e.is_added = m.table[i].is_added
      BY <2>2 DEF Entry
    <3>3. m2 = [m EXCEPT !.table = [m.table EXCEPT ![i] = e], !.state = "BUSY"]
      BY <2>1, <2>2, <2>3 DEF Manager
    <3> HIDE DEF e
    <3>4. /\ m2 \in Manager /\ m2.table = [m.table EXCEPT ![i] = e]
          /\ m2.idx = m.idx /\ m2.clear_pending = m.clear_pending
          /\ m2.modify_pending = m.modify_pending /\ m2.state = "BUSY"
      BY <3>2, <3>3, <2>2 DEF Manager
    <3>5. \A j \in Slots : m2.table[j] = IF j = i THEN e ELSE m.table[j]
      BY <2>2, <3>4 DEF Manager
    <3>6. Kinds(m2)
      BY <2>2, <2>3, <3>2, <3>4, <3>5, SlotFacts DEF Sound, Kinds
    <3>7. Distinct(m2.table)
      BY <2>2, <3>2, <3>5 DEF Sound, Distinct
    <3>8. Tracked(m2, q)
      BY <2>2, <2>3, <3>2, <3>4, <3>5 DEF Sound, Tracked
    <3> QED
      BY <3>4, <3>6, <3>7, <3>8 DEF Sound, Quiet
  <2>4. CASE m.table[i].is_added = "IDLE"
    <3>1. m2 = [m EXCEPT !.table[i] = ZeroEntry]
      BY <2>1, <2>4
    <3>2. /\ m2 \in Manager /\ m2.table = [m.table EXCEPT ![i] = ZeroEntry]
          /\ m2.idx = m.idx /\ m2.clear_pending = m.clear_pending
          /\ m2.modify_pending = m.modify_pending /\ m2.state = m.state
      BY <3>1, <2>2, ZeroFacts DEF Manager
    <3>3. \A j \in Slots : m2.table[j] = IF j = i THEN ZeroEntry ELSE m.table[j]
      BY <2>2, <3>2 DEF Manager
    <3>4. Kinds(m2)
      BY <3>2, <3>3, ZeroFacts DEF Sound, Kinds
    <3>5. Distinct(m2.table)
      BY <3>3, ZeroFacts DEF Sound, Distinct
    <3>6. Tracked(m2, q)
      BY <2>4, <3>2, <3>3 DEF Sound, Tracked
    <3>7. Quiet(m2)
      BY <3>2, <3>3, ZeroFacts DEF Sound, Quiet
    <3> QED
      BY <3>4, <3>5, <3>6, <3>7 DEF Sound
  <2> QED
    BY <2>3, <2>4
<1> QED
  BY <1>1, <1>2

-----------------------------------------------------------------------------
(* privacy_handle_resolv_list.                                             *)

(* What handling a manager may lead to: a sound one, for the request that  *)
(* was under way or for the one that is sent.                              *)
Handled(o, q) ==
  /\ o.rejected \in BOOLEAN
  /\ IF o.asks = {} THEN Sound(o.mgr, q)
     ELSE \E a \in Request : o.asks = {a} /\ Sound(o.mgr, a)

LEMMA DroppedSound ==
  ASSUME NEW m, NEW q, Sound(m, q), ~m.modify_pending, NEW D \in SUBSET Slots
  PROVE /\ Sound(Dropped(m, D), q)
        /\ Dropped(m, D).modify_pending = m.modify_pending
        /\ Dropped(m, D).clear_pending = m.clear_pending
        /\ \A i \in Slots : Dropped(m, D).table[i] = IF i \in D THEN ZeroEntry ELSE m.table[i]
<1> DEFINE n == Dropped(m, D)
<1>1. m \in Manager
  BY DEF Sound, Kinds
<1>2. [i \in Slots |-> IF i \in D THEN ZeroEntry ELSE m.table[i]] \in [Slots -> Entry]
  BY <1>1, ZeroFacts, ManagerFields
<1>3. /\ n \in Manager /\ n.idx = m.idx /\ n.clear_pending = m.clear_pending
      /\ n.modify_pending = m.modify_pending /\ n.state = m.state
      /\ n.table = [i \in Slots |-> IF i \in D THEN ZeroEntry ELSE m.table[i]]
  BY <1>1, <1>2 DEF Dropped, Manager
<1> HIDE DEF n
<1>4. \A i \in Slots : n.table[i] = IF i \in D THEN ZeroEntry ELSE m.table[i]
  BY <1>3
<1>5. Kinds(n)
  BY <1>3, <1>4, ZeroFacts DEF Sound, Kinds
<1>6. Distinct(n.table)
  BY <1>4, ZeroFacts DEF Sound, Distinct
<1>7. Tracked(n, q)
  BY <1>3 DEF Sound, Tracked, Request
<1>8. Quiet(n)
  BY <1>3, <1>4, ZeroFacts DEF Sound, Quiet
<1> QED
  BY <1>3, <1>4, <1>5, <1>6, <1>7, <1>8 DEF Sound, n

LEMMA RefusedSound ==
  ASSUME NEW m, NEW q, Sound(m, q)
  PROVE Handled(Refused(m), q)
<1> DEFINE n == [m EXCEPT !.state = "BUSY"]
<1>1. m \in Manager
  BY DEF Sound, Kinds
<1>2. /\ n \in Manager /\ n.table = m.table /\ n.idx = m.idx /\ n.state = "BUSY"
      /\ n.clear_pending = m.clear_pending /\ n.modify_pending = m.modify_pending
  BY <1>1 DEF Manager
<1> HIDE DEF n
<1>3. Sound(n, q)
  BY <1>2 DEF Sound, Kinds, Distinct, Tracked, Quiet
<1> QED
  BY <1>3 DEF Handled, Refused, Outcome, n

LEMMA AskFacts ==
  ASSUME NEW op \in {"ADD", "REMOVE", "CLEAR"}, NEW d \in Devices \cup {NoDevice}
  PROVE /\ Ask(op, d) \in Request
        /\ Ask(op, d).op = op /\ Ask(op, d).addr = d /\ Ask(op, d).cause = "WAITING"
BY DEF Ask, Request

LEMMA SendClearSound ==
  ASSUME NEW m, NEW q, Sound(m, q), m.clear_pending
  PROVE Handled(SendClear(m), q)
<1> DEFINE n == [m EXCEPT !.modify_pending = TRUE, !.state = "BUSY"]
           a == Ask("CLEAR", NoDevice)
<1>1. m \in Manager
  BY DEF Sound, Kinds
<1>2. /\ n \in Manager /\ n.table = m.table /\ n.idx = m.idx /\ n.state = "BUSY"
      /\ n.clear_pending = m.clear_pending /\ n.modify_pending
  BY <1>1 DEF Manager
<1>3. a \in Request /\ a.op = "CLEAR" /\ a.cause = "WAITING"
  BY AskFacts
<1>4. SendClear(m) = [mgr |-> n, asks |-> {a}, rejected |-> FALSE]
  BY DEF SendClear, Outcome
<1> HIDE DEF n, a
<1>5. Sound(n, a)
  BY <1>2, <1>3 DEF Sound, Kinds, Distinct, Tracked, Quiet, DropCauses
<1> QED
  BY <1>3, <1>4, <1>5 DEF Handled

LEMMA SendEntrySound ==
  ASSUME NEW m, NEW q, Sound(m, q), NEW i \in Pending(m.table), NEW b \in BOOLEAN
  PROVE Handled(SendEntry(m, i, b), q)
<1> DEFINE d == m.table[i].addr
           op == IF m.table[i].state = "ADD_PENDING" THEN "ADD" ELSE "REMOVE"
           a == Ask(op, d)
           e == IF m.table[i].state = "ADD_PENDING"
                  THEN [m.table[i] EXCEPT !.is_added = "ADDED_PENDING"] ELSE m.table[i]
           n == SendEntry(m, i, b).mgr
<1>1. m \in Manager /\ i \in Slots /\ m.table[i] \in Entry /\ d # NoDevice
      /\ m.table[i].state \in {"ADD_PENDING", "REMOVE_PENDING"}
  BY DEF Sound, Kinds, Pending, Manager, Entry
<1>2. d \in Devices
  BY <1>1 DEF Entry
<1>3. a \in Request /\ a.op = op /\ a.addr = d
  BY <1>2, AskFacts
<1>4. /\ e \in Entry /\ e.addr = d /\ e.state = m.table[i].state /\ e.is_added # "IDLE"
  BY <1>1 DEF Entry, Sound, Kinds
<1>5. /\ SendEntry(m, i, b) = [mgr |-> n, asks |-> {a}, rejected |-> b]
      /\ n = [m EXCEPT !.table = [m.table EXCEPT ![i] = e],
                       !.modify_pending = TRUE, !.idx = i, !.state = "BUSY"]
  <2>1. CASE m.table[i].state = "ADD_PENDING"
    BY <2>1, <1>1 DEF SendEntry, Outcome, Manager
  <2>2. CASE m.table[i].state # "ADD_PENDING"
    <3>1. [m.table EXCEPT ![i] = e] = m.table
      BY <2>2, <1>1 DEF Manager
    <3>2. [m EXCEPT !.table = m.table, !.modify_pending = TRUE, !.idx = i, !.state = "BUSY"]
          = [m EXCEPT !.modify_pending = TRUE, !.idx = i, !.state = "BUSY"]
      BY <1>1 DEF Manager
    <3> QED
      BY <2>2, <3>1, <3>2 DEF SendEntry, Outcome
  <2> QED
    BY <2>1, <2>2
<1> HIDE DEF n, e, a
<1>6. /\ n \in Manager /\ n.table = [m.table EXCEPT ![i] = e] /\ n.idx = i
      /\ n.clear_pending = m.clear_pending /\ n.modify_pending /\ n.state = "BUSY"
  BY <1>1, <1>4, <1>5 DEF Manager
<1>7. \A j \in Slots : n.table[j] = IF j = i THEN e ELSE m.table[j]
  BY <1>1, <1>6 DEF Manager
<1>8. Kinds(n)
  BY <1>1, <1>4, <1>6, <1>7 DEF Sound, Kinds
<1>9. Distinct(n.table)
  BY <1>4, <1>7 DEF Sound, Distinct
<1>10. Tracked(n, a)
  BY <1>1, <1>2, <1>3, <1>4, <1>6, <1>7 DEF Tracked
<1>11. Sound(n, a)
  BY <1>6, <1>8, <1>9, <1>10 DEF Sound, Quiet
<1>12. SendEntry(m, i, b).asks = {a} /\ SendEntry(m, i, b).mgr = n
       /\ SendEntry(m, i, b).rejected = b
  BY <1>5
<1> QED
  BY <1>3, <1>11, <1>12 DEF Handled

LEMMA SendNextSound ==
  ASSUME NEW m, NEW q, Sound(m, q), ~m.modify_pending, ~m.clear_pending,
         NEW b \in BOOLEAN, NEW r \in BOOLEAN, NEW o \in SendNext(m, b, r)
  PROVE Handled(o, q)
<1>1. CASE Pending(m.table) = {}
  <2> DEFINE n == [m EXCEPT !.state = "IDLE"]
  <2>1. m \in Manager /\ o = [mgr |-> n, asks |-> {}, rejected |-> b]
    BY <1>1 DEF SendNext, Outcome, Sound, Kinds
  <2>2. /\ n \in Manager /\ n.table = m.table /\ n.idx = m.idx /\ n.state = "IDLE"
        /\ n.clear_pending = m.clear_pending /\ n.modify_pending = m.modify_pending
    BY <2>1 DEF Manager
  <2> HIDE DEF n
  <2>3. \A i \in Slots : n.table[i].state = "IDLE"
    BY <1>1, <2>2, ZeroFacts DEF Pending, Sound, Kinds
  <2>4. Sound(n, q)
    BY <2>2, <2>3 DEF Sound, Kinds, Distinct, Tracked, Quiet
  <2> QED
    BY <2>1, <2>4 DEF Handled
<1>2. CASE Pending(m.table) # {}
  <2>1. CASE o = Refused(m)
    BY <2>1, RefusedSound
  <2>2. CASE o # Refused(m)
    <3>1. PICK i \in First(Pending(m.table)) : o = SendEntry(m, i, b)
      BY <1>2, <2>2 DEF SendNext
    <3>2. i \in Pending(m.table)
      BY <3>1 DEF First
    <3> QED
      BY <3>1, <3>2, SendEntrySound
  <2> QED
    BY <2>1, <2>2
<1> QED
  BY <1>1, <1>2

LEMMA HandleIntSound ==
  ASSUME NEW m, NEW q, Sound(m, q), NEW r \in BOOLEAN,
         NEW o \in privacy_handle_resolv_list_int(m, r)
  PROVE Handled(o, q) /\ (o.rejected => r)
<1>1. CASE m.modify_pending
  <2>1. o = [mgr |-> [m EXCEPT !.state = "BUSY"], asks |-> {}, rejected |-> FALSE]
    BY <1>1 DEF privacy_handle_resolv_list_int, Outcome
  <2> QED
    BY <2>1, RefusedSound DEF Handled, Refused, Outcome
<1>2. CASE ~m.modify_pending /\ m.clear_pending
  <2>1. o = SendClear(m) \/ (r /\ o = Refused(m))
    BY <1>2 DEF privacy_handle_resolv_list_int
  <2>2. SendClear(m).rejected = FALSE
    BY DEF SendClear, Outcome
  <2> QED
    BY <1>2, <2>1, <2>2, SendClearSound, RefusedSound
<1>3. CASE ~m.modify_pending /\ ~m.clear_pending
  <2>1. PICK D \in IF r THEN DropSets(m.table) ELSE {{}} :
          o \in SendNext(Dropped(m, D), D # {}, r)
    BY <1>3 DEF privacy_handle_resolv_list_int
  <2>2. D \in SUBSET Slots /\ (D # {} => r)
    BY <2>1 DEF DropSets, Pending
  <2> DEFINE n == Dropped(m, D)
  <2>3. Sound(n, q) /\ ~n.modify_pending /\ ~n.clear_pending
    BY <1>3, <2>2, DroppedSound
  <2>4. o.rejected => r
    <3>1. \A i \in Slots, k \in BOOLEAN : SendEntry(n, i, k).rejected = k
      BY DEF SendEntry, Outcome
    <3>2. CASE Pending(n.table) = {}
      BY <2>1, <2>2, <3>2 DEF SendNext, Outcome
    <3>3. CASE Pending(n.table) # {} /\ o # Refused(n)
      <4>1. PICK i \in First(Pending(n.table)) : o = SendEntry(n, i, D # {})
        BY <2>1, <3>3 DEF SendNext
      <4>2. i \in Slots
        BY <4>1 DEF First, Pending
      <4> QED
        BY <2>2, <3>1, <4>1, <4>2
    <3>4. CASE Pending(n.table) # {} /\ ~r
      <4>1. PICK i \in First(Pending(n.table)) : o = SendEntry(n, i, D # {})
        BY <2>1, <3>4 DEF SendNext
      <4>2. i \in Slots
        BY <4>1 DEF First, Pending
      <4> QED
        BY <2>2, <3>1, <4>1, <4>2
    <3> QED
      BY <3>2, <3>3, <3>4
  <2> HIDE DEF n
  <2>5. o \in SendNext(n, D # {}, r)
    BY <2>1 DEF n
  <2>6. (D # {}) \in BOOLEAN
    OBVIOUS
  <2> QED
    BY <2>3, <2>4, <2>5, <2>6, SendNextSound
<1> QED
  BY <1>1, <1>2, <1>3

LEMMA HandleSound ==
  ASSUME TypeOK, NEW m, NEW q, Sound(m, q), Handle(m, q)
  PROVE /\ Sound(mgr', request')
        /\ whiteList' \in SUBSET Devices /\ rejects' \in 0 .. MaxRejects
<1>1. PICK o \in privacy_handle_resolv_list(m) :
        /\ mgr' = o.mgr
        /\ IF o.asks = {} THEN request' = q ELSE request' \in o.asks
        /\ whiteList' = WhiteListAfter(o.asks)
        /\ rejects' = IF o.rejected THEN rejects + 1 ELSE rejects
  BY DEF Handle
<1>2. Handled(o, q) /\ (o.rejected => rejects < MaxRejects)
  <2>1. CASE privacy_resolution_status = "DISABLED" \/ radio = "idle"
    <3>1. o \in privacy_handle_resolv_list_int(m, rejects < MaxRejects)
      BY <1>1, <2>1 DEF privacy_handle_resolv_list
    <3>2. (rejects < MaxRejects) \in BOOLEAN
      BY PrivacyAssumption DEF PrivacyAssumption, TypeOK
    <3> QED
      BY <3>1, <3>2, HandleIntSound
  <2>2. CASE ~(privacy_resolution_status = "DISABLED" \/ radio = "idle")
    <3>1. o.mgr = m /\ o.asks = {} /\ o.rejected = FALSE
      BY <1>1, <2>2 DEF privacy_handle_resolv_list, Outcome
    <3> QED
      BY <3>1 DEF Handled
  <2> QED
    BY <2>1, <2>2
<1>3. Sound(mgr', request')
  BY <1>1, <1>2 DEF Handled
<1>4. o.asks \subseteq Request /\ \A a \in o.asks : a.op \in {"ADD", "REMOVE"} => a.addr \in Devices
  BY <1>2 DEF Handled, Sound, Tracked
<1>5. whiteList' \in SUBSET Devices
  BY <1>1, <1>4 DEF WhiteListAfter, TypeOK
<1>6. rejects' \in 0 .. MaxRejects
  BY <1>1, <1>2, PrivacyAssumption DEF PrivacyAssumption, TypeOK
<1> QED
  BY <1>3, <1>5, <1>6

-----------------------------------------------------------------------------
(* The responses.                                                          *)

LEMMA RspClearedSound ==
  ASSUME NEW m, NEW q, Sound(m, q)
  PROVE Sound(RspCleared(m), NoRequest)
<1> DEFINE n == RspCleared(m)
<1>1. m \in Manager
  BY DEF Sound, Kinds
<1>2. [i \in Slots |-> ZeroEntry] \in [Slots -> Entry]
  BY ZeroFacts
<1>3. /\ n \in Manager /\ ~n.clear_pending /\ ~n.modify_pending
      /\ n.table = [i \in Slots |-> ZeroEntry]
  BY <1>1, <1>2 DEF RspCleared, Manager
<1> HIDE DEF n
<1>4. \A i \in Slots : n.table[i] = ZeroEntry
  BY <1>3
<1>5. Tracked(n, NoRequest)
  BY <1>3 DEF Tracked, NoRequest, Request
<1>6. Sound(n, NoRequest)
  BY <1>3, <1>4, <1>5, ZeroFacts DEF Sound, Kinds, Distinct, Quiet
<1> QED
  BY <1>6 DEF n

(* One entry changes, keeping its address or becoming free.                *)
LEMMA EntrySettledSound ==
  ASSUME NEW m, NEW q, Sound(m, q), m.modify_pending, NEW n \in Manager,
         n.clear_pending = m.clear_pending, n.modify_pending = FALSE, n.state = m.state,
         NEW e \in Entry,
         \A i \in Slots : n.table[i] = IF i = m.idx THEN e ELSE m.table[i],
         e = ZeroEntry \/ (m.idx \in Slots /\ e.addr = m.table[m.idx].addr
                             /\ e.state = "IDLE" /\ m.table[m.idx].addr # NoDevice)
  PROVE Sound(n, NoRequest)
<1>1. m.state # "IDLE"
  BY DEF Sound, Quiet
<1>2. Kinds(n)
  BY ZeroFacts DEF Sound, Kinds
<1>3. Distinct(n.table)
  BY ZeroFacts DEF Sound, Distinct
<1>4. Tracked(n, NoRequest)
  BY DEF Tracked, NoRequest, Request
<1> QED
  BY <1>1, <1>2, <1>3, <1>4 DEF Sound, Quiet

LEMMA RspChangedSound ==
  ASSUME NEW m, NEW q, Sound(m, q), q.op \in {"ADD", "REMOVE"}
  PROVE Sound(RspChanged(m, q.op), NoRequest)
<1> DEFINE n == RspChanged(m, q.op)
           e == IF q.op = "REMOVE" THEN ZeroEntry
                ELSE [m.table[m.idx] EXCEPT !.is_added = "ADDED", !.state = "IDLE"]
<1>1. m \in Manager /\ m.idx \in Slots /\ m.table[m.idx] \in Entry /\ m.modify_pending
      /\ m.table[m.idx].addr # NoDevice
  <2>1. m \in Manager
    BY DEF Sound, Kinds
  <2>2. /\ m.idx \in Slots /\ m.modify_pending
        /\ q.addr \in Devices /\ m.table[m.idx].addr = q.addr
    BY DEF Sound, Tracked
  <2>3. m.table \in [Slots -> Entry]
    BY <2>1, ManagerFields
  <2>4. m.table[m.idx] \in Entry
    BY <2>2, <2>3
  <2>5. q.addr # NoDevice
    BY <2>2, SlotFacts
  <2> QED
    BY <2>1, <2>2, <2>4, <2>5
<1>2. /\ e \in Entry
      /\ e = ZeroEntry \/ (e.addr = m.table[m.idx].addr /\ e.state = "IDLE")
  BY <1>1, ZeroFacts DEF Entry
<1>3. n = [m EXCEPT !.modify_pending = FALSE, !.idx = NoIndex,
                    !.table = [i \in Slots |-> IF i = m.idx THEN e ELSE m.table[i]]]
  BY <1>1 DEF RspChanged
<1> HIDE DEF n, e
<1>4. [i \in Slots |-> IF i = m.idx THEN e ELSE m.table[i]] \in [Slots -> Entry]
  BY <1>1, <1>2, ManagerFields
<1>5. /\ n \in Manager /\ n.modify_pending = FALSE /\ n.clear_pending = m.clear_pending
      /\ n.state = m.state
      /\ n.table = [i \in Slots |-> IF i = m.idx THEN e ELSE m.table[i]]
  BY <1>1, <1>3, <1>4 DEF Manager
<1>6. \A i \in Slots : n.table[i] = IF i = m.idx THEN e ELSE m.table[i]
  BY <1>5
<1>7. Sound(n, NoRequest)
  BY <1>1, <1>2, <1>5, <1>6, EntrySettledSound
<1> QED
  BY <1>7 DEF n

LEMMA RspFailedSound ==
  ASSUME NEW m, NEW q, Sound(m, q), q.op # "NONE"
  PROVE Sound(RspFailed(m, q.cause), NoRequest)
<1> DEFINE n == RspFailed(m, q.cause)
<1>1. m \in Manager /\ m.modify_pending
  BY DEF Sound, Kinds, Tracked
<1>2. CASE q.cause \in DropCauses
  <2>1. n = [m EXCEPT !.modify_pending = FALSE, !.idx = NoIndex,
                      !.table = [i \in Slots |-> IF i = m.idx THEN ZeroEntry ELSE m.table[i]]]
    BY <1>2 DEF RspFailed
  <2> HIDE DEF n
  <2>2. [i \in Slots |-> IF i = m.idx THEN ZeroEntry ELSE m.table[i]] \in [Slots -> Entry]
    BY <1>1, ZeroFacts, ManagerFields
  <2>3. /\ n \in Manager /\ n.modify_pending = FALSE /\ n.clear_pending = m.clear_pending
        /\ n.state = m.state
        /\ n.table = [i \in Slots |-> IF i = m.idx THEN ZeroEntry ELSE m.table[i]]
    BY <1>1, <2>1, <2>2 DEF Manager
  <2>4. \A i \in Slots : n.table[i] = IF i = m.idx THEN ZeroEntry ELSE m.table[i]
    BY <2>3
  <2>5. Sound(n, NoRequest)
    BY <1>1, <2>3, <2>4, ZeroFacts, EntrySettledSound
  <2> QED
    BY <2>5 DEF n
<1>3. CASE q.cause \notin DropCauses
  <2>1. n = [m EXCEPT !.modify_pending = FALSE, !.idx = NoIndex, !.table = m.table]
    BY <1>3 DEF RspFailed
  <2> HIDE DEF n
  <2>2. /\ n \in Manager /\ n.modify_pending = FALSE /\ n.clear_pending = m.clear_pending
        /\ n.state = m.state /\ n.table = m.table
    BY <1>1, <2>1 DEF Manager
  <2>3. Tracked(n, NoRequest)
    BY <2>2 DEF Tracked, NoRequest, Request
  <2>4. Sound(n, NoRequest)
    BY <1>1, <2>2, <2>3 DEF Sound, Kinds, Distinct, Quiet
  <2> QED
    BY <2>4 DEF n
<1> QED
  BY <1>2, <1>3

LEMMA RspSucceededSound ==
  ASSUME NEW m, NEW q, Sound(m, q), q.op # "NONE"
  PROVE Sound(RspSucceeded(m, q.op), NoRequest)
<1>1. q.op \in {"ADD", "REMOVE", "CLEAR"}
  BY DEF Sound, Tracked, Request
<1> QED
  BY <1>1, RspClearedSound, RspChangedSound DEF RspSucceeded

-----------------------------------------------------------------------------
IInv == TypeOK /\ Sound(mgr, request)

LEMMA InitSound == Init => IInv
<1> SUFFICES ASSUME Init PROVE IInv
  OBVIOUS
<1>1. PICK n \in 0 .. BondNum : \E stored \in [0 .. n - 1 -> Devices] :
       /\ \A i, j \in 0 .. n - 1 : stored[i] = stored[j] => i = j
       /\ bonded = {stored[i] : i \in 0 .. n - 1}
       /\ mgr = [table |-> InitTable(n, stored), clear_pending |-> FALSE,
                 modify_pending |-> FALSE, idx |-> NoIndex,
                 state |-> IF n = 0 THEN "IDLE" ELSE "BUSY"]
  BY DEF Init
<1>2. PICK stored \in [0 .. n - 1 -> Devices] :
       /\ \A i, j \in 0 .. n - 1 : stored[i] = stored[j] => i = j
       /\ bonded = {stored[i] : i \in 0 .. n - 1}
       /\ mgr = [table |-> InitTable(n, stored), clear_pending |-> FALSE,
                 modify_pending |-> FALSE, idx |-> NoIndex,
                 state |-> IF n = 0 THEN "IDLE" ELSE "BUSY"]
  BY <1>1
<1> DEFINE t == InitTable(n, stored)
<1>3. BondNum \in Nat /\ Slots = 0 .. BondNum - 1
  BY PrivacyAssumption DEF PrivacyAssumption, Slots, NoIndex
<1>4. \A i \in Slots : i < n => i \in 0 .. n - 1 /\ stored[i] \in Devices
  BY <1>2, <1>3
<1>5. \A d \in Devices : NewEntry(d) \in Entry /\ NewEntry(d).addr = d
                         /\ NewEntry(d).state = "ADD_PENDING"
  BY DEF NewEntry, Entry
<1>6. \A i \in Slots : t[i] = IF i < n THEN NewEntry(stored[i]) ELSE ZeroEntry
  BY DEF InitTable
<1>7. t \in [Slots -> Entry]
  BY <1>4, <1>5, ZeroFacts DEF InitTable
<1> HIDE DEF t
<1>8. /\ mgr \in Manager /\ mgr.table = t /\ ~mgr.clear_pending /\ ~mgr.modify_pending
      /\ mgr.state = IF n = 0 THEN "IDLE" ELSE "BUSY"
  BY <1>2, <1>7 DEF Manager, t
<1>9. Kinds(mgr)
  BY <1>4, <1>5, <1>6, <1>8, ZeroFacts, SlotFacts DEF Kinds
<1>10. Distinct(mgr.table)
  BY <1>2, <1>4, <1>5, <1>6, <1>8, ZeroFacts DEF Distinct
<1>11. Tracked(mgr, request)
  BY <1>8 DEF Init, Tracked, NoRequest, Request
<1>12. Quiet(mgr)
  <2> SUFFICES ASSUME n = 0 PROVE \A i \in Slots : t[i].state = "IDLE"
    BY <1>8 DEF Quiet
  <2> QED
    BY <1>3, <1>6, ZeroFacts
<1>13. bonded \subseteq Devices
  BY <1>2
<1>14. TypeOK
  BY <1>8, <1>13, PrivacyAssumption DEF TypeOK, Init, NoRequest, Request, PrivacyAssumption
<1> QED
  BY <1>9, <1>10, <1>11, <1>12, <1>14 DEF IInv, Sound

LEMMA NextSound == IInv /\ [Next]_vars => IInv'
<1> SUFFICES ASSUME IInv, [Next]_vars PROVE IInv'
  OBVIOUS
<1>1. TypeOK /\ Sound(mgr, request)
  BY DEF IInv
<1>3. \A m, q : Sound(m, q) => m \in Manager /\ q \in Request
  BY DEF Sound, Kinds, Tracked
<1>4. ASSUME BondChange PROVE bondChanges' \in 0 .. MaxBondChanges
  BY <1>1, <1>4, PrivacyAssumption DEF BondChange, TypeOK, PrivacyAssumption
<1>5. ASSUME NEW d \in Devices, BondAdd(d) PROVE IInv'
  <2>1. PICK m \in ModifyAdd(mgr, d) : Handle(m, request)
    BY <1>5 DEF BondAdd
  <2>2. Sound(m, request)
    BY <1>1, <2>1, AddSound
  <2>3. Sound(mgr', request') /\ whiteList' \in SUBSET Devices /\ rejects' \in 0 .. MaxRejects
    BY <1>1, <2>1, <2>2, HandleSound
  <2> QED
    BY <1>1, <1>3, <1>4, <1>5, <2>3 DEF BondAdd, BondChange, chosen, TypeOK, IInv
<1>6. ASSUME NEW d \in Devices, BondDelete(d) PROVE IInv'
  <2>1. PICK m \in ModifyRemove(mgr, d) : Handle(m, request)
    BY <1>6 DEF BondDelete
  <2>2. Sound(m, request)
    BY <1>1, <2>1, RemoveSound
  <2>3. Sound(mgr', request') /\ whiteList' \in SUBSET Devices /\ rejects' \in 0 .. MaxRejects
    BY <1>1, <2>1, <2>2, HandleSound
  <2> QED
    BY <1>1, <1>3, <1>4, <1>6, <2>3 DEF BondDelete, BondChange, chosen, TypeOK, IInv
<1>7. ASSUME BondClear PROVE IInv'
  <2>1. PICK m \in ModifyClear(mgr) : Handle(m, request)
    BY <1>7 DEF BondClear
  <2>2. Sound(m, request)
    BY <1>1, <2>1, ClearSound
  <2>3. Sound(mgr', request') /\ whiteList' \in SUBSET Devices /\ rejects' \in 0 .. MaxRejects
    BY <1>1, <2>1, <2>2, HandleSound
  <2> QED
    BY <1>1, <1>3, <1>4, <1>7, <2>3 DEF BondClear, BondChange, chosen, TypeOK, IInv
<1>8. ASSUME HandleRsp PROVE IInv'
  <2>1. Sound(mgr', request') /\ whiteList' \in SUBSET Devices /\ rejects' \in 0 .. MaxRejects
    <3>1. CASE request.cause = "SUCCESS"
      <4>1. Handle(RspSucceeded(mgr, request.op), NoRequest)
        BY <1>8, <3>1 DEF HandleRsp
      <4>2. Sound(RspSucceeded(mgr, request.op), NoRequest)
        BY <1>1, <1>8, RspSucceededSound DEF HandleRsp
      <4> QED
        BY <1>1, <4>1, <4>2, HandleSound
    <3>2. CASE request.cause # "SUCCESS"
      <4>1. Sound(RspFailed(mgr, request.cause), NoRequest)
        BY <1>1, <1>8, RspFailedSound DEF HandleRsp
      <4> QED
        BY <1>1, <1>8, <3>2, <4>1 DEF HandleRsp, TypeOK
    <3> QED
      BY <3>1, <3>2
  <2> QED
    BY <1>1, <1>3, <1>8, <2>1 DEF HandleRsp, stackVars, chosen, TypeOK, IInv
<1>9. ASSUME HandleDevState PROVE IInv'
  <2>1. Sound(mgr', request') /\ whiteList' \in SUBSET Devices /\ rejects' \in 0 .. MaxRejects
    BY <1>1, <1>9, HandleSound DEF HandleDevState
  <2> QED
    BY <1>1, <1>3, <1>9, <2>1 DEF HandleDevState, chosen, TypeOK, IInv
<1>10. ASSUME ControllerRuns PROVE IInv'
  <2>1. PICK c \in {"SUCCESS", "DISALLOWED"} \cup DropCauses :
          /\ request' = [request EXCEPT !.cause = c]
          /\ request.op = "CLEAR" => c \notin DropCauses
          /\ resolvList' \in {resolvList, ListAfter(request)}
          /\ failures' \in 0 .. MaxFailures
    <3>1. CASE UNCHANGED failures
      BY <1>1, <1>10, <3>1, PrivacyAssumption
         DEF ControllerRuns, ResultOf, DropCauses, TypeOK, PrivacyAssumption
    <3>2. CASE ~UNCHANGED failures
      BY <1>1, <1>10, <3>2, PrivacyAssumption DEF ControllerRuns, DropCauses, TypeOK, PrivacyAssumption
    <3> QED
      BY <3>1, <3>2
  <2>2. request \in Request /\ request' \in Request /\ request'.op = request.op
        /\ request'.addr = request.addr /\ request'.cause = c
    BY <1>1, <2>1 DEF TypeOK, Request
  <2>3. mgr' = mgr
    BY <1>10 DEF ControllerRuns
  <2>4. Sound(mgr', request')
    BY <1>1, <2>1, <2>2, <2>3 DEF Sound, Tracked
  <2>5. resolvList' \subseteq Devices
    <3>1. request.op = "ADD" => request.addr \in Devices
      BY <1>1 DEF Sound, Tracked
    <3> QED
      BY <1>1, <2>1, <2>2, <3>1 DEF ListAfter, TypeOK, Request
  <2> QED
    BY <1>1, <1>3, <1>10, <2>1, <2>4, <2>5 DEF ControllerRuns, stackVars, chosen, TypeOK, IInv
<1>11. ASSUME HandleResolutionStatus PROVE IInv'
  <2>1. privacy_resolution_status' \in {"DISABLED", "ENABLING", "ENABLED", "DISABLING"}
    BY <1>1, <1>11 DEF HandleResolutionStatus, NextStatus, TypeOK
  <2> QED
    BY <1>1, <1>11, <2>1 DEF HandleResolutionStatus, chosen, TypeOK, IInv
<1>12. CASE RadioActive
  BY <1>1, <1>12 DEF RadioActive, chosen, TypeOK, IInv
<1>13. CASE RadioIdle
  BY <1>1, <1>13 DEF RadioIdle, chosen, TypeOK, IInv
<1>14. CASE UNCHANGED vars
  BY <1>1, <1>14 DEF vars, stackVars, chosen, TypeOK, IInv
<1> QED
  BY <1>5, <1>6, <1>7, <1>8, <1>9, <1>10, <1>11, <1>12, <1>13, <1>14 DEF Next

LEMMA AlwaysSound == Spec => []IInv
BY InitSound, NextSound, PTL DEF Spec

(* Every variable of the manager and of its surroundings keeps its kind:   *)
(* in particular the index of the entry in work stays within the table.    *)
THEOREM PrivacyTypeCorrect == Spec => []TypeOK
<1>1. IInv => TypeOK
  BY DEF IInv
<1> QED
  BY <1>1, AlwaysSound, PTL

(* However bonds change while a request is under way, its response finds   *)
(* the entry that it was sent for.                                         *)
THEOREM RequestAlwaysTracked == Spec => []RequestTracked
<1>1. IInv => RequestTracked
  BY DEF IInv, Sound, Tracked, RequestTracked
<1> QED
  BY <1>1, AlwaysSound, PTL

(* PRIVACY_STATE_IDLE is never reported while a modification is pending.   *)
THEOREM IdleMeansNothingPending == Spec => []IdleNothingPending
<1>1. IInv => IdleNothingPending
  BY DEF IInv, Sound, Quiet, IdleNothingPending
<1> QED
  BY <1>1, AlwaysSound, PTL

(* No device ever has two entries of the table.                            *)
THEOREM OneEntryPerDevice == Spec => []OneEntryEach
<1>1. IInv => OneEntryEach
  BY DEF IInv, Sound, Distinct, OneEntryEach
<1> QED
  BY <1>1, AlwaysSound, PTL

(***************************************************************************)
(* The lists of the controller follow the table of the privacy manager as  *)
(* long as the stack refuses no request.  The argument is about a manager  *)
(* m, the request q under way, the resolving list R and the white list W.  *)
(***************************************************************************)

Added(t) == {t[i].addr : i \in {j \in Slots : t[j].is_added = "ADDED"}}

(* The resolving list, before and after the controller ran the request.    *)
Expected(t, q) ==
  IF q.cause # "SUCCESS" THEN Added(t)
  ELSE CASE q.op = "ADD" -> Added(t) \cup {q.addr}
         [] q.op = "REMOVE" -> Added(t) \ {q.addr}
         [] OTHER -> {}

(* A device that is resolved is on the white list, or is about to go.      *)
Leaving(m, d) ==
  m.clear_pending \/ \E i \in Slots : m.table[i].addr = d /\ m.table[i].state = "REMOVE_PENDING"

Listed(m, q, R, W) ==
  /\ q.op = "NONE" => q.cause # "SUCCESS"
  /\ R = Expected(m.table, q)
  /\ q.op = "ADD" => m.table[m.idx].is_added = "ADDED_PENDING" /\ q.addr \in W
  /\ q.op = "REMOVE" => m.table[m.idx].state = "REMOVE_PENDING"
  /\ q.op = "REMOVE" /\ q.cause \in DropCauses => m.table[m.idx].is_added # "ADDED"
  /\ \A d \in R : d \in W \/ Leaving(m, d)
  /\ \A i \in Slots : m.table[i].is_added = "ADDED" => m.table[i].state # "ADD_PENDING"

(* What the steps of bonds leave alone in the table.                       *)
Keeps(m, m2) ==
  \A i \in Slots :
    /\ m2.table[i].is_added = "ADDED" <=> m.table[i].is_added = "ADDED"
    /\ m.table[i].is_added # "IDLE" => /\ m2.table[i].addr = m.table[i].addr
                                       /\ m2.table[i].is_added = m.table[i].is_added
    /\ m.table[i].state = "REMOVE_PENDING" => m2.table[i].state = "REMOVE_PENDING"
    /\ m2.table[i].is_added = "ADDED" /\ m2.table[i].state = "ADD_PENDING"
         => m.table[i].state = "ADD_PENDING"

LEMMA KeepsListed ==
  ASSUME NEW m, NEW m2, NEW q, NEW R, NEW W, Sound(m, q), Listed(m, q, R, W),
         Keeps(m, m2), m2.idx = m.idx, m.clear_pending => m2.clear_pending
  PROVE Listed(m2, q, R, W)
<1>1. Added(m2.table) = Added(m.table)
  BY DEF Added, Keeps
<1>2. Expected(m2.table, q) = Expected(m.table, q)
  BY <1>1 DEF Expected
<1>3. \A i \in Slots : m.table[i].state = "REMOVE_PENDING" => m.table[i].is_added # "IDLE"
  BY DEF Sound, Kinds
<1>4. \A d : Leaving(m, d) => Leaving(m2, d)
  BY <1>3 DEF Leaving, Keeps
<1>5. q.op \in {"ADD", "REMOVE"} => m.idx \in Slots /\ m.table[m.idx].is_added # "IDLE"
  BY DEF Sound, Tracked
<1>6. /\ q.op = "ADD" => m2.table[m2.idx].is_added = "ADDED_PENDING"
      /\ q.op = "REMOVE" => m2.table[m2.idx].state = "REMOVE_PENDING"
      /\ q.op = "REMOVE" /\ q.cause \in DropCauses => m2.table[m2.idx].is_added # "ADDED"
  BY <1>5 DEF Listed, Keeps
<1>7. \A i \in Slots : m2.table[i].is_added = "ADDED" => m2.table[i].state # "ADD_PENDING"
  BY DEF Listed, Keeps
<1> QED
  BY <1>2, <1>4, <1>6, <1>7 DEF Listed

LEMMA ClearListed ==
  ASSUME NEW m, NEW q, NEW R, NEW W, Sound(m, q), Listed(m, q, R, W), NEW m2 \in ModifyClear(m)
  PROVE Listed(m2, q, R, W)
<1>1. m \in Manager /\ m2 = [m EXCEPT !.clear_pending = TRUE, !.state = "BUSY"]
  BY DEF ModifyClear, Sound, Kinds
<1>2. m2.table = m.table /\ m2.idx = m.idx /\ m2.clear_pending
  BY <1>1 DEF Manager
<1>3. Keeps(m, m2)
  BY <1>2 DEF Keeps
<1> QED
  BY <1>2, <1>3, KeepsListed

LEMMA AddListed ==
  ASSUME NEW m, NEW q, NEW R, NEW W, NEW d \in Devices, Sound(m, q), Listed(m, q, R, W),
         NEW m2 \in ModifyAdd(m, d)
  PROVE Listed(m2, q, R, W)
<1>1. CASE m2 = m
  BY <1>1
<1>2. CASE m2 # m
  <2>1. PICK i \in EntriesOf(m.table, NoDevice) :
          m2 = [m EXCEPT !.table[i] = NewEntry(d), !.state = "BUSY"]
    BY <1>2 DEF ModifyAdd, First
  <2>2. m \in Manager /\ i \in Slots /\ m.table[i] = ZeroEntry
    BY <2>1 DEF Sound, Kinds, EntriesOf
  <2>3. NewEntry(d).is_added = "IDLE"
    BY DEF NewEntry
  <2>4. /\ m2.table = [m.table EXCEPT ![i] = NewEntry(d)]
        /\ m2.idx = m.idx /\ m2.clear_pending = m.clear_pending
    BY <2>1, <2>2 DEF Manager
  <2>5. \A j \in Slots : m2.table[j] = IF j = i THEN NewEntry(d) ELSE m.table[j]
    BY <2>2, <2>4 DEF Manager
  <2>6. Keeps(m, m2)
    BY <2>2, <2>3, <2>5, ZeroFacts DEF Keeps
  <2> QED
    BY <2>4, <2>6, KeepsListed
<1> QED
  BY <1>1, <1>2

LEMMA RemoveListed ==
  ASSUME NEW m, NEW q, NEW R, NEW W, NEW d \in Devices, Sound(m, q), Listed(m, q, R, W),
         NEW m2 \in ModifyRemove(m, d)
  PROVE Listed(m2, q, R, W)
<1>1. CASE m2 = m
  BY <1>1
<1>2. CASE m2 # m
  <2>1. PICK i \in EntriesOf(m.table, d) :
          m2 = IF m.table[i].is_added # "IDLE"
                 THEN [m EXCEPT !.table[i].state = "REMOVE_PENDING", !.state = "BUSY"]
                 ELSE [m EXCEPT !.table[i] = ZeroEntry]
    BY <1>2 DEF ModifyRemove, First
  <2> DEFINE e == IF m.table[i].is_added # "IDLE"
                    THEN [m.table[i] EXCEPT !.state = "REMOVE_PENDING"] ELSE ZeroEntry
  <2>2. m \in Manager /\ i \in Slots /\ m.table[i] \in Entry
    BY <2>1 DEF Sound, Kinds, EntriesOf, Manager
  <2>3. IF m.table[i].is_added # "IDLE"
          THEN e.addr = m.table[i].addr /\ e.is_added = m.table[i].is_added
                 /\ e.state = "REMOVE_PENDING"
          ELSE e.is_added = "IDLE" /\ m.table[i].state # "REMOVE_PENDING"
    BY <2>2, ZeroFacts DEF Entry, Sound, Kinds
  <2>4. /\ m2.table = [m.table EXCEPT ![i] = e]
        /\ m2.idx = m.idx /\ m2.clear_pending = m.clear_pending
    BY <2>1, <2>2 DEF Manager
  <2> HIDE DEF e
  <2>5. \A j \in Slots : m2.table[j] = IF j = i THEN e ELSE m.table[j]
    BY <2>2, <2>4 DEF Manager
  <2>6. Keeps(m, m2)
    BY <2>3, <2>5 DEF Keeps
  <2> QED
    BY <2>4, <2>6, KeepsListed
<1> QED
  BY <1>1, <1>2

-----------------------------------------------------------------------------
(* A request is sent, along with the change of the white list.             *)

(* The white list after a request is sent, from the one before.            *)
Changed(W, a) ==
  CASE a.op = "CLEAR" -> {} [] a.op = "ADD" -> W \cup {a.addr}
    [] a.op = "REMOVE" -> W \ {a.addr} [] OTHER -> W

LEMMA SendClearListed ==
  ASSUME NEW m, NEW q, NEW R, NEW W, Sound(m, q), Listed(m, q, R, W),
         ~m.modify_pending, m.clear_pending, NEW a, SendClear(m).asks = {a}
  PROVE Listed(SendClear(m).mgr, a, R, Changed(W, a))
<1>1. a = Ask("CLEAR", NoDevice)
  BY DEF SendClear, Outcome
<1>2. a.op = "CLEAR" /\ a.cause = "WAITING"
  BY <1>1, AskFacts
<1>3. q.op = "NONE" /\ m \in Manager
  BY DEF Sound, Tracked, Kinds
<1>4. SendClear(m).mgr.table = m.table /\ SendClear(m).mgr.clear_pending
  BY <1>3 DEF SendClear, Outcome, Manager
<1>5. R = Added(m.table)
  BY <1>3 DEF Listed, Expected
<1> QED
  BY <1>2, <1>4, <1>5 DEF Listed, Expected, Leaving, DropCauses

LEMMA SendEntryListed ==
  ASSUME NEW m, NEW q, NEW R, NEW W, Sound(m, q), Listed(m, q, R, W),
         ~m.modify_pending, NEW i \in Pending(m.table), NEW b \in BOOLEAN,
         NEW a, SendEntry(m, i, b).asks = {a}
  PROVE Listed(SendEntry(m, i, b).mgr, a, R, Changed(W, a))
<1> DEFINE d == m.table[i].addr
           n == SendEntry(m, i, b).mgr
<1>1. m \in Manager /\ i \in Slots /\ m.table[i] \in Entry /\ d # NoDevice
      /\ m.table[i].state \in {"ADD_PENDING", "REMOVE_PENDING"} /\ q.op = "NONE"
  BY DEF Sound, Kinds, Pending, Manager, Entry, Tracked
<1>2. d \in Devices
  BY <1>1 DEF Entry
<1>3. R = Added(m.table)
  BY <1>1 DEF Listed, Expected
<1>4. \A x \in R : x \in W \/ Leaving(m, x)
  BY DEF Listed
<1>5. CASE m.table[i].state = "REMOVE_PENDING"
  <2>1. n = [m EXCEPT !.modify_pending = TRUE, !.idx = i, !.state = "BUSY"]
        /\ a = Ask("REMOVE", d)
    BY <1>5 DEF SendEntry, Outcome
  <2>2. a.op = "REMOVE" /\ a.addr = d /\ a.cause = "WAITING"
    BY <1>2, <2>1, AskFacts
  <2>3. n.table = m.table /\ n.idx = i /\ n.clear_pending = m.clear_pending
    BY <1>1, <2>1 DEF Manager
  <2> HIDE DEF n
  <2>4. Leaving(n, d) /\ \A x : Leaving(m, x) => Leaving(n, x)
    BY <1>1, <1>5, <2>3 DEF Leaving
  <2>5. \A x \in R : x \in Changed(W, a) \/ Leaving(n, x)
    BY <1>4, <2>2, <2>4 DEF Changed
  <2>6. Listed(n, a, R, Changed(W, a))
    BY <1>3, <1>5, <2>2, <2>3, <2>5 DEF Listed, Expected, DropCauses
  <2> QED
    BY <2>6 DEF n
<1>6. CASE m.table[i].state = "ADD_PENDING"
  <2> DEFINE e == [m.table[i] EXCEPT !.is_added = "ADDED_PENDING"]
  <2>1. n = [m EXCEPT !.modify_pending = TRUE, !.idx = i, !.state = "BUSY",
                      !.table = [m.table EXCEPT ![i] = e]]
        /\ a = Ask("ADD", d)
    BY <1>1, <1>6 DEF SendEntry, Outcome, Manager
  <2>2. a.op = "ADD" /\ a.addr = d /\ a.cause = "WAITING"
    BY <1>2, <2>1, AskFacts
  <2>3. e.addr = d /\ e.is_added = "ADDED_PENDING" /\ e.state = "ADD_PENDING"
    BY <1>1, <1>6 DEF Entry
  <2>4. n.table = [m.table EXCEPT ![i] = e] /\ n.idx = i /\ n.clear_pending = m.clear_pending
    BY <1>1, <2>1 DEF Manager
  <2> HIDE DEF n, e
  <2>5. \A j \in Slots : n.table[j] = IF j = i THEN e ELSE m.table[j]
    BY <1>1, <2>4 DEF Manager
  <2>6. Added(n.table) = Added(m.table)
    <3>1. m.table[i].is_added # "ADDED"
      BY <1>1, <1>6 DEF Listed
    <3> QED
      BY <2>3, <2>5, <3>1 DEF Added
  <2>7. \A x : Leaving(m, x) => Leaving(n, x)
    BY <1>6, <2>4, <2>5 DEF Leaving
  <2>8. Listed(n, a, R, Changed(W, a))
    BY <1>1, <1>3, <1>4, <2>2, <2>3, <2>4, <2>5, <2>6, <2>7
       DEF Listed, Expected, Changed
  <2> QED
    BY <2>8 DEF n
<1> QED
  BY <1>1, <1>5, <1>6

LEMMA NothingRejected ==
  ASSUME NEW m, NEW b \in BOOLEAN, NEW r \in BOOLEAN, NEW o \in SendNext(m, b, r),
         o.rejected = FALSE
  PROVE b = FALSE /\ o \in SendNext(m, FALSE, FALSE)
<1>1. CASE Pending(m.table) = {}
  BY <1>1 DEF SendNext, Outcome
<1>2. CASE Pending(m.table) # {}
  <2>1. Refused(m).rejected = TRUE
    BY DEF Refused, Outcome
  <2>2. PICK i \in First(Pending(m.table)) : o = SendEntry(m, i, b)
    BY <1>2, <2>1 DEF SendNext
  <2>3. o.rejected = b
    BY <2>2 DEF SendEntry, Outcome
  <2>4. b = FALSE
    BY <2>3
  <2>5. o = SendEntry(m, i, FALSE)
    BY <2>2, <2>4
  <2> QED
    BY <1>2, <2>4, <2>5 DEF SendNext
<1> QED
  BY <1>1, <1>2

(* What handling a manager may lead to when no request is refused: all     *)
(* stays as it is, or the list is cleared, or an entry is sent.            *)
Accepted(m, o) ==
  \/ /\ o.asks = {}
     /\ o.mgr.table = m.table /\ o.mgr.idx = m.idx /\ o.mgr.clear_pending = m.clear_pending
  \/ ~m.modify_pending /\ m.clear_pending /\ o = SendClear(m)
  \/ ~m.modify_pending /\ ~m.clear_pending /\ \E i \in Pending(m.table) : o = SendEntry(m, i, FALSE)

LEMMA IntAccepted ==
  ASSUME NEW m \in Manager, NEW r \in BOOLEAN,
         NEW o \in privacy_handle_resolv_list_int(m, r), o.rejected = FALSE
  PROVE Accepted(m, o)
<1>1. CASE m.modify_pending
  <2>1. o = Outcome([m EXCEPT !.state = "BUSY"], {}, FALSE)
    BY <1>1 DEF privacy_handle_resolv_list_int
  <2> QED
    BY <2>1 DEF Accepted, Outcome, Manager
<1>2. CASE ~m.modify_pending /\ m.clear_pending
  <2>1. o = SendClear(m)
    BY <1>2 DEF privacy_handle_resolv_list_int, Refused, Outcome
  <2> QED
    BY <1>2, <2>1 DEF Accepted
<1>3. CASE ~m.modify_pending /\ ~m.clear_pending
  <2>1. PICK D \in IF r THEN DropSets(m.table) ELSE {{}} :
          o \in SendNext(Dropped(m, D), D # {}, r)
    BY <1>3 DEF privacy_handle_resolv_list_int
  <2>2. (D # {}) \in BOOLEAN
    OBVIOUS
  <2>3. D = {} /\ o \in SendNext(m, FALSE, FALSE)
    <3>1. (D # {}) = FALSE /\ o \in SendNext(Dropped(m, D), FALSE, FALSE)
      BY <2>1, <2>2, NothingRejected
    <3>2. Dropped(m, {}) = m
      BY DEF Dropped, Manager
    <3> QED
      BY <3>1, <3>2
  <2>4. CASE Pending(m.table) = {}
    <3>1. o = Outcome([m EXCEPT !.state = "IDLE"], {}, FALSE)
      BY <2>3, <2>4 DEF SendNext
    <3> QED
      BY <3>1 DEF Accepted, Outcome, Manager
  <2>5. CASE Pending(m.table) # {}
    <3>1. PICK i \in First(Pending(m.table)) : o = SendEntry(m, i, FALSE)
      BY <2>3, <2>5 DEF SendNext
    <3>2. i \in Pending(m.table)
      BY <3>1 DEF First
    <3> QED
      BY <1>3, <3>1, <3>2 DEF Accepted
  <2> QED
    BY <2>4, <2>5
<1> QED
  BY <1>1, <1>2, <1>3

LEMMA HandleAccepted ==
  ASSUME TypeOK, rejects' = 0, NEW m, NEW q, Sound(m, q), Handle(m, q)
  PROVE \E o : /\ Accepted(m, o) /\ mgr' = o.mgr
               /\ IF o.asks = {} THEN request' = q ELSE request' \in o.asks
               /\ whiteList' = WhiteListAfter(o.asks)
<1>1. PICK o \in privacy_handle_resolv_list(m) :
        /\ mgr' = o.mgr
        /\ IF o.asks = {} THEN request' = q ELSE request' \in o.asks
        /\ whiteList' = WhiteListAfter(o.asks)
        /\ rejects' = IF o.rejected THEN rejects + 1 ELSE rejects
  BY DEF Handle
<1>2. m \in Manager
  BY DEF Sound, Kinds
<1>3. CASE privacy_resolution_status = "DISABLED" \/ radio = "idle"
  <2>1. (rejects < MaxRejects) \in BOOLEAN
    OBVIOUS
  <2>2. o \in privacy_handle_resolv_list_int(m, rejects < MaxRejects)
    BY <1>1, <1>3 DEF privacy_handle_resolv_list
  <2>3. o.rejected \in BOOLEAN
    BY <2>1, <2>2, HandleIntSound DEF Handled
  <2>4. o.rejected = FALSE
    BY <1>1, <2>3 DEF TypeOK
  <2> QED
    BY <1>1, <1>2, <2>1, <2>2, <2>4, IntAccepted
<1>4. CASE ~(privacy_resolution_status = "DISABLED" \/ radio = "idle")
  <2>1. o = Outcome(m, {}, FALSE)
    BY <1>1, <1>4 DEF privacy_handle_resolv_list
  <2>2. Accepted(m, o)
    BY <2>1 DEF Accepted, Outcome
  <2> QED
    BY <1>1, <2>2
<1> QED
  BY <1>3, <1>4

LEMMA OneAsk ==
  ASSUME NEW a
  PROVE WhiteListAfter({a}) = Changed(whiteList, a)
<1>1. CASE a.op = "CLEAR"
  BY <1>1 DEF WhiteListAfter, Changed
<1>2. CASE a.op # "CLEAR"
  <2>1. {r.addr : r \in {p \in {a} : p.op = "ADD"}} = IF a.op = "ADD" THEN {a.addr} ELSE {}
    OBVIOUS
  <2>2. {r.addr : r \in {p \in {a} : p.op = "REMOVE"}}
          = IF a.op = "REMOVE" THEN {a.addr} ELSE {}
    OBVIOUS
  <2>3. WhiteListAfter({a})
          = (whiteList \cup {r.addr : r \in {p \in {a} : p.op = "ADD"}})
              \ {r.addr : r \in {p \in {a} : p.op = "REMOVE"}}
    BY <1>2 DEF WhiteListAfter
  <2> QED
    BY <1>2, <2>1, <2>2, <2>3 DEF Changed
<1> QED
  BY <1>1, <1>2

LEMMA HandleListed ==
  ASSUME TypeOK, rejects' = 0, NEW m, NEW q, Sound(m, q),
         Listed(m, q, resolvList, whiteList), Handle(m, q)
  PROVE Listed(mgr', request', resolvList, whiteList')
<1>1. PICK o : /\ Accepted(m, o) /\ mgr' = o.mgr
               /\ IF o.asks = {} THEN request' = q ELSE request' \in o.asks
               /\ whiteList' = WhiteListAfter(o.asks)
  BY HandleAccepted
<1>2. CASE /\ o.asks = {}
           /\ o.mgr.table = m.table /\ o.mgr.idx = m.idx
           /\ o.mgr.clear_pending = m.clear_pending
  <2>1. Keeps(m, o.mgr) /\ request' = q /\ whiteList' = whiteList
    BY <1>1, <1>2 DEF Keeps, WhiteListAfter
  <2> QED
    BY <1>1, <1>2, <2>1, KeepsListed
<1>3. ASSUME NEW a, o.asks = {a} PROVE request' = a /\ whiteList' = Changed(whiteList, a)
  BY <1>1, <1>3, OneAsk
<1>4. CASE ~m.modify_pending /\ m.clear_pending /\ o = SendClear(m)
  <2>1. o.asks = {Ask("CLEAR", NoDevice)}
    BY <1>4 DEF SendClear, Outcome
  <2> QED
    BY <1>1, <1>3, <1>4, <2>1, SendClearListed
<1>5. ASSUME NEW i \in Pending(m.table), ~m.modify_pending, o = SendEntry(m, i, FALSE)
      PROVE Listed(mgr', request', resolvList, whiteList')
  <2>1. PICK a : o.asks = {a}
    BY <1>5 DEF SendEntry, Outcome
  <2>2. FALSE \in BOOLEAN
    OBVIOUS
  <2>3. Listed(SendEntry(m, i, FALSE).mgr, a, resolvList, Changed(whiteList, a))
    BY <1>5, <2>1, <2>2, SendEntryListed
  <2> QED
    BY <1>1, <1>3, <1>5, <2>1, <2>3
<1> QED
  BY <1>1, <1>2, <1>4, <1>5 DEF Accepted

-----------------------------------------------------------------------------
(* The responses.                                                          *)

(* The table after an entry with the address of the request is settled.    *)
LEMMA SettledListed ==
  ASSUME NEW m, NEW q, NEW R, NEW W, Sound(m, q), Listed(m, q, R, W),
         q.op \in {"ADD", "REMOVE"}, NEW n, n.clear_pending = m.clear_pending,
         NEW e, \A i \in Slots : n.table[i] = IF i = m.idx THEN e ELSE m.table[i],
         IF q.op = "ADD" /\ q.cause = "SUCCESS"
           THEN e.addr = q.addr /\ e.is_added = "ADDED" /\ e.state = "IDLE"
           ELSE e = ZeroEntry /\ (q.cause \in DropCauses \/ q.cause = "SUCCESS")
  PROVE Listed(n, NoRequest, R, W)
<1>1. /\ m.idx \in Slots /\ m.table[m.idx].addr = q.addr /\ q.addr \in Devices
      /\ \A i \in Slots : m.table[i].addr = q.addr => i = m.idx
  BY SlotFacts DEF Sound, Tracked, Distinct
<1>2. NoRequest.op = "NONE" /\ NoRequest.cause = "WAITING"
  BY DEF NoRequest
<1>3. R = Added(n.table)
  <2>1. CASE q.op = "ADD" /\ q.cause = "SUCCESS"
    <3>1. R = Added(m.table) \cup {q.addr}
      BY <2>1 DEF Listed, Expected
    <3>2. e.is_added = "ADDED" /\ e.addr = q.addr
      BY <2>1
    <3>3. m.table[m.idx].is_added # "ADDED"
      BY <2>1 DEF Listed
    <3>4. Added(n.table) = Added(m.table) \cup {q.addr}
      BY <1>1, <3>2, <3>3 DEF Added
    <3> QED
      BY <3>1, <3>4
  <2>2. CASE q.op = "REMOVE" /\ q.cause = "SUCCESS"
    <3>1. R = Added(m.table) \ {q.addr}
      BY <2>2 DEF Listed, Expected
    <3>2. e.is_added # "ADDED"
      BY <2>2, ZeroFacts
    <3>3. Added(n.table) = Added(m.table) \ {q.addr}
      BY <1>1, <3>2 DEF Added
    <3> QED
      BY <3>1, <3>3
  <2>3. CASE q.cause \in DropCauses
    <3>1. q.cause # "SUCCESS"
      BY <2>3 DEF DropCauses
    <3>2. R = Added(m.table) /\ m.table[m.idx].is_added # "ADDED"
      BY <2>3, <3>1 DEF Listed, Expected
    <3>3. e.is_added # "ADDED"
      BY <3>1, ZeroFacts
    <3>4. Added(n.table) = Added(m.table)
      BY <1>1, <3>2, <3>3 DEF Added
    <3> QED
      BY <3>2, <3>4
  <2> QED
    BY <2>1, <2>2, <2>3
<1>4. \A d \in R : d \in W \/ Leaving(n, d)
  <2> SUFFICES ASSUME NEW d \in R, d \notin W PROVE Leaving(n, d)
    OBVIOUS
  <2>1. Leaving(m, d)
    BY DEF Listed
  <2>2. d # q.addr
    <3>1. CASE q.op = "ADD"
      BY <3>1 DEF Listed
    <3>2. CASE q.op = "REMOVE"
      <4>1. e.is_added # "ADDED"
        BY <3>2, ZeroFacts
      <4>2. q.addr \notin Added(n.table)
        BY <1>1, <4>1 DEF Added
      <4> QED
        BY <1>3, <4>2
    <3> QED
      BY <3>1, <3>2
  <2> QED
    BY <1>1, <2>1, <2>2 DEF Leaving
<1>5. \A i \in Slots : n.table[i].is_added = "ADDED" => n.table[i].state # "ADD_PENDING"
  BY ZeroFacts DEF Listed
<1> QED
  BY <1>2, <1>3, <1>4, <1>5 DEF Listed, Expected

LEMMA RspSucceededListed ==
  ASSUME NEW m, NEW q, NEW R, NEW W, Sound(m, q), Listed(m, q, R, W),
         q.op # "NONE", q.cause = "SUCCESS"
  PROVE Listed(RspSucceeded(m, q.op), NoRequest, R, W)
<1>1. m \in Manager /\ q.op \in {"ADD", "REMOVE", "CLEAR"}
  BY DEF Sound, Kinds, Tracked, Request
<1>2. CASE q.op = "CLEAR"
  <2> DEFINE n == RspCleared(m)
  <2>1. n.table = [i \in Slots |-> ZeroEntry]
    BY <1>1 DEF RspCleared, Manager
  <2>2. \A i \in Slots : n.table[i].is_added = "IDLE"
    BY <2>1, ZeroFacts
  <2> HIDE DEF n
  <2>3. Added(n.table) = {} /\ R = {}
    BY <1>2, <2>2 DEF Added, Listed, Expected
  <2>4. Listed(n, NoRequest, R, W)
    BY <2>2, <2>3 DEF Listed, Expected, NoRequest
  <2> QED
    BY <1>2, <2>4 DEF RspSucceeded, n
<1>3. CASE q.op \in {"ADD", "REMOVE"}
  <2> DEFINE n == RspChanged(m, q.op)
             e == IF q.op = "REMOVE" THEN ZeroEntry
                  ELSE [m.table[m.idx] EXCEPT !.is_added = "ADDED", !.state = "IDLE"]
             t == [i \in Slots |-> IF i = m.idx THEN e ELSE m.table[i]]
  <2>1. m.idx \in Slots /\ m.table[m.idx] \in Entry /\ m.table[m.idx].addr = q.addr
    BY <1>1, <1>3 DEF Sound, Tracked, Manager
  <2>2. e \in Entry /\ IF q.op = "ADD"
                         THEN e.addr = q.addr /\ e.is_added = "ADDED" /\ e.state = "IDLE"
                         ELSE e = ZeroEntry
    BY <1>3, <2>1, ZeroFacts DEF Entry
  <2>3. n = [m EXCEPT !.modify_pending = FALSE, !.idx = NoIndex, !.table = t]
    BY <1>3, <2>1 DEF RspChanged
  <2> HIDE DEF n, e
  <2>4. t \in [Slots -> Entry]
    BY <1>1, <2>2, ManagerFields
  <2>5. n.table = t /\ n.clear_pending = m.clear_pending
    BY <1>1, <2>3, <2>4 DEF Manager
  <2>6. \A i \in Slots : n.table[i] = IF i = m.idx THEN e ELSE m.table[i]
    BY <2>5
  <2>7. Listed(n, NoRequest, R, W)
    BY <1>3, <2>2, <2>5, <2>6, SettledListed
  <2> QED
    BY <1>3, <2>7 DEF RspSucceeded, n
<1> QED
  BY <1>1, <1>2, <1>3

LEMMA RspFailedListed ==
  ASSUME NEW m, NEW q, NEW R, NEW W, Sound(m, q), Listed(m, q, R, W),
         q.op # "NONE", q.cause # "SUCCESS"
  PROVE Listed(RspFailed(m, q.cause), NoRequest, R, W)
<1> DEFINE n == RspFailed(m, q.cause)
           t == [i \in Slots |-> IF i = m.idx THEN ZeroEntry ELSE m.table[i]]
<1>1. m \in Manager /\ q.op \in {"ADD", "REMOVE", "CLEAR"}
  BY DEF Sound, Kinds, Tracked, Request
<1>2. CASE q.cause \in DropCauses
  <2>1. q.op \in {"ADD", "REMOVE"}
    BY <1>1, <1>2 DEF Sound, Tracked
  <2>2. n = [m EXCEPT !.modify_pending = FALSE, !.idx = NoIndex, !.table = t]
    BY <1>2 DEF RspFailed
  <2>3. t \in [Slots -> Entry]
    BY <1>1, ZeroFacts, ManagerFields
  <2> HIDE DEF n
  <2>4. n.table = t /\ n.clear_pending = m.clear_pending
    BY <1>1, <2>2, <2>3 DEF Manager
  <2>5. \A i \in Slots : n.table[i] = IF i = m.idx THEN ZeroEntry ELSE m.table[i]
    BY <2>4
  <2>6. Listed(n, NoRequest, R, W)
    BY <1>2, <2>1, <2>4, <2>5, SettledListed
  <2> QED
    BY <2>6 DEF n
<1>3. CASE q.cause \notin DropCauses
  <2>1. n = [m EXCEPT !.modify_pending = FALSE, !.idx = NoIndex, !.table = m.table]
    BY <1>3 DEF RspFailed
  <2> HIDE DEF n
  <2>2. n.table = m.table /\ n.clear_pending = m.clear_pending
    BY <1>1, <2>1 DEF Manager
  <2>3. R = Added(n.table)
    BY <2>2 DEF Listed, Expected
  <2>4. Listed(n, NoRequest, R, W)
    BY <2>2, <2>3 DEF Listed, Expected, Leaving, NoRequest
  <2> QED
    BY <2>4 DEF n
<1> QED
  BY <1>2, <1>3

-----------------------------------------------------------------------------
ListInv == IInv /\ (rejects = 0 => Listed(mgr, request, resolvList, whiteList))

LEMMA InitListed == Init => ListInv
<1> SUFFICES ASSUME Init PROVE Listed(mgr, request, resolvList, whiteList)
  BY InitSound DEF ListInv
<1>1. PICK n, stored :
        mgr = [table |-> InitTable(n, stored), clear_pending |-> FALSE,
               modify_pending |-> FALSE, idx |-> NoIndex,
               state |-> IF n = 0 THEN "IDLE" ELSE "BUSY"]
  BY DEF Init
<1>2. \A i \in Slots : mgr.table[i].is_added = "IDLE"
  BY <1>1, ZeroFacts DEF InitTable, NewEntry
<1> QED
  BY <1>2 DEF Init, Listed, Expected, Added, NoRequest

LEMMA NextListed == ListInv /\ [Next]_vars => ListInv'
<1> SUFFICES ASSUME ListInv, [Next]_vars, rejects' = 0
             PROVE Listed(mgr', request', resolvList', whiteList')
  BY NextSound DEF ListInv
<1>0. rejects = 0
  <2>1. TypeOK
    BY DEF ListInv, IInv
  <2>2. rejects' \in {rejects, rejects + 1}
    BY DEF Next, BondAdd, BondDelete, BondClear, HandleRsp, HandleDevState,
           HandleResolutionStatus, ControllerRuns, RadioActive, RadioIdle, Handle, vars
  <2> QED
    BY <2>1, <2>2 DEF TypeOK
<1>1. TypeOK /\ Sound(mgr, request) /\ Listed(mgr, request, resolvList, whiteList)
  BY <1>0 DEF ListInv, IInv
<1>2. ASSUME NEW d \in Devices, BondAdd(d)
      PROVE Listed(mgr', request', resolvList', whiteList')
  <2>1. PICK m \in ModifyAdd(mgr, d) : Handle(m, request)
    BY <1>2 DEF BondAdd
  <2>2. Sound(m, request) /\ Listed(m, request, resolvList, whiteList)
    BY <1>1, <2>1, AddSound, AddListed
  <2>3. resolvList' = resolvList
    BY <1>2 DEF BondAdd, BondChange
  <2> QED
    BY <1>1, <2>1, <2>2, <2>3, HandleListed
<1>3. ASSUME NEW d \in Devices, BondDelete(d)
      PROVE Listed(mgr', request', resolvList', whiteList')
  <2>1. PICK m \in ModifyRemove(mgr, d) : Handle(m, request)
    BY <1>3 DEF BondDelete
  <2>2. Sound(m, request) /\ Listed(m, request, resolvList, whiteList)
    BY <1>1, <2>1, RemoveSound, RemoveListed
  <2>3. resolvList' = resolvList
    BY <1>3 DEF BondDelete, BondChange
  <2> QED
    BY <1>1, <2>1, <2>2, <2>3, HandleListed
<1>4. ASSUME BondClear PROVE Listed(mgr', request', resolvList', whiteList')
  <2>1. PICK m \in ModifyClear(mgr) : Handle(m, request)
    BY <1>4 DEF BondClear
  <2>2. Sound(m, request) /\ Listed(m, request, resolvList, whiteList)
    BY <1>1, <2>1, ClearSound, ClearListed
  <2>3. resolvList' = resolvList
    BY <1>4 DEF BondClear, BondChange
  <2> QED
    BY <1>1, <2>1, <2>2, <2>3, HandleListed
<1>5. ASSUME HandleRsp PROVE Listed(mgr', request', resolvList', whiteList')
  <2>1. request.op # "NONE" /\ resolvList' = resolvList
    BY <1>5 DEF HandleRsp
  <2>2. CASE request.cause = "SUCCESS"
    <3>1. Handle(RspSucceeded(mgr, request.op), NoRequest)
      BY <1>5, <2>2 DEF HandleRsp
    <3>2. Sound(RspSucceeded(mgr, request.op), NoRequest)
      BY <1>1, <2>1, RspSucceededSound
    <3>3. Listed(RspSucceeded(mgr, request.op), NoRequest, resolvList, whiteList)
      BY <1>1, <2>1, <2>2, RspSucceededListed
    <3> QED
      BY <1>1, <2>1, <3>1, <3>2, <3>3, HandleListed
  <2>3. CASE request.cause # "SUCCESS"
    <3>1. Listed(RspFailed(mgr, request.cause), NoRequest, resolvList, whiteList)
      BY <1>1, <2>1, <2>3, RspFailedListed
    <3> QED
      BY <1>5, <2>1, <2>3, <3>1 DEF HandleRsp
  <2> QED
    BY <2>2, <2>3
<1>6. ASSUME HandleDevState PROVE Listed(mgr', request', resolvList', whiteList')
  BY <1>1, <1>6, HandleListed DEF HandleDevState
<1>7. ASSUME ControllerRuns PROVE Listed(mgr', request', resolvList', whiteList')
  <2>1. /\ request \in Request /\ request.op # "NONE" /\ request.cause = "WAITING"
        /\ mgr' = mgr /\ whiteList' = whiteList
    BY <1>1, <1>7 DEF ControllerRuns, TypeOK
  <2>2. resolvList = Added(mgr.table)
    BY <1>1, <2>1 DEF Listed, Expected
  <2>3. PICK c \in {"SUCCESS", "DISALLOWED"} \cup DropCauses :
          /\ request' = [request EXCEPT !.cause = c]
          /\ c = "SUCCESS" => resolvList' = ListAfter(request)
          /\ c # "SUCCESS" => resolvList' = resolvList
          /\ c \in DropCauses => c = ResultOf(request)
    BY <1>7 DEF ControllerRuns, ResultOf, DropCauses
  <2>4. request'.op = request.op /\ request'.addr = request.addr /\ request'.cause = c
    BY <2>1, <2>3 DEF Request
  <2>5. request.op \in {"ADD", "REMOVE", "CLEAR"}
    BY <2>1 DEF Request
  <2>6. resolvList' = Expected(mgr.table, request')
    BY <2>2, <2>3, <2>4, <2>5 DEF Expected, ListAfter
  <2>7. request.op = "REMOVE" /\ c \in DropCauses => mgr.table[mgr.idx].is_added # "ADDED"
    <3> SUFFICES ASSUME request.op = "REMOVE", c \in DropCauses,
                        mgr.table[mgr.idx].is_added = "ADDED"
                 PROVE FALSE
      OBVIOUS
    <3>1. mgr.idx \in Slots /\ mgr.table[mgr.idx].addr = request.addr
      BY <1>1 DEF Sound, Tracked
    <3>2. request.addr \in resolvList
      BY <2>2, <3>1 DEF Added
    <3> QED
      BY <2>3, <3>2 DEF ResultOf, DropCauses
  <2>8. \A d \in resolvList' : d \in whiteList \/ Leaving(mgr, d)
    <3>1. \A d \in resolvList' :
            d \in resolvList \/ (request.op = "ADD" /\ d = request.addr)
      BY <2>3, <2>5 DEF ListAfter
    <3> QED
      BY <1>1, <3>1 DEF Listed
  <2>9. Listed(mgr, request', resolvList', whiteList)
    BY <1>1, <2>1, <2>4, <2>6, <2>7, <2>8 DEF Listed
  <2> QED
    BY <2>1, <2>9
<1>8. CASE HandleResolutionStatus
  BY <1>1, <1>8 DEF HandleResolutionStatus
<1>9. CASE RadioActive
  BY <1>1, <1>9 DEF RadioActive
<1>10. CASE RadioIdle
  BY <1>1, <1>10 DEF RadioIdle
<1>11. CASE UNCHANGED vars
  BY <1>1, <1>11 DEF vars, stackVars
<1> QED
  BY <1>2, <1>3, <1>4, <1>5, <1>6, <1>7, <1>8, <1>9, <1>10, <1>11 DEF Next

LEMMA AlwaysListed == Spec => []ListInv
<1>1. Init => ListInv
  BY InitListed
<1>2. ListInv /\ [Next]_vars => ListInv'
  BY NextListed
<1> QED
  BY <1>1, <1>2, PTL DEF Spec

(* While the stack has refused no request, the resolving list holds        *)
(* between requests exactly the devices that the table says were added.    *)
THEOREM ListAlwaysFollowsTable == Spec => []ListFollowsTable
<1>1. ListInv => ListFollowsTable
  <2> SUFFICES ASSUME ListInv, rejects = 0, request.op = "NONE"
               PROVE resolvList = Added(mgr.table)
    BY DEF ListFollowsTable, Added
  <2> QED
    BY DEF ListInv, Listed, Expected
<1> QED
  BY <1>1, AlwaysListed, PTL

(* While the stack has refused no request, every device that the           *)
(* controller resolves is on its white list while nothing is pending.      *)
THEOREM WhiteListAlwaysCovers == Spec => []WhiteListCovers
<1>1. ListInv => WhiteListCovers
  BY DEF ListInv, IInv, Sound, Quiet, Listed, Leaving, WhiteListCovers
<1> QED
  BY <1>1, AlwaysListed, PTL

-----------------------------------------------------------------------------
(* The table follows the bonds, when bonds change only while nothing is    *)
(* pending, the resolving list has room for all of them and the stack      *)
(* refuses no request.  The argument is about a manager m, the request q   *)
(* under way and the bonds B.                                              *)

(* The devices that the table keeps, or is about to add.                   *)
Owned(t) ==
  {t[i].addr : i \in {j \in Slots : t[j].addr # NoDevice /\ t[j].state # "REMOVE_PENDING"}}

(* No response drops an entry, and an entry that does not wait to be added *)
(* was added: the last two conjuncts are what keeps the first.             *)
Kept(m, q, B) ==
  /\ B = IF m.clear_pending THEN {} ELSE Owned(m.table)
  /\ \A i \in Slots : m.table[i].addr # NoDevice /\ m.table[i].state # "ADD_PENDING"
                        => m.table[i].is_added = "ADDED"
  /\ q.cause \notin DropCauses

(* With no free entry there are as many bonds as the table has entries.    *)
LEMMA FullTable ==
  ASSUME NEW t, Distinct(t), NEW B, IsFiniteSet(B), Cardinality(B) < BondNum,
         \A i \in Slots : t[i].addr # NoDevice => t[i].addr \in B
  PROVE EntriesOf(t, NoDevice) # {}
<1> SUFFICES ASSUME \A i \in Slots : t[i].addr # NoDevice PROVE FALSE
  BY DEF EntriesOf
<1> DEFINE f == [i \in Slots |-> t[i].addr]
<1>1. BondNum \in Nat \ {0}
  BY PrivacyAssumption DEF PrivacyAssumption, NoIndex
<1>2. IsFiniteSet(Slots) /\ Cardinality(Slots) = BondNum
  <2>1. 0 \in Int /\ BondNum - 1 \in Int
    BY <1>1
  <2>2. IsFiniteSet(0 .. BondNum - 1)
        /\ Cardinality(0 .. BondNum - 1) = IF 0 > BondNum - 1 THEN 0 ELSE BondNum - 1 - 0 + 1
    BY <2>1, FS_Interval
  <2> QED
    BY <1>1, <2>2 DEF Slots
<1>3. f \in Injection(Slots, B)
  BY DEF Injection, IsInjective, Distinct
<1>4. Cardinality(Slots) <= Cardinality(B)
  BY <1>3, FS_Injection
<1>5. Cardinality(B) \in Nat
  BY FS_CardinalityType
<1> QED
  BY <1>1, <1>2, <1>4, <1>5

(* While an entry waits to be added, the list has room for its device.     *)
LEMMA RoomForOne ==
  ASSUME NEW t, Distinct(t), NEW i \in Slots, t[i].is_added # "ADDED", NEW n \in Nat,
         BondNum <= n, \A j \in Slots : t[j].is_added = "ADDED" => t[j].addr # NoDevice
  PROVE Cardinality(Added(t)) \in Nat /\ Cardinality(Added(t)) < n
<1> DEFINE S == {j \in Slots : t[j].is_added = "ADDED"}
           f == [j \in S |-> t[j].addr]
<1>1. BondNum \in Nat \ {0}
  BY PrivacyAssumption DEF PrivacyAssumption, NoIndex
<1>2. IsFiniteSet(Slots) /\ Cardinality(Slots) = BondNum
  <2>1. 0 \in Int /\ BondNum - 1 \in Int
    BY <1>1
  <2>2. IsFiniteSet(0 .. BondNum - 1)
        /\ Cardinality(0 .. BondNum - 1) = IF 0 > BondNum - 1 THEN 0 ELSE BondNum - 1 - 0 + 1
    BY <2>1, FS_Interval
  <2> QED
    BY <1>1, <2>2 DEF Slots
<1>3. IsFiniteSet(S) /\ Cardinality(S) < BondNum
  <2>1. S \in SUBSET Slots /\ S # Slots
    OBVIOUS
  <2>2. IsFiniteSet(S) /\ Cardinality(S) <= BondNum /\ Cardinality(S) # BondNum
    BY <1>2, <2>1, FS_Subset
  <2>3. Cardinality(S) \in Nat
    BY <2>2, FS_CardinalityType
  <2> QED
    BY <1>1, <2>2, <2>3
<1>4. f \in Surjection(S, Added(t))
  BY DEF Surjection, Added
<1>5. IsFiniteSet(Added(t)) /\ Cardinality(Added(t)) <= Cardinality(S)
  BY <1>3, <1>4, FS_Surjection
<1>6. Cardinality(Added(t)) \in Nat /\ Cardinality(S) \in Nat
  BY <1>3, <1>5, FS_CardinalityType
<1> QED
  BY <1>1, <1>3, <1>5, <1>6

(* With bonds that change only then, what a manager reports idle knows.    *)
LEMMA IdleKept ==
  ASSUME NEW m, NEW q, NEW B, Sound(m, q), Kept(m, q, B), m.state = "IDLE"
  PROVE /\ ~m.clear_pending /\ q.op = "NONE"
        /\ B = {m.table[i].addr : i \in {j \in Slots : m.table[j].addr # NoDevice}}
        /\ \A i \in Slots : m.table[i].state = "IDLE"
        /\ \A i \in Slots : m.table[i].addr # NoDevice <=> m.table[i].is_added = "ADDED"
<1>1. ~m.clear_pending /\ ~m.modify_pending /\ \A i \in Slots : m.table[i].state = "IDLE"
  BY DEF Sound, Quiet
<1>2. q.op = "NONE"
  BY <1>1 DEF Sound, Tracked
<1>3. \A i \in Slots : m.table[i].addr # NoDevice <=> m.table[i].is_added = "ADDED"
  BY <1>1, ZeroFacts DEF Kept, Sound, Kinds
<1>4. B = {m.table[i].addr : i \in {j \in Slots : m.table[j].addr # NoDevice}}
  BY <1>1 DEF Kept, Owned
<1> QED
  BY <1>1, <1>2, <1>3, <1>4

LEMMA ClearKept ==
  ASSUME NEW m, NEW q, NEW B, Sound(m, q), Kept(m, q, B), NEW m2 \in ModifyClear(m)
  PROVE Kept(m2, q, {})
<1>1. m \in Manager /\ m2 = [m EXCEPT !.clear_pending = TRUE, !.state = "BUSY"]
  BY DEF ModifyClear, Sound, Kinds
<1>2. m2.table = m.table /\ m2.clear_pending
  BY <1>1 DEF Manager
<1> QED
  BY <1>2 DEF Kept

LEMMA AddKept ==
  ASSUME NEW m, NEW q, NEW B \in SUBSET Devices, NEW d \in Devices, Sound(m, q), Kept(m, q, B),
         m.state = "IDLE", d \notin B, IsFiniteSet(B), Cardinality(B) < BondNum,
         NEW m2 \in ModifyAdd(m, d)
  PROVE Kept(m2, q, B \cup {d})
<1>1. /\ ~m.clear_pending
      /\ B = {m.table[i].addr : i \in {j \in Slots : m.table[j].addr # NoDevice}}
      /\ \A i \in Slots : m.table[i].state = "IDLE"
      /\ m \in Manager /\ NoDevice \notin Devices
  BY IdleKept, SlotFacts DEF Sound, Kinds
<1>2. EntriesOf(m.table, d) = {}
  BY <1>1 DEF EntriesOf
<1>3. EntriesOf(m.table, NoDevice) # {}
  <2>1. Distinct(m.table) /\ \A i \in Slots : m.table[i].addr # NoDevice => m.table[i].addr \in B
    BY <1>1 DEF Sound
  <2> QED
    BY <2>1, FullTable
<1>4. PICK i \in EntriesOf(m.table, NoDevice) :
        m2 = [m EXCEPT !.table[i] = NewEntry(d), !.state = "BUSY"]
  BY <1>2, <1>3 DEF ModifyAdd, First
<1>5. i \in Slots /\ m.table[i].addr = NoDevice
  BY <1>4 DEF EntriesOf
<1>6. NewEntry(d).addr = d /\ NewEntry(d).state = "ADD_PENDING"
  BY DEF NewEntry
<1>7. m2.table = [m.table EXCEPT ![i] = NewEntry(d)] /\ m2.clear_pending = m.clear_pending
  BY <1>1, <1>4, <1>5 DEF Manager
<1>8. \A j \in Slots : m2.table[j] = IF j = i THEN NewEntry(d) ELSE m.table[j]
  BY <1>1, <1>5, <1>7 DEF Manager
<1>9. Owned(m2.table) = Owned(m.table) \cup {d}
  BY <1>1, <1>5, <1>6, <1>8 DEF Owned
<1>10. B = Owned(m.table)
  BY <1>1 DEF Kept
<1> QED
  BY <1>1, <1>6, <1>7, <1>8, <1>9, <1>10 DEF Kept

LEMMA RemoveKept ==
  ASSUME NEW m, NEW q, NEW B \in SUBSET Devices, NEW d \in B, Sound(m, q), Kept(m, q, B),
         m.state = "IDLE", NEW m2 \in ModifyRemove(m, d)
  PROVE Kept(m2, q, B \ {d})
<1>1. /\ ~m.clear_pending
      /\ B = {m.table[i].addr : i \in {j \in Slots : m.table[j].addr # NoDevice}}
      /\ \A i \in Slots : m.table[i].state = "IDLE"
      /\ \A i \in Slots : m.table[i].addr # NoDevice <=> m.table[i].is_added = "ADDED"
      /\ m \in Manager
  BY IdleKept DEF Sound, Kinds
<1>2. EntriesOf(m.table, d) # {}
  BY <1>1 DEF EntriesOf
<1>3. PICK i \in EntriesOf(m.table, d) :
        m2 = IF m.table[i].is_added # "IDLE"
               THEN [m EXCEPT !.table[i].state = "REMOVE_PENDING", !.state = "BUSY"]
               ELSE [m EXCEPT !.table[i] = ZeroEntry]
  BY <1>2 DEF ModifyRemove, First
<1>4. i \in Slots /\ m.table[i].addr = d /\ d # NoDevice /\ m.table[i] \in Entry
  BY <1>1, <1>3, SlotFacts DEF EntriesOf, Manager
<1> DEFINE e == [m.table[i] EXCEPT !.state = "REMOVE_PENDING"]
<1>5. e.addr = d /\ e.state = "REMOVE_PENDING" /\ e.is_added = "ADDED"
  BY <1>1, <1>4 DEF Entry
<1>6. m2.table = [m.table EXCEPT ![i] = e] /\ m2.clear_pending = m.clear_pending
  BY <1>1, <1>3, <1>4 DEF Manager
<1> HIDE DEF e
<1>7. \A j \in Slots : m2.table[j] = IF j = i THEN e ELSE m.table[j]
  BY <1>1, <1>4, <1>6 DEF Manager
<1>8. \A j \in Slots : m.table[j].addr = d => j = i
  BY <1>4 DEF Sound, Distinct
<1>9. Owned(m2.table) = Owned(m.table) \ {d}
  BY <1>4, <1>5, <1>7, <1>8 DEF Owned
<1>10. B = Owned(m.table)
  BY <1>1 DEF Kept
<1> QED
  BY <1>1, <1>5, <1>6, <1>7, <1>9, <1>10 DEF Kept

LEMMA HandleKept ==
  ASSUME TypeOK, rejects' = 0, NEW m, NEW q, NEW B, Sound(m, q), Kept(m, q, B), Handle(m, q)
  PROVE Kept(mgr', request', B)
<1>1. PICK o : /\ Accepted(m, o) /\ mgr' = o.mgr
               /\ IF o.asks = {} THEN request' = q ELSE request' \in o.asks
  BY HandleAccepted
<1>2. m \in Manager
  BY DEF Sound, Kinds
<1>0. \A op, d : o.asks = {Ask(op, d)} => request'.cause = "WAITING"
  <2> SUFFICES ASSUME NEW op, NEW d, o.asks = {Ask(op, d)} PROVE request'.cause = "WAITING"
    OBVIOUS
  <2>1. o.asks # {}
    OBVIOUS
  <2>2. request' = Ask(op, d)
    BY <1>1, <2>1
  <2> QED
    BY <2>2 DEF Ask
<1>3. CASE /\ o.asks = {}
           /\ o.mgr.table = m.table /\ o.mgr.idx = m.idx
           /\ o.mgr.clear_pending = m.clear_pending
  BY <1>1, <1>3 DEF Kept
<1>4. CASE m.clear_pending /\ o = SendClear(m)
  <2>1. o.asks = {Ask("CLEAR", NoDevice)} /\ o.mgr.table = m.table
        /\ o.mgr.clear_pending = m.clear_pending
    BY <1>2, <1>4 DEF SendClear, Outcome, Manager
  <2>2. request'.cause = "WAITING"
    BY <1>1, <2>1, <1>0
  <2> QED
    BY <1>1, <2>1, <2>2 DEF Kept, DropCauses
<1>5. ASSUME NEW i \in Pending(m.table), o = SendEntry(m, i, FALSE)
      PROVE Kept(mgr', request', B)
  <2>1. i \in Slots /\ m.table[i] \in Entry
    BY <1>2 DEF Pending, Manager
  <2> DEFINE e == IF m.table[i].state = "ADD_PENDING"
                    THEN [m.table[i] EXCEPT !.is_added = "ADDED_PENDING"] ELSE m.table[i]
             n == o.mgr
  <2>2. e.addr = m.table[i].addr /\ e.state = m.table[i].state
        /\ (e.state # "ADD_PENDING" => e.is_added = m.table[i].is_added)
    BY <2>1 DEF Entry
  <2>3. n.table = [m.table EXCEPT ![i] = e] /\ n.clear_pending = m.clear_pending
        /\ request'.cause = "WAITING"
    <3>1. CASE m.table[i].state = "ADD_PENDING"
      <4>1. o.mgr = [m EXCEPT !.modify_pending = TRUE, !.idx = i, !.state = "BUSY",
                              !.table = [m.table EXCEPT ![i] = e]]
            /\ o.asks = {Ask("ADD", m.table[i].addr)}
        BY <1>2, <1>5, <2>1, <3>1 DEF SendEntry, Outcome, Manager
      <4>2. o.mgr.table = [m.table EXCEPT ![i] = e] /\ o.mgr.clear_pending = m.clear_pending
        BY <1>2, <4>1 DEF Manager
      <4> QED
        BY <1>0, <4>1, <4>2
    <3>2. CASE m.table[i].state # "ADD_PENDING"
      <4>1. o.mgr.table = m.table /\ o.mgr.clear_pending = m.clear_pending
            /\ o.asks = {Ask("REMOVE", m.table[i].addr)}
        BY <1>2, <1>5, <3>2 DEF SendEntry, Outcome, Manager
      <4>2. [m.table EXCEPT ![i] = e] = m.table
        BY <1>2, <2>1, <3>2 DEF Manager
      <4> QED
        BY <1>0, <4>1, <4>2
    <3> QED
      BY <3>1, <3>2
  <2> HIDE DEF e, n
  <2>4. \A j \in Slots : n.table[j] = IF j = i THEN e ELSE m.table[j]
    BY <1>2, <2>1, <2>3 DEF Manager
  <2>5. Owned(n.table) = Owned(m.table)
    BY <2>2, <2>4 DEF Owned
  <2>6. Kept(n, request', B)
    BY <2>2, <2>3, <2>4, <2>5 DEF Kept, DropCauses
  <2> QED
    BY <1>1, <2>6 DEF n
<1> QED
  BY <1>1, <1>3, <1>4, <1>5 DEF Accepted

LEMMA RspSucceededKept ==
  ASSUME NEW m, NEW q, NEW R, NEW W, NEW B, Sound(m, q), Listed(m, q, R, W), Kept(m, q, B),
         q.op # "NONE"
  PROVE Kept(RspSucceeded(m, q.op), NoRequest, B)
<1>1. m \in Manager /\ q.op \in {"ADD", "REMOVE", "CLEAR"}
      /\ NoRequest.cause \notin DropCauses
  BY DEF Sound, Kinds, Tracked, Request, NoRequest, DropCauses
<1>2. CASE q.op = "CLEAR"
  <2> DEFINE n == RspCleared(m)
  <2>1. n.table = [i \in Slots |-> ZeroEntry] /\ ~n.clear_pending
    BY <1>1 DEF RspCleared, Manager
  <2>2. m.clear_pending
    BY <1>2 DEF Sound, Tracked
  <2> HIDE DEF n
  <2>3. \A i \in Slots : n.table[i].addr = NoDevice
    BY <2>1, ZeroFacts
  <2>4. Kept(n, NoRequest, B)
    BY <1>1, <2>1, <2>2, <2>3 DEF Kept, Owned
  <2> QED
    BY <1>2, <2>4 DEF RspSucceeded, n
<1>3. CASE q.op \in {"ADD", "REMOVE"}
  <2> DEFINE n == RspChanged(m, q.op)
             e == IF q.op = "REMOVE" THEN ZeroEntry
                  ELSE [m.table[m.idx] EXCEPT !.is_added = "ADDED", !.state = "IDLE"]
             t == [i \in Slots |-> IF i = m.idx THEN e ELSE m.table[i]]
  <2>1. /\ m.idx \in Slots /\ m.table[m.idx] \in Entry /\ m.table[m.idx].addr = q.addr
        /\ q.addr # NoDevice
    BY <1>1, <1>3, SlotFacts DEF Sound, Tracked, Manager
  <2>2. /\ q.op = "ADD" => m.table[m.idx].state = "ADD_PENDING"
        /\ q.op = "REMOVE" => m.table[m.idx].state = "REMOVE_PENDING"
    BY <2>1 DEF Listed, Kept
  <2>3. e \in Entry /\ IF q.op = "ADD"
                         THEN e.addr = q.addr /\ e.is_added = "ADDED" /\ e.state = "IDLE"
                         ELSE e = ZeroEntry
    BY <1>3, <2>1, ZeroFacts DEF Entry
  <2>4. n = [m EXCEPT !.modify_pending = FALSE, !.idx = NoIndex, !.table = t]
    BY <1>3, <2>1 DEF RspChanged
  <2> HIDE DEF n, e
  <2>5. t \in [Slots -> Entry]
    BY <1>1, <2>3, ManagerFields
  <2>6. n.table = t /\ n.clear_pending = m.clear_pending
    BY <1>1, <2>4, <2>5 DEF Manager
  <2>7. \A i \in Slots : n.table[i] = IF i = m.idx THEN e ELSE m.table[i]
    BY <2>6
  <2>8. Owned(n.table) = Owned(m.table)
    BY <1>3, <2>1, <2>2, <2>3, <2>7, ZeroFacts DEF Owned
  <2>9. Kept(n, NoRequest, B)
    BY <1>1, <1>3, <2>3, <2>6, <2>7, <2>8, ZeroFacts DEF Kept
  <2> QED
    BY <1>3, <2>9 DEF RspSucceeded, n
<1> QED
  BY <1>1, <1>2, <1>3

LEMMA RspFailedKept ==
  ASSUME NEW m, NEW q, NEW B, Sound(m, q), Kept(m, q, B)
  PROVE Kept(RspFailed(m, q.cause), NoRequest, B)
<1> DEFINE n == RspFailed(m, q.cause)
<1>1. m \in Manager /\ q.cause \notin DropCauses /\ NoRequest.cause \notin DropCauses
  BY DEF Sound, Kinds, Kept, NoRequest, DropCauses
<1>2. n = [m EXCEPT !.modify_pending = FALSE, !.idx = NoIndex, !.table = m.table]
  BY <1>1 DEF RspFailed
<1> HIDE DEF n
<1>3. n.table = m.table /\ n.clear_pending = m.clear_pending
  BY <1>1, <1>2 DEF Manager
<1>4. Kept(n, NoRequest, B)
  BY <1>1, <1>3 DEF Kept
<1> QED
  BY <1>4 DEF n

(* The controller finds nothing wrong with a request: the device to add is *)
(* not on its list, which has room, and the one to remove is.              *)
LEMMA NothingToDrop ==
  ASSUME TypeOK, Sound(mgr, request), Listed(mgr, request, resolvList, whiteList),
         Kept(mgr, request, bonded), BondNum <= listSize,
         request.op # "NONE", request.cause = "WAITING"
  PROVE ResultOf(request) = "SUCCESS"
<1> DEFINE i == mgr.idx
           d == request.addr
<1>1. request.op \in {"ADD", "REMOVE", "CLEAR"}
  BY DEF TypeOK, Request
<1>2. resolvList = Added(mgr.table)
  BY DEF Listed, Expected
<1>3. request.op \in {"ADD", "REMOVE"} => i \in Slots /\ mgr.table[i].addr = d /\ d # NoDevice
  BY SlotFacts DEF Sound, Tracked
<1>4. CASE request.op = "CLEAR"
  BY <1>4 DEF ResultOf
<1>5. CASE request.op = "REMOVE"
  <2>1. mgr.table[i].state = "REMOVE_PENDING"
    BY <1>5 DEF Listed
  <2>2. mgr.table[i].is_added = "ADDED"
    BY <1>3, <1>5, <2>1 DEF Kept
  <2>3. d \in resolvList
    BY <1>2, <1>3, <1>5, <2>2 DEF Added
  <2> QED
    BY <1>5, <2>3 DEF ResultOf
<1>6. CASE request.op = "ADD"
  <2>1. mgr.table[i].is_added # "ADDED" /\ Distinct(mgr.table)
    BY <1>6 DEF Listed, Sound
  <2>2. d \notin resolvList
    BY <1>2, <1>3, <1>6, <2>1 DEF Added, Distinct
  <2>3. \A j \in Slots : mgr.table[j].is_added = "ADDED" => mgr.table[j].addr # NoDevice
    BY ZeroFacts DEF Sound, Kinds
  <2>4. listSize \in Nat
    BY PrivacyAssumption DEF PrivacyAssumption, TypeOK
  <2>5. Cardinality(resolvList) \in Nat /\ Cardinality(resolvList) < listSize
    BY <1>2, <1>3, <1>6, <2>1, <2>3, <2>4, RoomForOne
  <2>6. ~(Cardinality(resolvList) >= listSize)
    BY <2>4, <2>5
  <2> QED
    BY <1>6, <2>2, <2>6 DEF ResultOf
<1> QED
  BY <1>1, <1>4, <1>5, <1>6

-----------------------------------------------------------------------------
Orderly == patient /\ BondNum <= listSize /\ rejects = 0

BondInv == ListInv /\ (Orderly => IsFiniteSet(bonded) /\ Kept(mgr, request, bonded))

LEMMA InitKept == Init => BondInv
<1> SUFFICES ASSUME Init PROVE IsFiniteSet(bonded) /\ Kept(mgr, request, bonded)
  BY InitListed DEF BondInv
<1>1. PICK n \in 0 .. BondNum : \E stored \in [0 .. n - 1 -> Devices] :
       /\ bonded = {stored[i] : i \in 0 .. n - 1}
       /\ mgr = [table |-> InitTable(n, stored), clear_pending |-> FALSE,
                 modify_pending |-> FALSE, idx |-> NoIndex,
                 state |-> IF n = 0 THEN "IDLE" ELSE "BUSY"]
  BY DEF Init
<1>2. PICK stored \in [0 .. n - 1 -> Devices] :
       /\ bonded = {stored[i] : i \in 0 .. n - 1}
       /\ mgr = [table |-> InitTable(n, stored), clear_pending |-> FALSE,
                 modify_pending |-> FALSE, idx |-> NoIndex,
                 state |-> IF n = 0 THEN "IDLE" ELSE "BUSY"]
  BY <1>1
<1>3. BondNum \in Nat /\ n \in Nat /\ n <= BondNum
  BY PrivacyAssumption DEF PrivacyAssumption, NoIndex
<1>4. \A i : i \in 0 .. n - 1 <=> i \in Slots /\ i < n
  BY <1>3 DEF Slots
<1>5. \A i \in Slots : mgr.table[i] = IF i < n THEN NewEntry(stored[i]) ELSE ZeroEntry
  BY <1>2 DEF InitTable
<1>6. \A i \in Slots : i < n => stored[i] # NoDevice
  BY <1>4, SlotFacts
<1>7. \A d : NewEntry(d).addr = d /\ NewEntry(d).state = "ADD_PENDING"
  BY DEF NewEntry
<1>8. bonded = Owned(mgr.table)
  BY <1>2, <1>4, <1>5, <1>6, <1>7, ZeroFacts DEF Owned
<1>9. IsFiniteSet(bonded)
  <2>1. 0 \in Int /\ n - 1 \in Int
    BY <1>3
  <2>2. IsFiniteSet(0 .. n - 1)
    BY <2>1, FS_Interval
  <2>3. stored \in Surjection(0 .. n - 1, bonded)
    BY <1>2 DEF Surjection
  <2> QED
    BY <2>2, <2>3, FS_Surjection
<1>10. request.cause \notin DropCauses /\ ~mgr.clear_pending
  BY <1>2 DEF Init, NoRequest, DropCauses
<1>11. \A i \in Slots : mgr.table[i].addr # NoDevice => mgr.table[i].state = "ADD_PENDING"
  BY <1>5, <1>7, ZeroFacts
<1> QED
  BY <1>8, <1>9, <1>10, <1>11 DEF Kept

LEMMA NextKept == BondInv /\ [Next]_vars => BondInv'
<1> SUFFICES ASSUME BondInv, [Next]_vars, Orderly'
             PROVE IsFiniteSet(bonded') /\ Kept(mgr', request', bonded')
  BY NextListed DEF BondInv
<1>0. Orderly /\ rejects' = 0
  <2>1. TypeOK
    BY DEF BondInv, ListInv, IInv
  <2>2. rejects' \in {rejects, rejects + 1}
    BY DEF Next, BondAdd, BondDelete, BondClear, HandleRsp, HandleDevState,
           HandleResolutionStatus, ControllerRuns, RadioActive, RadioIdle, Handle, vars
  <2>3. chosen' = chosen
    BY DEF Next, BondAdd, BondDelete, BondClear, BondChange, HandleRsp, HandleDevState,
           HandleResolutionStatus, ControllerRuns, RadioActive, RadioIdle, vars, stackVars
  <2>4. rejects' = 0 /\ rejects = 0
    BY <2>1, <2>2 DEF Orderly, TypeOK
  <2> QED
    BY <2>3, <2>4 DEF Orderly, chosen
<1>1. /\ TypeOK /\ Sound(mgr, request) /\ Listed(mgr, request, resolvList, whiteList)
      /\ IsFiniteSet(bonded) /\ Kept(mgr, request, bonded)
      /\ patient /\ BondNum <= listSize /\ bonded \in SUBSET Devices
  BY <1>0 DEF BondInv, ListInv, IInv, Orderly, TypeOK
<1>2. ASSUME NEW d \in Devices, BondAdd(d)
      PROVE IsFiniteSet(bonded') /\ Kept(mgr', request', bonded')
  <2>1. PICK m \in ModifyAdd(mgr, d) : Handle(m, request)
    BY <1>2 DEF BondAdd
  <2>2. /\ mgr.state = "IDLE" /\ d \notin bonded /\ Cardinality(bonded) < BondNum
        /\ bonded' = bonded \cup {d}
    BY <1>1, <1>2 DEF BondAdd, BondChange
  <2>3. Sound(m, request) /\ Kept(m, request, bonded')
    BY <1>1, <2>1, <2>2, AddSound, AddKept
  <2>4. IsFiniteSet(bonded')
    BY <1>1, <2>2, FS_AddElement
  <2> QED
    BY <1>0, <1>1, <2>1, <2>3, <2>4, HandleKept
<1>3. ASSUME NEW d \in Devices, BondDelete(d)
      PROVE IsFiniteSet(bonded') /\ Kept(mgr', request', bonded')
  <2>1. PICK m \in ModifyRemove(mgr, d) : Handle(m, request)
    BY <1>3 DEF BondDelete
  <2>2. mgr.state = "IDLE" /\ d \in bonded /\ bonded' = bonded \ {d}
    BY <1>1, <1>3 DEF BondDelete, BondChange
  <2>3. Sound(m, request) /\ Kept(m, request, bonded')
    BY <1>1, <2>1, <2>2, RemoveSound, RemoveKept
  <2>4. IsFiniteSet(bonded')
    BY <1>1, <2>2, FS_RemoveElement
  <2> QED
    BY <1>0, <1>1, <2>1, <2>3, <2>4, HandleKept
<1>4. ASSUME BondClear PROVE IsFiniteSet(bonded') /\ Kept(mgr', request', bonded')
  <2>1. PICK m \in ModifyClear(mgr) : Handle(m, request)
    BY <1>4 DEF BondClear
  <2>2. bonded' = {}
    BY <1>4 DEF BondClear
  <2>3. Sound(m, request) /\ Kept(m, request, bonded')
    BY <1>1, <2>1, <2>2, ClearSound, ClearKept
  <2> QED
    BY <1>0, <1>1, <2>1, <2>2, <2>3, HandleKept, FS_EmptySet
<1>5. ASSUME HandleRsp PROVE IsFiniteSet(bonded') /\ Kept(mgr', request', bonded')
  <2>1. request.op # "NONE" /\ bonded' = bonded
    BY <1>5 DEF HandleRsp, stackVars
  <2>2. CASE request.cause = "SUCCESS"
    <3>1. Handle(RspSucceeded(mgr, request.op), NoRequest)
      BY <1>5, <2>2 DEF HandleRsp
    <3>2. /\ Sound(RspSucceeded(mgr, request.op), NoRequest)
          /\ Kept(RspSucceeded(mgr, request.op), NoRequest, bonded)
      BY <1>1, <2>1, RspSucceededSound, RspSucceededKept
    <3> QED
      BY <1>0, <1>1, <2>1, <3>1, <3>2, HandleKept
  <2>3. CASE request.cause # "SUCCESS"
    <3>1. Kept(RspFailed(mgr, request.cause), NoRequest, bonded)
      BY <1>1, RspFailedKept
    <3> QED
      BY <1>1, <1>5, <2>1, <2>3, <3>1 DEF HandleRsp
  <2> QED
    BY <2>2, <2>3
<1>6. ASSUME HandleDevState PROVE IsFiniteSet(bonded') /\ Kept(mgr', request', bonded')
  BY <1>0, <1>1, <1>6, HandleKept DEF HandleDevState
<1>7. ASSUME ControllerRuns PROVE IsFiniteSet(bonded') /\ Kept(mgr', request', bonded')
  <2>1. /\ request \in Request /\ request.op # "NONE" /\ request.cause = "WAITING"
        /\ mgr' = mgr /\ bonded' = bonded
    BY <1>1, <1>7 DEF ControllerRuns, TypeOK, stackVars
  <2>2. ResultOf(request) = "SUCCESS"
    BY <1>1, <2>1, NothingToDrop
  <2>3. PICK c \in {"SUCCESS", "DISALLOWED"} : request' = [request EXCEPT !.cause = c]
    BY <1>7, <2>2 DEF ControllerRuns
  <2>4. request'.cause \notin DropCauses
    BY <2>1, <2>3 DEF Request, DropCauses
  <2> QED
    BY <1>1, <2>1, <2>4 DEF Kept
<1>8. CASE HandleResolutionStatus
  BY <1>1, <1>8 DEF HandleResolutionStatus
<1>9. CASE RadioActive
  BY <1>1, <1>9 DEF RadioActive
<1>10. CASE RadioIdle
  BY <1>1, <1>10 DEF RadioIdle
<1>11. CASE UNCHANGED vars
  BY <1>1, <1>11 DEF vars, stackVars
<1> QED
  BY <1>2, <1>3, <1>4, <1>5, <1>6, <1>7, <1>8, <1>9, <1>10, <1>11 DEF Next

(* While the manager is idle the resolving list holds the bonded devices   *)
(* and no other, if bonds change only while it is, the list has room for   *)
(* all of them and the stack refuses no request: no answer of the          *)
(* controller then makes privacy_handle_le_privacy_modify_resolv_list_rsp  *)
(* drop an entry.                                                          *)
THEOREM ListAlwaysFollowsBonds == Spec => []ListFollowsBonds
<1>1. Init => BondInv
  BY InitKept
<1>2. BondInv /\ [Next]_vars => BondInv'
  BY NextKept
<1>3. BondInv => ListFollowsBonds
  <2> SUFFICES ASSUME BondInv, Orderly, mgr.state = "IDLE" PROVE resolvList = bonded
    BY DEF ListFollowsBonds, BondedAreResolved, ResolvedAreBonded, Orderly
  <2>1. /\ Sound(mgr, request) /\ Listed(mgr, request, resolvList, whiteList)
        /\ Kept(mgr, request, bonded)
    BY DEF BondInv, ListInv, IInv, Orderly
  <2>2. /\ request.op = "NONE"
        /\ bonded = {mgr.table[i].addr : i \in {j \in Slots : mgr.table[j].addr # NoDevice}}
        /\ \A i \in Slots : mgr.table[i].addr # NoDevice <=> mgr.table[i].is_added = "ADDED"
    BY <2>1, IdleKept
  <2>3. resolvList = Added(mgr.table)
    BY <2>1, <2>2 DEF Listed, Expected
  <2> QED
    BY <2>2, <2>3 DEF Added
<1> QED
  BY <1>1, <1>2, <1>3, PTL DEF Spec
=============================================================================
