-------------------------------- MODULE Privacy --------------------------------
(***************************************************************************)
(* The BLE privacy manager, src/ble/privacy/privacy_mgnt.c, driven the way *)
(* the sample src/sample/ble_peripheral_privacy drives it.                 *)
(*                                                                         *)
(* The manager keeps the resolving list and the white list of the          *)
(* controller in step with the bonded devices.  One request to the         *)
(* controller is under way at a time; what waits is marked in a table.     *)
(* Requests are sent only while the device neither advertises nor is       *)
(* connected, or while address resolution is off.                          *)
(*                                                                         *)
(* The key store, the controller and the state of the radio belong to the  *)
(* stack, which is not under src/: they are modelled from how this code    *)
(* uses them.  A bond is a device with an identity address.                *)
(***************************************************************************)
EXTENDS Integers, FiniteSets

CONSTANTS
  Devices,        \* identity addresses
  NoDevice,       \* the address of an entry that is not used
  BondNum,        \* le_get_max_le_paired_device_num()
  ListSizes,      \* how many entries a controller's resolving list may have
  MaxBondChanges, \* bound: bonds added, deleted or cleared
  MaxRejects,     \* bound: calls of the manager in which the stack refuses a request
  MaxFailures     \* bound: requests that the controller does not carry out for now

NoIndex == 255
Slots == 0 .. BondNum - 1

ASSUME PrivacyAssumption ==
  /\ NoDevice \notin Devices
  /\ BondNum \in 1 .. NoIndex /\ ListSizes \subseteq Nat
  /\ MaxBondChanges \in Nat /\ MaxRejects \in Nat /\ MaxFailures \in Nat

VARIABLES
  mgr,                       \* the static variables of the manager: Manager
  privacy_resolution_status,
  bonded,                    \* the devices of the key store
  resolvList, whiteList,     \* the controller's lists
  request,                   \* the request under way, or NoRequest
  radio,                     \* GAP device state: "idle", or "active": advertising or connected
  idleEvent,                 \* the event of the device state becoming idle is not handled yet
  patient,                   \* bonds change only while the manager reports PRIVACY_STATE_IDLE
  listSize,                  \* entries of the resolving list
  bondChanges, rejects, failures   \* the bounded counters

chosen == <<patient, listSize>>    \* never change
stackVars == <<bonded, radio, idleEvent, privacy_resolution_status, chosen>>
vars == <<mgr, resolvList, whiteList, request, stackVars, bondChanges, rejects, failures>>

Entry == [addr : Devices \cup {NoDevice},
          is_added : {"IDLE", "ADDED_PENDING", "ADDED"},
          state : {"IDLE", "ADD_PENDING", "REMOVE_PENDING"}]
Manager == [table : [Slots -> Entry],                \* privacy_table
            clear_pending : BOOLEAN,
            modify_pending : BOOLEAN,                \* privacy_modify_resolv_list_pending
            idx : Slots \cup {NoIndex},              \* privacy_modify_resolv_list_idx
            state : {"IDLE", "BUSY"}]                \* privacy_state

ZeroEntry == [addr |-> NoDevice, is_added |-> "IDLE", state |-> "IDLE"]
NewEntry(d) == [addr |-> d, is_added |-> "IDLE", state |-> "ADD_PENDING"]

(* The causes of a response after which the manager drops the entry.       *)
DropCauses == {"UNKNOWN_CONN_ID", "MEMORY_FULL", "INVALID_PARAM"}
Request == [op : {"NONE", "ADD", "REMOVE", "CLEAR"}, addr : Devices \cup {NoDevice},
            cause : {"WAITING", "SUCCESS", "DISALLOWED"} \cup DropCauses]
NoRequest == [op |-> "NONE", addr |-> NoDevice, cause |-> "WAITING"]
Ask(op, d) == [op |-> op, addr |-> d, cause |-> "WAITING"]

(* The least element of a set of slots, as a set.                          *)
First(S) == {i \in S : \A j \in S : i <= j}

EntriesOf(t, d) == {i \in Slots : t[i].addr = d}
Pending(t) == {i \in Slots : t[i].addr # NoDevice /\ t[i].state # "IDLE"}

-----------------------------------------------------------------------------
(* privacy_modify_resolving_list: the three operations, each a set of the  *)
(* values of mgr it may lead to.                                           *)

ModifyClear(m) == {[m EXCEPT !.clear_pending = TRUE, !.state = "BUSY"]}

(* Mutant: PRIVACY_STATE_BUSY is not reported for a new entry.             *)
AddedSilently(m, d) ==
  IF EntriesOf(m.table, d) # {} \/ EntriesOf(m.table, NoDevice) = {} THEN {m}
  ELSE {[m EXCEPT !.table[i] = NewEntry(d)] : i \in First(EntriesOf(m.table, NoDevice))}

(* Mutant: the table is not searched for the device first.                 *)
AddedTwice(m, d) ==
  IF EntriesOf(m.table, NoDevice) = {} THEN {m}
  ELSE {[m EXCEPT !.table[i] = NewEntry(d), !.state = "BUSY"]
          : i \in First(EntriesOf(m.table, NoDevice))}

(* A device that has an entry already, or finds none free, is not added.   *)
ModifyAdd(m, d) ==
  IF EntriesOf(m.table, d) # {} \/ EntriesOf(m.table, NoDevice) = {} THEN {m}
  ELSE {[m EXCEPT !.table[i] = NewEntry(d), !.state = "BUSY"]
          : i \in First(EntriesOf(m.table, NoDevice))}

(* Mutant: the entry is dropped without a look at is_added.                *)
RemovedAtOnce(m, d) ==
  IF EntriesOf(m.table, d) = {} THEN {m}
  ELSE {[m EXCEPT !.table[i] = ZeroEntry] : i \in First(EntriesOf(m.table, d))}

ModifyRemove(m, d) ==
  IF EntriesOf(m.table, d) = {} THEN {m}
  ELSE {IF m.table[i].is_added # "IDLE"
          THEN [m EXCEPT !.table[i].state = "REMOVE_PENDING", !.state = "BUSY"]
          ELSE [m EXCEPT !.table[i] = ZeroEntry]
          : i \in First(EntriesOf(m.table, d))}

-----------------------------------------------------------------------------
(* privacy_handle_resolv_list: what it makes of the manager m, a set of    *)
(* records [mgr, asks, rejected] with the requests it sends.               *)

Outcome(m, asks, rejected) == [mgr |-> m, asks |-> asks, rejected |-> rejected]

SendClear(m) ==
  Outcome([m EXCEPT !.modify_pending = TRUE, !.state = "BUSY"], {Ask("CLEAR", NoDevice)}, FALSE)

(* Mutant: the index of the entry after the one sent is kept.              *)
SentWithNextIndex(m, i, rejected) ==
  LET sent == [m EXCEPT !.modify_pending = TRUE, !.idx = i + 1, !.state = "BUSY"]
  IN IF m.table[i].state = "ADD_PENDING"
       THEN Outcome([sent EXCEPT !.table[i].is_added = "ADDED_PENDING"],
                    {Ask("ADD", m.table[i].addr)}, rejected)
       ELSE Outcome(sent, {Ask("REMOVE", m.table[i].addr)}, rejected)

SendEntry(m, i, rejected) ==
  LET sent == [m EXCEPT !.modify_pending = TRUE, !.idx = i, !.state = "BUSY"]
  IN IF m.table[i].state = "ADD_PENDING"
       THEN Outcome([sent EXCEPT !.table[i].is_added = "ADDED_PENDING"],
                    {Ask("ADD", m.table[i].addr)}, rejected)
       ELSE Outcome(sent, {Ask("REMOVE", m.table[i].addr)}, rejected)

Refused(m) == Outcome([m EXCEPT !.state = "BUSY"], {}, TRUE)

(* The stack may refuse a request: for an invalid state, which leaves all  *)
(* as it is, or else the entry is dropped and the next one is tried.       *)
Dropped(m, D) == [m EXCEPT !.table = [i \in Slots |-> IF i \in D THEN ZeroEntry ELSE m.table[i]]]
DropSets(t) == {D \in SUBSET Pending(t) : \A i \in D, j \in Pending(t) : j < i => j \in D}

SendNext(m, rejected, mayReject) ==
  IF Pending(m.table) = {} THEN {Outcome([m EXCEPT !.state = "IDLE"], {}, rejected)}
  ELSE {SendEntry(m, i, rejected) : i \in First(Pending(m.table))}
         \cup (IF mayReject THEN {Refused(m)} ELSE {})

privacy_handle_resolv_list_int(m, mayReject) ==
  IF m.modify_pending THEN {Outcome([m EXCEPT !.state = "BUSY"], {}, FALSE)}
  ELSE IF m.clear_pending THEN {SendClear(m)} \cup (IF mayReject THEN {Refused(m)} ELSE {})
  ELSE UNION {SendNext(Dropped(m, D), D # {}, mayReject)
                : D \in IF mayReject THEN DropSets(m.table) ELSE {{}}}

privacy_handle_resolv_list(m) ==
  IF privacy_resolution_status = "DISABLED" \/ radio = "idle"
    THEN privacy_handle_resolv_list_int(m, rejects < MaxRejects)
    ELSE {Outcome(m, {}, FALSE)}

(* The white list is changed along with each request.                      *)
WhiteListAfter(asks) ==
  IF \E q \in asks : q.op = "CLEAR" THEN {}
  ELSE (whiteList \cup {q.addr : q \in {p \in asks : p.op = "ADD"}})
         \ {q.addr : q \in {p \in asks : p.op = "REMOVE"}}

Handle(m, current) ==
  \E o \in privacy_handle_resolv_list(m) :
    /\ mgr' = o.mgr
    /\ IF o.asks = {} THEN request' = current ELSE request' \in o.asks
    /\ whiteList' = WhiteListAfter(o.asks)
    /\ rejects' = IF o.rejected THEN rejects + 1 ELSE rejects

-----------------------------------------------------------------------------
(* privacy_handle_bond_modify_msg, with the change of the key store that   *)
(* it reports.                                                             *)

BondChange ==
  /\ patient => mgr.state = "IDLE"
  /\ bondChanges < MaxBondChanges /\ bondChanges' = bondChanges + 1
  /\ UNCHANGED <<resolvList, radio, idleEvent, privacy_resolution_status, chosen, failures>>

(* A device bonds while it is connected.                                   *)
BondAdd(d) ==
  /\ BondChange
  /\ radio = "active"
  /\ d \notin bonded /\ Cardinality(bonded) < BondNum
  /\ bonded' = bonded \cup {d}
  /\ \E m \in ModifyAdd(mgr, d) : Handle(m, request)

BondDelete(d) ==
  /\ BondChange
  /\ d \in bonded
  /\ bonded' = bonded \ {d}
  /\ \E m \in ModifyRemove(mgr, d) : Handle(m, request)

BondClear ==
  /\ BondChange
  /\ bonded' = {}
  /\ \E m \in ModifyClear(mgr) : Handle(m, request)

-----------------------------------------------------------------------------
(* privacy_handle_le_privacy_modify_resolv_list_rsp: a failure drops the   *)
(* entry or leaves it for later; only a success goes on to the next.       *)

(* Mutant: privacy_modify_resolv_list_pending stays set after a failure.   *)
FailedStillPending(m, cause) ==
  [m EXCEPT !.idx = NoIndex,
            !.table = IF cause \in DropCauses
                        THEN [i \in Slots |-> IF i = m.idx THEN ZeroEntry ELSE m.table[i]]
                        ELSE m.table]

(* Mutant: every failure drops the entry.                                  *)
FailedAlwaysDrops(m, cause) ==
  [m EXCEPT !.modify_pending = FALSE, !.idx = NoIndex,
            !.table = [i \in Slots |-> IF i = m.idx THEN ZeroEntry ELSE m.table[i]]]

RspFailed(m, cause) ==
  [m EXCEPT !.modify_pending = FALSE, !.idx = NoIndex,
            !.table = IF cause \in DropCauses
                        THEN [i \in Slots |-> IF i = m.idx THEN ZeroEntry ELSE m.table[i]]
                        ELSE m.table]

(* Mutant: the table is left as it is after the list was cleared.          *)
ClearedKeepsTable(m) == [m EXCEPT !.modify_pending = FALSE, !.clear_pending = FALSE]

RspCleared(m) ==
  [m EXCEPT !.modify_pending = FALSE, !.clear_pending = FALSE,
            !.table = [i \in Slots |-> ZeroEntry]]

(* Mutant: an entry that was added stays pending.                          *)
ChangedStaysPending(m, op) ==
  [m EXCEPT !.modify_pending = FALSE, !.idx = NoIndex,
            !.table = [i \in Slots |->
                         IF i # m.idx THEN m.table[i]
                         ELSE IF op = "REMOVE" THEN ZeroEntry
                         ELSE [m.table[i] EXCEPT !.is_added = "ADDED"]]]

(* The entry becomes what the response says, even if its device was        *)
(* unbonded in the meantime.                                               *)
RspChanged(m, op) ==
  [m EXCEPT !.modify_pending = FALSE, !.idx = NoIndex,
            !.table = [i \in Slots |->
                         IF i # m.idx THEN m.table[i]
                         ELSE IF op = "REMOVE" THEN ZeroEntry
                         ELSE [m.table[i] EXCEPT !.is_added = "ADDED", !.state = "IDLE"]]]

RspSucceeded(m, op) == IF op = "CLEAR" THEN RspCleared(m) ELSE RspChanged(m, op)

HandleRsp ==
  /\ request.op # "NONE" /\ request.cause # "WAITING"
  /\ IF request.cause = "SUCCESS"
       THEN Handle(RspSucceeded(mgr, request.op), NoRequest)
       ELSE /\ mgr' = RspFailed(mgr, request.cause) /\ request' = NoRequest
            /\ UNCHANGED <<whiteList, rejects>>
  /\ UNCHANGED <<resolvList, stackVars, bondChanges, failures>>

-----------------------------------------------------------------------------
(* app_handle_dev_state_evt, for the event of an idle device.              *)
HandleDevState ==
  /\ idleEvent /\ idleEvent' = FALSE
  /\ Handle(mgr, request)
  /\ UNCHANGED <<resolvList, bonded, radio, privacy_resolution_status, chosen, bondChanges, failures>>

(* privacy_handle_le_privacy_resolution_status_info                        *)
NextStatus(s) ==
  CASE s = "DISABLED"  -> {"ENABLING"}
    [] s = "ENABLING"  -> {"ENABLED", "DISABLED"}
    [] s = "ENABLED"   -> {"DISABLING"}
    [] s = "DISABLING" -> {"DISABLED", "ENABLED"}

HandleResolutionStatus ==
  /\ privacy_resolution_status' \in NextStatus(privacy_resolution_status)
  /\ UNCHANGED <<mgr, resolvList, whiteList, request, bonded, radio, idleEvent,
                 chosen, bondChanges, rejects, failures>>

-----------------------------------------------------------------------------
(* The controller and the radio (external).                                *)

ResultOf(q) ==
  CASE q.op = "ADD" -> IF q.addr \in resolvList THEN "INVALID_PARAM"
                       ELSE IF Cardinality(resolvList) >= listSize THEN "MEMORY_FULL"
                       ELSE "SUCCESS"
    [] q.op = "REMOVE" -> IF q.addr \in resolvList THEN "SUCCESS" ELSE "UNKNOWN_CONN_ID"
    [] OTHER -> "SUCCESS"

ListAfter(q) ==
  CASE q.op = "ADD" -> resolvList \cup {q.addr}
    [] q.op = "REMOVE" -> resolvList \ {q.addr}
    [] OTHER -> {}

(* The request is carried out, or not allowed in the controller's state.   *)
ControllerRuns ==
  /\ request.op # "NONE" /\ request.cause = "WAITING"
  /\ \/ /\ request' = [request EXCEPT !.cause = ResultOf(request)]
        /\ resolvList' = IF ResultOf(request) = "SUCCESS" THEN ListAfter(request) ELSE resolvList
        /\ UNCHANGED failures
     \/ /\ failures < MaxFailures /\ failures' = failures + 1
        /\ request' = [request EXCEPT !.cause = "DISALLOWED"]
        /\ UNCHANGED resolvList
  /\ UNCHANGED <<mgr, whiteList, stackVars, bondChanges, rejects>>

(* The application advertises once it has handled that the device is idle. *)
RadioActive ==
  /\ radio = "idle" /\ ~idleEvent /\ radio' = "active"
  /\ UNCHANGED <<mgr, resolvList, whiteList, request, bonded, idleEvent,
                 privacy_resolution_status, chosen, bondChanges, rejects, failures>>

RadioIdle ==
  /\ radio = "active" /\ radio' = "idle" /\ idleEvent' = TRUE
  /\ UNCHANGED <<mgr, resolvList, whiteList, request, bonded,
                 privacy_resolution_status, chosen, bondChanges, rejects, failures>>

-----------------------------------------------------------------------------
(* privacy_init: the stored bonds get the first entries, in their order.   *)
InitTable(n, stored) ==
  [i \in Slots |-> IF i < n THEN NewEntry(stored[i]) ELSE ZeroEntry]

Init ==
  /\ \E n \in 0 .. BondNum : \E stored \in [0 .. n - 1 -> Devices] :
       /\ \A i, j \in 0 .. n - 1 : stored[i] = stored[j] => i = j
       /\ bonded = {stored[i] : i \in 0 .. n - 1}
       /\ mgr = [table |-> InitTable(n, stored), clear_pending |-> FALSE,
                 modify_pending |-> FALSE, idx |-> NoIndex,
                 state |-> IF n = 0 THEN "IDLE" ELSE "BUSY"]
  /\ privacy_resolution_status = "DISABLED"
  /\ resolvList = {} /\ whiteList = {} /\ request = NoRequest
  /\ radio = "idle" /\ idleEvent = TRUE
  /\ patient \in BOOLEAN /\ listSize \in ListSizes
  /\ bondChanges = 0 /\ rejects = 0 /\ failures = 0

Next ==
  \/ \E d \in Devices : BondAdd(d) \/ BondDelete(d)
  \/ BondClear
  \/ HandleRsp \/ HandleDevState \/ HandleResolutionStatus
  \/ ControllerRuns \/ RadioActive \/ RadioIdle

Spec == Init /\ [][Next]_vars

(* The application handles its events and the controller answers.          *)
Fairness == WF_vars(HandleRsp) /\ WF_vars(HandleDevState) /\ WF_vars(ControllerRuns)

FairSpec == Spec /\ Fairness

-----------------------------------------------------------------------------
(* Properties.                                                             *)

(* Every variable holds a value of its kind.                               *)
TypeOK ==
  /\ mgr \in Manager
  /\ privacy_resolution_status \in {"DISABLED", "ENABLING", "ENABLED", "DISABLING"}
  /\ bonded \subseteq Devices /\ resolvList \subseteq Devices /\ whiteList \subseteq Devices
  /\ request \in Request
  /\ radio \in {"idle", "active"} /\ idleEvent \in BOOLEAN
  /\ patient \in BOOLEAN /\ listSize \in ListSizes
  /\ bondChanges \in 0 .. MaxBondChanges /\ rejects \in 0 .. MaxRejects
  /\ failures \in 0 .. MaxFailures

(* A response finds the entry that its request was sent for, whatever      *)
(* happened to the bonds in between: privacy_modify_resolv_list_idx is     *)
(* never stale, and never out of the table when an entry is dropped.       *)
RequestTracked ==
  /\ mgr.modify_pending <=> request.op # "NONE"
  /\ request.op \in {"ADD", "REMOVE"} =>
       /\ mgr.idx \in Slots
       /\ mgr.table[mgr.idx].addr = request.addr
       /\ mgr.table[mgr.idx].is_added # "IDLE"
  /\ request.op = "CLEAR" => mgr.clear_pending /\ request.cause \notin DropCauses

(* privacy_state is PRIVACY_STATE_IDLE only when no modification of the    *)
(* resolving list waits or is under way (T_PRIVACY_STATE).                 *)
IdleNothingPending ==
  mgr.state = "IDLE" =>
    ~mgr.clear_pending /\ ~mgr.modify_pending /\ \A i \in Slots : mgr.table[i].state = "IDLE"

(* No device has two entries of the table (privacy_modify_resolving_list). *)
OneEntryEach ==
  \A i, j \in Slots : mgr.table[i].addr = mgr.table[j].addr /\ mgr.table[i].addr # NoDevice
                        => i = j

(* Between requests the resolving list holds exactly the devices that the  *)
(* table says were added (is_added), after any order of answers and of     *)
(* requests not carried out, as long as the stack refuses none: a removal  *)
(* that it refuses drops the entry and leaves the device on the list.      *)
ListFollowsTable ==
  rejects = 0 /\ request.op = "NONE" =>
    resolvList = {mgr.table[i].addr : i \in {j \in Slots : mgr.table[j].is_added = "ADDED"}}

(* While nothing is pending every device that the controller resolves is   *)
(* on its white list, so that it may connect.                              *)
WhiteListCovers == rejects = 0 /\ mgr.state = "IDLE" => resolvList \subseteq whiteList

(* While nothing is pending the resolving list has every bonded device,    *)
(* and no other one.                                                       *)
BondedAreResolved == mgr.state = "IDLE" => bonded \subseteq resolvList
ResolvedAreBonded == mgr.state = "IDLE" => resolvList \subseteq bonded

(* Both hold if bonds change only while nothing is pending, the list has   *)
(* room for all of them and the stack refuses no request.                  *)
ListFollowsBonds ==
  patient /\ BondNum <= listSize /\ rejects = 0 => BondedAreResolved /\ ResolvedAreBonded

(* If the device becomes idle again and again, all that is pending gets    *)
(* done, after requests that were refused or not carried out as well.      *)
PendingDone == []<>idleEvent => (mgr.state = "BUSY" ~> mgr.state = "IDLE")
=============================================================================
