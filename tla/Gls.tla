--------------------------------- MODULE Gls ---------------------------------
(***************************************************************************)
(* The glucose service (gls.c): the client asks at the record access       *)
(* control point for records, their number or their deletion, and may      *)
(* abort; the application makes records, and continues a report whenever   *)
(* a packet has gone out.  Client, application and stack are external: the *)
(* client writes and hears, the stack carries one packet after the other,  *)
(* may refuse one, and loses the link.                                     *)
(***************************************************************************)
EXTENDS GlsRecords, Subsequence

CONSTANTS
  Operations,     \* the operations clients ask for
  Samples,        \* the measurements made: time, and whether a context follows
  MaxRecords,     \* bound: records made
  MaxRequests,    \* bound: requests of the client, aborts included
  Toggled,        \* the characteristics the client enables and disables
  MaxDisruptions, \* bound: packets refused, links lost, characteristics toggled
  Liberties       \* what the environment may do besides, see below

(* "overwrite": a record is pushed into a full database during a report.   *)
(* "undercut":  records are deleted between prepare and push.              *)
(* "late":      the client aborts when the answer is on its way already.   *)
(* "gap":       the client asks for a range that lies between two records. *)
(* "outside":   a deletion writes outside the array.                       *)
ASSUME GlsAssumption ==
  /\ Operations \subseteq {"REPORT_RECS", "DELETE_RECS", "REPORT_NBR_OF_RECS", "OTHER"}
  /\ Samples \subseteq [time : 0 .. MaxTime, ctxt : BOOLEAN]
  /\ MaxRecords \in 0 .. WordSize - 1
  /\ MaxRequests \in Nat /\ MaxDisruptions \in Nat
  /\ Toggled \subseteq {"measurement", "context", "racp"}
  /\ Liberties \subseteq {"overwrite", "undercut", "late", "gap", "outside"}

VARIABLES
  db,             \* glc_racp.record_db
  p_new_record,   \* the place of the record being prepared
  drafting,       \* the application has prepared a record and not pushed it
  racp,           \* the control point and the state of the report
  enabled,        \* the characteristics the client wants notified or indicated
  air,            \* packets the stack has taken and not yet sent
  asked,          \* what the client waits for: its request, and the abort
  due,            \* the records its request selected when it was accepted
  heard,          \* the records reported since
  requests, refusals, losses, changes

vars == <<db, p_new_record, drafting, racp, enabled, air, asked, due, heard,
          requests, refusals, losses, changes>>
clientVars == <<asked, due, heard>>

Characteristic == {"measurement", "context", "racp"}
OpCode == {"RESERVED", "REPORT_RECS", "DELETE_RECS", "ABORT_OPERATION", "REPORT_NBR_OF_RECS",
           "NBR_OF_RECS_RESP", "RESP_CODE", "OTHER"}

(* What a client writes, aborts apart.                                     *)
Operand(op_code, op) ==
  LET q(type, x, y, bare) ==
        [op_code |-> op_code, op |-> op, type |-> type, x |-> x, y |-> y, bare |-> bare]
  IN CASE op \in {"ALL_RECS", "FIRST", "LAST"} -> {q("RESERVED", 0, 0, b) : b \in BOOLEAN}
       [] op \in {"LT_EQ", "GT_EQ"} ->
            {q("SEQ_NBR", x, 0, FALSE) : x \in 0 .. MaxRecords}
              \cup {q("TIME", x, 0, FALSE) : x \in 0 .. MaxTime}
              \cup {q(t, 0, 0, FALSE) : t \in {"RESERVED", "OTHER"}}
       [] op = "RANGE" ->
            {q("SEQ_NBR", x, y, FALSE) : x, y \in 0 .. MaxRecords}
              \cup {q("TIME", x, y, FALSE) : x, y \in 0 .. MaxTime}
       [] OTHER -> {q("RESERVED", 0, 0, TRUE)}
Request ==
  UNION {Operand(c, o) : c \in Operations,
           o \in {"NULL", "ALL_RECS", "LT_EQ", "GT_EQ", "RANGE", "FIRST", "LAST", "OTHER"}}

Cleared == [op_code |-> "RESERVED", num |-> 0, current |-> 0, offset |-> 0,
            send_data_flag |-> 0, abort_flag |-> FALSE, abort_by_app_flag |-> FALSE]

Init ==
  /\ db = gls_add_service /\ p_new_record = 0 /\ drafting = FALSE
  /\ racp = Cleared
  /\ enabled \in {Characteristic \ Toggled, Characteristic}   \* as a bonded client left it
  /\ air = <<>>
  /\ asked = {} /\ due = <<>> /\ heard = <<>>
  /\ requests = 0 /\ refusals = 0 /\ losses = 0 /\ changes = 0

-----------------------------------------------------------------------------
(* Packets.  A step of the service gives the control point after it, what  *)
(* it handed to the stack (at most one packet), and whether it succeeded.  *)

None == [kind |-> "none"]
Response(c, code) == [kind |-> "response", op_code |-> c, code |-> code]
Number(n) == [kind |-> "number", num |-> n]
Measurement(k) == [kind |-> "measurement", record |-> k]
Context(k) == [kind |-> "context", record |-> k]

(* server_send_data takes a packet or refuses it.                          *)
Sent(r, packet) ==
  {[racp |-> r, packet |-> packet, ok |-> TRUE, refused |-> FALSE],
   [racp |-> r, packet |-> None, ok |-> FALSE, refused |-> TRUE]}
NotSent(r, ok) == {[racp |-> r, packet |-> None, ok |-> ok, refused |-> FALSE]}

gls_racp_response(r, code) ==
  Sent([r EXCEPT !.send_data_flag = 3, !.op_code = "RESP_CODE"], Response(r.op_code, code))
gls_racp_num_response(r, n) ==
  Sent([r EXCEPT !.send_data_flag = 3, !.op_code = "NBR_OF_RECS_RESP"], Number(n))
gls_abort_success_response(r) ==
  gls_racp_response([r EXCEPT !.op_code = "ABORT_OPERATION"], "SUCCESS")

(* A record of the database by its distance from the head.                 *)
Notify(r, index, flag, kind) ==
  LET s == [r EXCEPT !.send_data_flag = flag]
      current == (db.head + index) % SIZE
  IN IF index >= db.record_num \/ current = db.tail THEN NotSent(s, FALSE)
     ELSE Sent(s, [kind |-> kind, record |-> db.records[current]])

-----------------------------------------------------------------------------
(* The report, continued by the application when a packet has gone out.    *)

Reported(r) == db.records[(db.head + r.offset + r.current) % SIZE]
Stopped(r) == [r EXCEPT !.current = r.num, !.abort_by_app_flag = FALSE]

(* Mutant: the next record does not wait for the context of the last.      *)
ContinueAtOnce(r) ==
  LET s == IF r.send_data_flag \in {1, 2} THEN [r EXCEPT !.current = @ + 1] ELSE r
  IN IF s.current < s.num THEN Notify(s, s.offset + s.current, 1, "measurement")
     ELSE IF r.send_data_flag # 3 THEN gls_racp_response(s, "SUCCESS")
     ELSE NotSent(Cleared, TRUE)

(* The context follows its measurement, then comes the next record, then   *)
(* the response, and its end clears the control point.                     *)
Continue(r) ==
  IF r.send_data_flag = 1 /\ Reported(r).ctxt_info_follows
  THEN Notify([r EXCEPT !.current = @ + 1], r.offset + r.current, 2, "context")
  ELSE LET s == IF r.send_data_flag = 1 THEN [r EXCEPT !.current = @ + 1] ELSE r
       IN IF s.current < s.num THEN Notify(s, s.offset + s.current, 1, "measurement")
          ELSE IF r.send_data_flag # 3 THEN gls_racp_response(s, "SUCCESS")
          ELSE NotSent(Cleared, TRUE)

(* Mutant: the abort flag stays.                                           *)
gls_report_records_task_abort_stays(r) ==
  IF r.abort_flag THEN gls_abort_success_response(Stopped(r))
  ELSE IF r.abort_by_app_flag THEN gls_racp_response(Stopped(r), "PROC_NOT_COMPLETED")
  ELSE Continue(r)

(* An abort of the client comes before one of the application.             *)
gls_report_records_task(r) ==
  IF r.abort_flag THEN gls_abort_success_response([Stopped(r) EXCEPT !.abort_flag = FALSE])
  ELSE IF r.abort_by_app_flag THEN gls_racp_response(Stopped(r), "PROC_NOT_COMPLETED")
  ELSE Continue(r)

OrClear(outcomes) == {IF o.ok THEN o ELSE [o EXCEPT !.racp = Cleared] : o \in outcomes}

gls_report_records(r, q) ==
  LET f == gls_find_records(db, q)
  IN IF gls_racp_check(q) # "SUCCESS" THEN gls_racp_response(r, gls_racp_check(q))
     ELSE IF f.num = 0 THEN gls_racp_response(r, "NO_RECS_FOUND")
     ELSE OrClear(gls_report_records_task(
            [r EXCEPT !.offset = (f.find1 - db.head + SIZE) % SIZE, !.num = f.num, !.current = 0]))

gls_report_num_of_records(r, q) ==
  IF gls_racp_check(q) # "SUCCESS" THEN gls_racp_response(r, gls_racp_check(q))
  ELSE gls_racp_num_response(r, gls_find_records(db, q).num)

(* The database after a request, and the result of a deletion.             *)
Deletes(q) ==
  q.op_code = "DELETE_RECS" /\ gls_racp_check(q) = "SUCCESS" /\ gls_find_records(db, q).num > 0
DatabaseAfter(q) ==
  IF Deletes(q) THEN DeleteFound(db, q.op, gls_find_records(db, q)) ELSE db
Outside(q) == Deletes(q) /\ q.op = "RANGE" /\ WritesOutside(db, gls_find_records(db, q))

(* A write outside the array goes over the control point, whose operation  *)
(* code the response repeats.                                              *)
gls_delete_records(r, q) ==
  LET code == IF gls_racp_check(q) # "SUCCESS" THEN gls_racp_check(q)
              ELSE IF Deletes(q) THEN "SUCCESS" ELSE "NO_RECS_FOUND"
  IN UNION {gls_racp_response([r EXCEPT !.op_code = c], code) :
              c \in IF Outside(q) THEN OpCode ELSE {r.op_code}}

-----------------------------------------------------------------------------
(* The client's view.                                                      *)

(* The records that the packets of D report.                               *)
RecordsOf(D) ==
  LET m == At(D, {k \in DOMAIN D : D[k].kind = "measurement"}) IN [i \in DOMAIN m |-> m[i].record]
Store == INSTANCE RecordStore WITH
  Capacity <- SIZE - 1, NoRecord <- ZeroRecord, Filter <- Request,
  store <- Stored(db), draft <- IF drafting THEN db.records[p_new_record] ELSE ZeroRecord,
  cut <- IF "DELETE_RECS" \in asked THEN RecordsOf(due) ELSE <<>>

(* The packets that report a record, and those that report what q selects. *)
PacketsOf(k) ==
  IF k.ctxt_info_follows THEN <<Measurement(k), Context(k)>> ELSE <<Measurement(k)>>
Packets(q) ==
  LET s == Stored(db)
      report[i \in 0 .. Len(s)] ==
        IF i = 0 THEN <<>>
        ELSE IF i \notin Store!Selected(q, s) THEN report[i - 1]
        ELSE report[i - 1] \o PacketsOf(s[i])
  IN IF gls_racp_check(q) = "SUCCESS" THEN report[Len(s)] ELSE <<>>

(* The range lies between two records that follow each other.              *)
Gap(q) ==
  /\ q.op = "RANGE" /\ gls_racp_check(q) = "SUCCESS"
  /\ \E i \in 1 .. db.record_num - 1 :
       Store!Key(Stored(db)[i], q.type) < q.x /\ q.y < Store!Key(Stored(db)[i + 1], q.type)

Allowed(liberty, case) == case => liberty \in Liberties

-----------------------------------------------------------------------------
(* Steps.                                                                  *)

Disruptions == refusals + losses + changes
Hand(o) ==
  /\ racp' = o.racp
  /\ o.refused => Disruptions < MaxDisruptions
  /\ refusals' = refusals + (IF o.refused THEN 1 ELSE 0)

Handled(q) ==
  LET r == [racp EXCEPT !.op_code = q.op_code]
  IN CASE q.op_code = "REPORT_RECS" -> gls_report_records(r, q)
       [] q.op_code = "REPORT_NBR_OF_RECS" -> gls_report_num_of_records(r, q)
       [] q.op_code = "DELETE_RECS" -> gls_delete_records(r, q)
       [] OTHER -> gls_racp_response(r, "OPCODE_NOT_SUPPORTED")

(* Mutant: a request is taken while another one is answered.               *)
FreeWhileAnswering == racp.op_code \in {"RESERVED", "RESP_CODE", "NBR_OF_RECS_RESP"}
(* gls_attr_write_cb turns requests down while one is served, and as long  *)
(* as the client has not enabled all three characteristics.                *)
Free == racp.op_code = "RESERVED"

WriteRequest(q) ==
  /\ requests < MaxRequests /\ requests' = requests + 1
  /\ Free /\ enabled = Characteristic
  /\ Allowed("gap", Gap(q)) /\ Allowed("outside", Outside(q))
  /\ Allowed("undercut", drafting /\ DatabaseAfter(q).tail # db.tail)
  /\ \E o \in Handled(q) :
       /\ Hand(o)
       /\ air' = IF o.packet = None THEN air ELSE Append(air, o.packet)
  /\ db' = DatabaseAfter(q)
  /\ asked' = {q.op_code} /\ due' = Packets(q) /\ heard' = <<>>
  /\ UNCHANGED <<p_new_record, drafting, enabled, losses, changes>>

(* Mutant: an idle control point counts as well.                           *)
UnderWayOrIdle == racp.send_data_flag # 3
(* A procedure is under way whose answer is not yet sent.                  *)
UnderWay == racp.op_code # "RESERVED" /\ racp.send_data_flag # 3

Answering == \E i \in DOMAIN air : air[i].kind \in {"response", "number"}
WriteAbort ==
  /\ requests < MaxRequests /\ requests' = requests + 1
  /\ enabled = Characteristic
  /\ Allowed("late", Answering)
  /\ IF UnderWay
     THEN /\ racp' = [racp EXCEPT !.abort_flag = TRUE]
          /\ UNCHANGED <<air, refusals>>
     ELSE \E o \in gls_abort_success_response(racp) :
            /\ Hand(o)
            /\ air' = IF o.packet = None THEN air ELSE Append(air, o.packet)
  /\ asked' = asked \cup {"ABORT_OPERATION"}
  /\ UNCHANGED <<db, p_new_record, drafting, enabled, due, heard, losses, changes>>

gls_cccd_update_cb(c) ==
  /\ Disruptions < MaxDisruptions /\ changes' = changes + 1
  /\ enabled' = IF c \in enabled THEN enabled \ {c} ELSE enabled \cup {c}
  /\ UNCHANGED <<db, p_new_record, drafting, racp, air, clientVars, requests, refusals, losses>>

(* The application.                                                        *)
Prepare(sample) ==
  /\ ~drafting /\ db.seq_num < MaxRecords
  /\ \A i \in DOMAIN Stored(db) : Stored(db)[i].base_time <= sample.time
  /\ db' = gls_prepare_new_record(db, sample.time, sample.ctxt)
  /\ p_new_record' = db.tail /\ drafting' = TRUE
  /\ UNCHANGED <<racp, enabled, air, clientVars, requests, refusals, losses, changes>>
Push ==
  /\ drafting
  /\ Allowed("overwrite", Full(db) /\ racp.current < racp.num)
  /\ db' = gls_push_new_record(db) /\ drafting' = FALSE
  /\ UNCHANGED <<p_new_record, racp, enabled, air, clientVars, requests, refusals, losses, changes>>
gls_abort_racp_procedure ==
  /\ UnderWay
  /\ racp' = [racp EXCEPT !.abort_by_app_flag = TRUE]
  /\ UNCHANGED <<db, p_new_record, drafting, enabled, air, clientVars, requests, refusals, losses, changes>>

(* The client hears a packet; the application, told that it has gone out,  *)
(* continues, and clears a control point that cannot.                      *)
AskedAfter(packet) ==
  CASE packet.kind = "number" -> asked \ {"REPORT_NBR_OF_RECS"}
    [] packet.kind = "response" ->
         IF packet.op_code = "ABORT_OPERATION" THEN {} ELSE asked \ {packet.op_code}
    [] OTHER -> asked
SendComplete ==
  /\ air # <<>>
  /\ asked' = AskedAfter(Head(air))
  /\ IF asked' = {} THEN heard' = <<>> /\ due' = <<>>
     ELSE /\ heard' = IF Head(air).kind \in {"measurement", "context"}
                      THEN Append(heard, Head(air)) ELSE heard
          /\ UNCHANGED due
  /\ \E o \in OrClear(gls_report_records_task(racp)) :
       /\ Hand(o)
       /\ air' = IF o.packet = None THEN Tail(air) ELSE Append(Tail(air), o.packet)
  /\ UNCHANGED <<db, p_new_record, drafting, enabled, requests, losses, changes>>

(* The link is lost; the application clears the control point.             *)
LinkLost ==
  /\ Disruptions < MaxDisruptions /\ losses' = losses + 1
  /\ air' = <<>> /\ racp' = Cleared
  /\ asked' = {} /\ due' = <<>> /\ heard' = <<>>
  /\ UNCHANGED <<db, p_new_record, drafting, enabled, requests, refusals, changes>>

Next ==
  \/ \E q \in Request : WriteRequest(q)
  \/ WriteAbort
  \/ \E c \in Toggled : gls_cccd_update_cb(c)
  \/ \E sample \in Samples : Prepare(sample)
  \/ Push \/ gls_abort_racp_procedure
  \/ SendComplete \/ LinkLost

Spec == Init /\ [][Next]_vars
(* The stack sends what it has taken and reports it.                       *)
FairSpec == Spec /\ WF_vars(SendComplete)

-----------------------------------------------------------------------------
(* The types.                                                              *)
TypeOK ==
  /\ db \in Database /\ p_new_record \in Position /\ drafting \in BOOLEAN
  /\ racp \in [op_code : OpCode, num : 0 .. 255, current : 0 .. 255, offset : Position,
               send_data_flag : 0 .. 3, abort_flag : BOOLEAN, abort_by_app_flag : BOOLEAN]
  /\ enabled \subseteq Characteristic /\ asked \subseteq OpCode
  /\ requests \in 0 .. MaxRequests /\ refusals \in 0 .. MaxDisruptions
  /\ losses \in 0 .. MaxDisruptions /\ changes \in 0 .. MaxDisruptions

(* The number of records is what lies between head and tail, and the guard *)
(* place is free, also when the ring wraps around.                         *)
CountFollowsRing == db.record_num = Used(db)

(* What the client hears is what its request selected when it was          *)
(* accepted: the records, in order and with the contexts, none left out of *)
(* a report that succeeds, or their number.                                *)
ReportsWhatIsDue ==
  /\ Len(heard) <= Len(due)
  /\ \A i \in DOMAIN heard : heard[i] = due[i]
  /\ \A i \in DOMAIN air :
       /\ air[i].kind = "response" /\ air[i].op_code = "REPORT_RECS" /\ air[i].code = "SUCCESS"
            => heard = due
       /\ air[i].kind = "number" =>
            air[i].num = Cardinality({k \in DOMAIN due : due[k].kind = "measurement"})

(* A response answers something the client waits for.                      *)
ResponsesAreAsked ==
  \A i \in DOMAIN air :
    /\ air[i].kind = "number" => "REPORT_NBR_OF_RECS" \in asked
    /\ air[i].kind = "response" => air[i].op_code \in asked

(* As long as the stack has refused nothing, the control point is busy     *)
(* exactly while one packet is under way, whose end will free it.          *)
BusyMeansSending ==
  refusals = 0 => Len(air) <= 1 /\ (racp.op_code # "RESERVED" <=> air # <<>>)

(* The service implements the store of records.                            *)
ImplementsStore == Store!Spec

(* As long as the stack refuses nothing, every request and every abort is  *)
(* answered.                                                               *)
RequestsAnswered == asked # {} ~> asked = {} \/ refusals > 0
=============================================================================
