------------------------------ MODULE GlsRecords ------------------------------
(***************************************************************************)
(* The record database of the glucose service (gls.c): a ring of records   *)
(* with one free place as a guard, the search by sequence number and time, *)
(* and the deletion.  A database is a record; operators return the one     *)
(* after a step of the code.  Timestamps are numbers in their order.       *)
(***************************************************************************)
EXTENDS Integers, Sequences, FiniteSets

CONSTANTS
  GLC_RACP_DATABASE_SIZE,   \* places of the ring, the guard included
  MaxTime                   \* bound: timestamps are 0 .. MaxTime

ASSUME DatabaseAssumption ==
  GLC_RACP_DATABASE_SIZE \in 2 .. 255 /\ MaxTime \in Nat

SIZE == GLC_RACP_DATABASE_SIZE
Position == 0 .. SIZE - 1

WordSize == 65536   \* values of a uint16_t
Word == 0 .. WordSize - 1
Record == [seq_num : Word, base_time : 0 .. MaxTime, ctxt_info_follows : BOOLEAN]
ZeroRecord == [seq_num |-> 0, base_time |-> 0, ctxt_info_follows |-> FALSE]
Database ==
  [records : [Position -> Record], record_num : 0 .. 255, head : Position, tail : Position,
   seq_num : Word]

gls_add_service ==
  [records |-> [p \in Position |-> ZeroRecord], record_num |-> 0, head |-> 0, tail |-> 0,
   seq_num |-> 0]

-----------------------------------------------------------------------------
(* New records.                                                            *)

(* The record at the tail gets the next number; gls_set_parameter fills it *)
(* through p_new_record, which is the tail of this moment.                 *)
gls_prepare_new_record(db, time, ctxt) ==
  LET n == (db.seq_num + 1) % WordSize
  IN [db EXCEPT !.seq_num = n,
                !.records[db.tail] = [seq_num |-> n, base_time |-> time, ctxt_info_follows |-> ctxt]]

Full(db) == (db.head - db.tail + SIZE) % SIZE = 1

(* Mutant: the tail does not wrap around.                                  *)
gls_push_new_record_unwrapped(db) ==
  IF Full(db)
  THEN [db EXCEPT !.head = (@ + 1) % SIZE, !.tail = (@ + 1) % SIZE]
  ELSE [db EXCEPT !.tail = @ + 1, !.record_num = (@ + 1) % 256]

gls_push_new_record(db) ==
  IF Full(db)
  THEN [db EXCEPT !.head = (@ + 1) % SIZE, !.tail = (@ + 1) % SIZE]
  ELSE [db EXCEPT !.tail = (@ + 1) % SIZE, !.record_num = (@ + 1) % 256]

-----------------------------------------------------------------------------
(* The search.  A request q has an operator, a filter type, operands x and *)
(* y, and is bare if it has no operand.                                    *)

gls_racp_check(q) ==
  CASE q.op = "NULL" -> "INVALID_OPERATOR"
    [] q.op \in {"ALL_RECS", "FIRST", "LAST"} -> IF q.bare THEN "SUCCESS" ELSE "INVALID_OPERAND"
    [] q.op \in {"LT_EQ", "GT_EQ", "RANGE"} ->
         IF q.type = "RESERVED" \/ (q.type \in {"SEQ_NBR", "TIME"} /\ q.op = "RANGE" /\ q.x > q.y)
         THEN "INVALID_OPERAND"
         ELSE IF q.type \notin {"SEQ_NBR", "TIME"} THEN "OPERAND_NOT_SUPPORTED" ELSE "SUCCESS"
    [] OTHER -> "OPERATOR_NOT_SUPPORTED"

Used(db) == (db.tail - db.head + SIZE) % SIZE
RecordKey(db, type, k) ==
  LET r == db.records[(db.head + k) % SIZE] IN IF type = "SEQ_NBR" THEN r.seq_num ELSE r.base_time

(* The offsets from the head of the records up to x, and of those below x. *)
UpTo(db, type, x)  == {k \in 0 .. Used(db) - 1 : RecordKey(db, type, k) <= x}
Below(db, type, x) == {k \in 0 .. Used(db) - 1 : RecordKey(db, type, k) < x}

(* The offset at which a scan over the records in S ends.                  *)
Scan(db, S) ==
  CHOOSE k \in 0 .. Used(db) : (\A j \in 0 .. k - 1 : j \in S) /\ k \notin S

(* The last record up to x, the tail if there is none; the index is taken  *)
(* back by one without wrapping around.                                    *)
gls_find_records_lt_eq(db, type, x) ==
  LET k == Scan(db, UpTo(db, type, x))
  IN IF k = 0 THEN db.tail ELSE ((db.head + k) % SIZE) - 1

(* The first record from x on, the tail if there is none.                  *)
gls_find_records_gt_eq(db, type, x) ==
  (db.head + Scan(db, Below(db, type, x))) % SIZE

(* Mutant: the length of a range without the record at its end.            *)
RangeLengthShort(first, last) == (last - first + SIZE) % SIZE
RangeLength(first, last) == ((last - first + SIZE) % SIZE) + 1

(* The number of records and the positions of the first and the last.      *)
gls_find_records(db, q) ==
  LET last == (db.tail - 1 + SIZE) % SIZE
      upto == gls_find_records_lt_eq(db, q.type, IF q.op = "RANGE" THEN q.y ELSE q.x)
      from == gls_find_records_gt_eq(db, q.type, q.x)
      any  == IF db.record_num = 0 THEN 0 ELSE 1
  IN CASE q.op = "ALL_RECS" -> [num |-> db.record_num, find1 |-> db.head, find2 |-> last]
       [] q.op = "LT_EQ" ->
            [num |-> IF upto = db.tail THEN 0 ELSE RangeLength(db.head, upto),
             find1 |-> db.head, find2 |-> upto]
       [] q.op = "GT_EQ" ->
            [num |-> (db.tail - from + SIZE) % SIZE, find1 |-> from, find2 |-> last]
       [] q.op = "RANGE" ->
            [num |-> IF db.tail \in {from, upto} THEN 0 ELSE RangeLength(from, upto),
             find1 |-> from, find2 |-> upto]
       [] q.op = "FIRST" -> [num |-> any, find1 |-> db.head, find2 |-> db.head]
       [] q.op = "LAST" -> [num |-> any, find1 |-> last, find2 |-> last]

-----------------------------------------------------------------------------
(* The deletion of f, what gls_find_records found.                         *)

Front(db, f) == (f.find1 - db.head + SIZE) % SIZE
Back(db, f)  == (db.tail - f.find2 - 1 + SIZE) % SIZE

(* Mutant: the move starts with the last record of the range itself.       *)
CloseFromBackEarly(db, f) ==
  LET off(p) == (p - f.find1 + SIZE) % SIZE
  IN [db EXCEPT !.tail = (@ - f.num + SIZE) % SIZE,
                !.records = [p \in Position |->
                   IF off(p) < Back(db, f) THEN @[(f.find2 + off(p) + SIZE) % SIZE] ELSE @[p]]]

(* The fewer records behind the range move up to its start.                *)
CloseFromBack(db, f) ==
  LET off(p) == (p - f.find1 + SIZE) % SIZE
  IN [db EXCEPT !.tail = (@ - f.num + SIZE) % SIZE,
                !.records = [p \in Position |->
                   IF off(p) < Back(db, f) THEN @[(f.find2 + 1 + off(p)) % SIZE] ELSE @[p]]]

(* The first move writes outside the array.                                *)
WritesOutside(db, f) == f.find2 = -1 /\ Front(db, f) \in 1 .. Back(db, f)

(* The records before the range move to its end, the last one first: it is *)
(* lost if the end is outside the array.                                   *)
CloseFromFront(db, f) ==
  LET off(p) == (f.find2 - p + SIZE) % SIZE
  IN [db EXCEPT !.head = (@ + f.num) % SIZE,
                !.records = [p \in Position |->
                   IF off(p) < Front(db, f) /\ (off(p) = 0 => p = f.find2)
                   THEN @[(f.find1 - 1 - off(p) + SIZE) % SIZE] ELSE @[p]]]

DeleteFound(db, op, f) ==
  LET less == [db EXCEPT !.record_num = (@ - f.num) % 256]
  IN CASE op = "ALL_RECS" -> [db EXCEPT !.head = db.tail, !.record_num = 0]
       [] op = "LT_EQ" -> [less EXCEPT !.head = (f.find2 + 1) % SIZE]
       [] op = "GT_EQ" -> [less EXCEPT !.tail = f.find1]
       [] op = "RANGE" -> IF Front(db, f) > Back(db, f)
                          THEN CloseFromBack(less, f) ELSE CloseFromFront(less, f)
       [] op = "FIRST" -> [less EXCEPT !.head = (@ + 1) % SIZE]
       [] op = "LAST" -> [less EXCEPT !.tail = (@ - 1 + SIZE) % SIZE]

(* The records the database holds, oldest first.                           *)
Stored(db) == [i \in 1 .. db.record_num |-> db.records[(db.head + i - 1) % SIZE]]
=============================================================================
