----------------------------- MODULE RecordStore -----------------------------
(***************************************************************************)
(* What the glucose service promises of its records: the last Capacity     *)
(* measurements in the order they were made, without those the client had  *)
(* deleted.                                                                *)
(***************************************************************************)
EXTENDS Subsequence

CONSTANTS
  Capacity,    \* records the store keeps
  Record,      \* what can be stored
  NoRecord,    \* no record is being prepared
  Filter       \* what the client can select by

VARIABLES
  store,    \* the records, oldest first
  draft,    \* the record being prepared
  cut       \* what the last deletion removed, until it is answered

Key(r, type) == IF type = "SEQ_NBR" THEN r.seq_num ELSE r.base_time

(* The positions of s that a filter selects.                               *)
Selected(q, s) ==
  {i \in DOMAIN s :
     LET key == Key(s[i], q.type) IN
     \/ q.op = "ALL_RECS"
     \/ q.op = "LT_EQ" /\ key <= q.x
     \/ q.op = "GT_EQ" /\ key >= q.x
     \/ q.op = "RANGE" /\ q.x <= key /\ key <= q.y
     \/ q.op = "FIRST" /\ i = 1
     \/ q.op = "LAST" /\ i = Len(s)}

Init == store = <<>> /\ draft = NoRecord /\ cut = <<>>
Prepare ==
  /\ draft = NoRecord
  /\ draft' \in Record
  /\ UNCHANGED <<store, cut>>
Push ==
  /\ draft # NoRecord
  /\ store' = Append(IF Len(store) = Capacity THEN Tail(store) ELSE store, draft)
  /\ draft' = NoRecord
  /\ UNCHANGED cut
Delete(q) ==
  /\ cut' = At(store, Selected(q, store))
  /\ store' = At(store, DOMAIN store \ Selected(q, store))
  /\ UNCHANGED draft
Answer == cut' = <<>> /\ UNCHANGED <<store, draft>>
Next == Prepare \/ Push \/ Answer \/ \E q \in Filter : Delete(q)
Spec == Init /\ [][Next]_<<store, draft, cut>>
=============================================================================
