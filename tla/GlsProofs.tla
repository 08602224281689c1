------------------------------ MODULE GlsProofs ------------------------------
(***************************************************************************)
(* Theorems about the glucose service: the number of records is what the   *)
(* ring holds, the control point is busy exactly while one packet is under *)
(* way, and every response was asked for.                                  *)
(***************************************************************************)
EXTENDS Gls, WellFoundedInduction, TLAPS

(* What the environment must not do for the theorems: abort behind the     *)
(* answer, ask for a gap, and delete across the array's end.  Pushing into *)
(* a full database and deleting between prepare and push are allowed.      *)
Disciplined == Liberties \cap {"late", "gap", "outside"} = {}

-----------------------------------------------------------------------------
(* Arithmetic of the ring.                                                 *)

LEMMA WordSizeType == WordSize \in Nat \ {0}
  BY DEF WordSize

LEMMA Size == SIZE \in 2 .. 255
  BY DatabaseAssumption DEF DatabaseAssumption, SIZE

Plus(h, k)  == IF h + k < SIZE THEN h + k ELSE h + k - SIZE
Minus(h, k) == IF h < k THEN h - k + SIZE ELSE h - k

(* Steps around the ring, without the division.  The first place may be    *)
(* the one before the array, which the search returns.                     *)
LEMMA RoundSum == \A h, k \in 0 .. SIZE - 1 : (h + k) % SIZE = Plus(h, k)
  BY Size DEF Plus
LEMMA RoundNext == \A h \in -1 .. SIZE - 1 : (h + 1) % SIZE = Plus(h, 1)
  BY Size DEF Plus
LEMMA RoundDifference ==
  \A h \in -1 .. SIZE - 1, k \in 0 .. SIZE - 1 : (h - k + SIZE) % SIZE = Minus(h, k)
  BY Size DEF Minus
LEMMA RoundType == \A x \in Int : x % SIZE \in Position
  BY Size DEF Position
LEMMA PlusMinusType ==
  /\ \A h, k \in 0 .. SIZE - 1 : Plus(h, k) \in 0 .. SIZE - 1
  /\ \A h \in -1 .. SIZE - 1, k \in 0 .. SIZE - 1 : Minus(h, k) \in 0 .. SIZE - 1
  BY Size DEF Plus, Minus

(* The places and the length of a database.                                *)
LEMMA Places ==
  ASSUME NEW d \in Database
  PROVE  /\ d.head \in 0 .. SIZE - 1 /\ d.tail \in 0 .. SIZE - 1
         /\ Used(d) = Minus(d.tail, d.head)
         /\ Used(d) \in 0 .. SIZE - 1
<1>1. d.head \in Position /\ d.tail \in Position
  BY DEF Database
<1>2. d.head \in 0 .. SIZE - 1 /\ d.tail \in 0 .. SIZE - 1
  BY <1>1 DEF Position
<1>3. d.tail \in -1 .. SIZE - 1
  BY <1>2
<1>4. Used(d) = Minus(d.tail, d.head)
  BY <1>2, <1>3, RoundDifference, Zenon DEF Used
<1>5. Minus(d.tail, d.head) \in 0 .. SIZE - 1
  BY <1>2, <1>3, PlusMinusType, Zenon
<1> QED
  BY <1>2, <1>4, <1>5, Zenon

(* A set of offsets has a least one.                                       *)
LEMMA LeastOffset ==
  ASSUME NEW T, T \subseteq Nat, T # {}
  PROVE  \E k \in T : \A j \in T : ~(j < k)
<1> DEFINE R == {ss \in Nat \X Nat : ss[1] < ss[2]}
<1>1. R = OpToRel(<, Nat)
  BY Zenon DEF OpToRel
<1>2. IsWellFoundedOn(R, Nat)
  BY ONLY NatLessThanWellFounded, <1>1, Zenon
<1> HIDE DEF R
<1>3. \E k \in T : \A j \in T : ~(<<j, k>> \in R)
  BY <1>2, WFMin
<1> QED
  BY <1>3 DEF R

(* A scan ends at the first offset that does not belong to the set.        *)
LEMMA ScanEnds ==
  ASSUME NEW d \in Database, NEW S, S \subseteq 0 .. Used(d) - 1
  PROVE  /\ Scan(d, S) \in 0 .. Used(d)
         /\ \A j \in 0 .. Scan(d, S) - 1 : j \in S
         /\ Scan(d, S) \notin S
<1> DEFINE T == {k \in 0 .. Used(d) : k \notin S}
<1>1. Used(d) \in Nat
  BY Places
<1>2. T \subseteq Nat /\ Used(d) \in T
  BY <1>1
<1>3. PICK k \in T : \A j \in T : ~(j < k)
  BY <1>2, LeastOffset
<1>4. \A j \in 0 .. k - 1 : j \in S
  <2> TAKE j \in 0 .. k - 1
  <2>1. j \in 0 .. Used(d) /\ j < k
    BY <1>1, <1>2
  <2> QED
    BY <1>3, <2>1
<1>5. \E c \in 0 .. Used(d) : (\A j \in 0 .. c - 1 : j \in S) /\ c \notin S
  BY <1>3, <1>4
<1> QED
  BY <1>5 DEF Scan

(* The last place up to x: the one before the place where the scan ends.   *)
LEMMA UpToPlace ==
  ASSUME NEW d \in Database, NEW type, NEW x, NEW k, k = Scan(d, UpTo(d, type, x)),
         NEW upto, upto = gls_find_records_lt_eq(d, type, x)
  PROVE  /\ k \in 0 .. Used(d)
         /\ upto = d.tail <=> k = 0
         /\ k > 0 => upto \in -1 .. SIZE - 1 /\ upto + 1 = Plus(d.head, k)
<1>1. k \in 0 .. Used(d)
  BY ScanEnds DEF UpTo
<1>2. k \in 0 .. SIZE - 1
  <2>1. Used(d) \in 0 .. SIZE - 1
    BY Places
  <2> QED
    BY <1>1, <2>1, Size
<1>3. upto = IF k = 0 THEN d.tail ELSE Plus(d.head, k) - 1
  BY <1>2, Places, RoundSum, Zenon DEF gls_find_records_lt_eq
<1>4. k > 0 => Plus(d.head, k) - 1 # d.tail
  BY <1>1, Places, Size DEF Plus, Minus
<1>5. Plus(d.head, k) \in 0 .. SIZE - 1
  BY <1>2, Places, PlusMinusType, Zenon
<1> QED
  BY <1>1, <1>3, <1>4, <1>5, Size

(* The first place from x on: where the scan ends.                         *)
LEMMA FromPlace ==
  ASSUME NEW d \in Database, NEW type, NEW x, NEW k, k = Scan(d, Below(d, type, x)),
         NEW from, from = gls_find_records_gt_eq(d, type, x)
  PROVE  /\ k \in 0 .. Used(d)
         /\ from \in 0 .. SIZE - 1
         /\ from = Plus(d.head, k)
         /\ from = d.tail <=> k = Used(d)
<1>1. k \in 0 .. Used(d)
  BY ScanEnds DEF Below
<1>2. k \in 0 .. SIZE - 1
  <2>1. Used(d) \in 0 .. SIZE - 1
    BY Places
  <2> QED
    BY <1>1, <2>1, Size
<1>3. from = Plus(d.head, k)
  BY <1>2, Places, RoundSum, Zenon DEF gls_find_records_gt_eq
<1>4. Plus(d.head, k) = d.tail <=> k = Used(d)
  BY <1>1, Places, Size DEF Plus, Minus
<1> QED
  BY <1>1, <1>2, <1>3, <1>4, Places, PlusMinusType, Zenon

(* The keys of the records are numbers.                                    *)
LEMMA KeyType ==
  ASSUME NEW d \in Database, NEW type, NEW k \in Int
  PROVE  RecordKey(d, type, k) \in Int
<1> DEFINE r == d.records[(d.head + k) % SIZE]
<1>1. (d.head + k) % SIZE \in Position
  BY RoundType, Places
<1>2. r \in Record
  BY <1>1 DEF Database
<1>3. r.seq_num \in Word /\ r.base_time \in 0 .. MaxTime
  BY <1>2, Zenon DEF Record
<1>4. \A w \in Word : w \in Int
  BY WordSizeType DEF Word
<1>5. \A t \in 0 .. MaxTime : t \in Int
  BY DatabaseAssumption DEF DatabaseAssumption
<1>6. r.seq_num \in Int /\ r.base_time \in Int
  BY <1>3, <1>4, <1>5, Zenon
<1> QED
  BY <1>6, Zenon DEF RecordKey

(* The records of a range: from the end of the one scan to that of the     *)
(* other.  If the two ends meet within the records, the range is a gap.    *)
LEMMA RangeOrder ==
  ASSUME NEW d \in Database, NEW type, NEW x \in Int, NEW y \in Int, x <= y,
         NEW a, a = Scan(d, Below(d, type, x)), NEW b, b = Scan(d, UpTo(d, type, y))
  PROVE  /\ a \in 0 .. Used(d) /\ b \in 0 .. Used(d) /\ a <= b
         /\ a = b /\ 0 < b /\ b < Used(d) =>
              RecordKey(d, type, b - 1) < x /\ y < RecordKey(d, type, b)
<1>1. Used(d) \in Nat
  BY Places, Size
<1>2. /\ a \in 0 .. Used(d) /\ \A j \in 0 .. a - 1 : j \in Below(d, type, x)
      /\ b \in 0 .. Used(d) /\ b \notin UpTo(d, type, y)
  BY ScanEnds DEF UpTo, Below
<1>3. b \in 0 .. Used(d) - 1 => y < RecordKey(d, type, b)
  BY <1>1, <1>2, KeyType DEF UpTo
<1>4. \A j \in 0 .. a - 1 : RecordKey(d, type, j) < x
  BY <1>2 DEF Below
<1>5. a <= b
  <2> SUFFICES ASSUME b < a PROVE FALSE
    BY <1>1, <1>2
  <2>1. RecordKey(d, type, b) < x /\ y < RecordKey(d, type, b)
    BY <1>1, <1>2, <1>3, <1>4
  <2> QED
    BY <1>1, <1>2, <2>1, KeyType
<1>6. a = b /\ 0 < b /\ b < Used(d) => b - 1 \in 0 .. a - 1 /\ b \in 0 .. Used(d) - 1
  BY <1>1, <1>2
<1> QED
  BY <1>2, <1>3, <1>4, <1>5, <1>6

Counted == db \in Database /\ db.record_num = Used(db)

(* What a filter that is accepted can be.                                  *)
LEMMA Accepted ==
  ASSUME NEW q, gls_racp_check(q) = "SUCCESS", q.x \in Int, q.y \in Int
  PROVE  /\ q.op \in {"ALL_RECS", "LT_EQ", "GT_EQ", "RANGE", "FIRST", "LAST"}
         /\ q.op = "RANGE" => q.x <= q.y
  BY DEF gls_racp_check

(* The offsets at which the scans for q end, and the run between them.     *)
ScanFrom(q)    == Scan(db, Below(db, q.type, q.x))
ScanUpTo(q, y) == Scan(db, UpTo(db, q.type, y))
Ends(q, f) ==
  /\ q.op = "LT_EQ" => f.num = ScanUpTo(q, q.x)
  /\ q.op = "GT_EQ" => f.find1 = Plus(db.head, ScanFrom(q)) /\ f.num = Used(db) - ScanFrom(q)
  /\ q.op = "RANGE" => /\ f.find1 = Plus(db.head, ScanFrom(q))
                       /\ f.num = ScanUpTo(q, q.y) - ScanFrom(q)
                       /\ f.num > 0 => f.find2 + 1 = Plus(db.head, ScanUpTo(q, q.y))

(* A range that meets no record and is not a gap is found to be empty.     *)
LEMMA RangeFound ==
  ASSUME Counted, NEW q, gls_racp_check(q) = "SUCCESS", q.op = "RANGE", ~Gap(q),
         q.x \in Int, q.y \in Int,
         NEW f, f = gls_find_records(db, q)
  PROVE  /\ f.num \in 0 .. Used(db)
         /\ f.find1 \in 0 .. SIZE - 1
         /\ f.find2 \in -1 .. SIZE - 1
         /\ Ends(q, f)
<1> DEFINE a == Scan(db, Below(db, q.type, q.x))
           b == Scan(db, UpTo(db, q.type, q.y))
           from == gls_find_records_gt_eq(db, q.type, q.x)
           upto == gls_find_records_lt_eq(db, q.type, q.y)
<1>1. f = [num |-> IF db.tail \in {from, upto} THEN 0 ELSE RangeLength(from, upto),
           find1 |-> from, find2 |-> upto]
  BY DEF gls_find_records
<1>2. q.x <= q.y
  BY Accepted
<1>3. /\ a \in 0 .. Used(db) /\ b \in 0 .. Used(db) /\ a <= b
      /\ a = b /\ 0 < b /\ b < Used(db) =>
           RecordKey(db, q.type, b - 1) < q.x /\ q.y < RecordKey(db, q.type, b)
  BY <1>2, RangeOrder DEF Counted
<1>4. /\ from \in 0 .. SIZE - 1 /\ from = Plus(db.head, a)
      /\ from = db.tail <=> a = Used(db)
  BY FromPlace DEF Counted
<1>5. /\ upto = db.tail <=> b = 0
      /\ b > 0 => upto \in -1 .. SIZE - 1 /\ upto + 1 = Plus(db.head, b)
  BY UpToPlace DEF Counted
<1>6. db.head \in 0 .. SIZE - 1 /\ db.tail \in 0 .. SIZE - 1 /\ Used(db) \in 0 .. SIZE - 1
  BY Places DEF Counted
<1> HIDE DEF a, b, from, upto
<1>7. upto \in -1 .. SIZE - 1
  BY <1>3, <1>5, <1>6
<1>8. f.num = b - a /\ f.find1 = Plus(db.head, a) /\ (f.num > 0 => f.find2 + 1 = Plus(db.head, b))
       => Ends(q, f)
  BY DEF Ends, ScanFrom, ScanUpTo, a, b
<1>9. CASE from = db.tail \/ upto = db.tail
  <2>1. a = b
    BY <1>3, <1>4, <1>5, <1>6, <1>9
  <2>2. f.num = 0 /\ f.find1 = from /\ f.find2 = upto
    BY <1>1, <1>9
  <2>3. f.num = b - a
    BY <1>3, <1>6, <2>1, <2>2
  <2> QED
    BY <1>4, <1>6, <1>7, <1>8, <2>2, <2>3
<1>10. CASE from # db.tail /\ upto # db.tail
  <2>1. a < Used(db) /\ 0 < b
    BY <1>3, <1>4, <1>5, <1>6, <1>10
  <2>2. a # b
    <3> SUFFICES ASSUME a = b PROVE FALSE
      OBVIOUS
    <3>1. b \in 1 .. db.record_num - 1
      BY <1>3, <1>6, <2>1 DEF Counted
    <3>2. /\ Store!Key(Stored(db)[b], q.type) = RecordKey(db, q.type, b - 1)
          /\ Store!Key(Stored(db)[b + 1], q.type) = RecordKey(db, q.type, b)
      <4>1. b \in 1 .. db.record_num /\ b + 1 \in 1 .. db.record_num
        BY <3>1, <1>6 DEF Counted
      <4>2. /\ db.head + b - 1 = db.head + (b - 1)
            /\ db.head + (b + 1) - 1 = db.head + b
        BY <4>1, <1>6
      <4>3. /\ Stored(db)[b] = db.records[(db.head + (b - 1)) % SIZE]
            /\ Stored(db)[b + 1] = db.records[(db.head + b) % SIZE]
        BY <4>1, <4>2, Zenon DEF Stored
      <4> QED
        BY <4>3, Zenon DEF Store!Key, RecordKey
    <3> QED
      BY <1>3, <2>1, <3>1, <3>2 DEF Gap
  <2>3. f.num = RangeLength(from, upto)
    BY <1>1, <1>10
  <2>4. RangeLength(from, upto) = Minus(upto, from) + 1
    BY <1>4, <1>7, RoundDifference, Zenon DEF RangeLength
  <2>5. Minus(upto, from) + 1 = b - a
    BY <1>3, <1>4, <1>5, <1>6, <2>1, <2>2, Size DEF Plus, Minus
  <2>6. f.num = b - a
    BY <2>3, <2>4, <2>5
  <2>7. f.find1 = Plus(db.head, a) /\ (f.num > 0 => f.find2 + 1 = Plus(db.head, b))
    BY <1>1, <1>4, <1>5, <2>1
  <2> QED
    BY <1>1, <1>3, <1>4, <1>6, <1>7, <1>8, <2>6, <2>7
<1> QED
  BY <1>9, <1>10

(* A range that stops at some record has one above and one below it, so    *)
(* the other filters find a run of records at one end of the ring.         *)
LEMMA Found ==
  ASSUME Counted, NEW q, gls_racp_check(q) = "SUCCESS", ~Gap(q), q.x \in Int, q.y \in Int,
         NEW f, f = gls_find_records(db, q)
  PROVE  /\ f.num \in 0 .. Used(db) /\ f.find1 \in 0 .. SIZE - 1 /\ f.find2 \in -1 .. SIZE - 1
         /\ q.op = "LT_EQ" /\ f.num > 0 => f.find2 + 1 = Plus(db.head, f.num)
         /\ q.op = "GT_EQ" => f.find1 = Plus(db.head, Used(db) - f.num)
         /\ Ends(q, f)
<1>1. /\ db.head \in 0 .. SIZE - 1 /\ db.tail \in 0 .. SIZE - 1 /\ Used(db) \in 0 .. SIZE - 1
      /\ Used(db) = Minus(db.tail, db.head) /\ db.record_num = Used(db)
  BY Places DEF Counted
<1>2. (db.tail - 1 + SIZE) % SIZE \in 0 .. SIZE - 1
  BY <1>1, RoundType, Size DEF Position
<1>3. CASE q.op \in {"ALL_RECS", "FIRST", "LAST"}
  <2>1. f.num \in {db.record_num, IF db.record_num = 0 THEN 0 ELSE 1}
    BY <1>3 DEF gls_find_records
  <2>2. f.find1 \in 0 .. SIZE - 1 /\ f.find2 \in 0 .. SIZE - 1
    BY <1>1, <1>2, <1>3, Zenon DEF gls_find_records
  <2>3. Ends(q, f)
    BY <1>3 DEF Ends
  <2> QED
    BY <1>1, <1>3, <2>1, <2>2, <2>3, Size
<1>4. CASE q.op = "LT_EQ"
  <2> DEFINE b == Scan(db, UpTo(db, q.type, q.x))
             upto == gls_find_records_lt_eq(db, q.type, q.x)
  <2>1. f = [num |-> IF upto = db.tail THEN 0 ELSE RangeLength(db.head, upto),
             find1 |-> db.head, find2 |-> upto]
    BY <1>4 DEF gls_find_records
  <2>2. /\ b \in 0 .. Used(db) /\ (upto = db.tail <=> b = 0)
        /\ b > 0 => upto \in -1 .. SIZE - 1 /\ upto + 1 = Plus(db.head, b)
    BY UpToPlace DEF Counted
  <2> HIDE DEF b, upto
  <2>3. f.num = b => Ends(q, f)
    BY <1>4 DEF Ends, ScanUpTo, b
  <2>4. CASE b = 0
    BY <1>1, <1>4, <2>1, <2>2, <2>4, <2>3, Size
  <2>5. CASE b > 0
    <3>1. RangeLength(db.head, upto) = Minus(upto, db.head) + 1
      BY <1>1, <2>2, <2>5, RoundDifference, Zenon DEF RangeLength
    <3>2. Minus(upto, db.head) + 1 = b
      BY <1>1, <2>2, <2>5, Size DEF Plus, Minus
    <3> QED
      BY <1>1, <1>4, <2>1, <2>2, <2>5, <2>3, <3>1, <3>2, Size
  <2> QED
    BY <1>1, <2>2, <2>4, <2>5
<1>5. CASE q.op = "GT_EQ"
  <2> DEFINE a == Scan(db, Below(db, q.type, q.x))
             from == gls_find_records_gt_eq(db, q.type, q.x)
  <2>1. f = [num |-> (db.tail - from + SIZE) % SIZE, find1 |-> from,
             find2 |-> (db.tail - 1 + SIZE) % SIZE]
    BY <1>5 DEF gls_find_records
  <2>2. a \in 0 .. Used(db) /\ from \in 0 .. SIZE - 1 /\ from = Plus(db.head, a)
    BY FromPlace DEF Counted
  <2> HIDE DEF a, from
  <2>3. db.tail \in -1 .. SIZE - 1
    BY <1>1
  <2>4. (db.tail - from + SIZE) % SIZE = Minus(db.tail, from)
    BY <2>2, <2>3, RoundDifference, Zenon
  <2>5. Minus(db.tail, from) = Used(db) - a
    BY <1>1, <2>2, Size DEF Plus, Minus
  <2>6. f.num = Used(db) - a /\ f.find1 = Plus(db.head, a)
    BY <2>1, <2>2, <2>4, <2>5
  <2>7. Ends(q, f)
    BY <1>5, <2>6 DEF Ends, ScanFrom, a
  <2> QED
    BY <1>1, <1>2, <1>5, <2>1, <2>2, <2>4, <2>5, <2>7, Size
<1>6. CASE q.op = "RANGE"
  BY <1>6, RangeFound
<1> QED
  BY <1>3, <1>4, <1>5, <1>6, Accepted

-----------------------------------------------------------------------------
(* Every operation keeps the count.                                        *)

CountedIn(d) == d \in Database /\ d.record_num = Used(d)

(* A database whose places and records have their types, and whose count   *)
(* is the distance from head to tail.                                      *)
LEMMA CountedFrom ==
  ASSUME NEW d,
         d = [records |-> d.records, record_num |-> d.record_num, head |-> d.head, tail |-> d.tail,
              seq_num |-> d.seq_num],
         d.records \in [Position -> Record], d.head \in 0 .. SIZE - 1, d.tail \in 0 .. SIZE - 1,
         d.seq_num \in Word, d.record_num = Minus(d.tail, d.head)
  PROVE  CountedIn(d)
<1>1. d.record_num \in 0 .. SIZE - 1
  BY PlusMinusType, Size
<1>2. d.record_num \in 0 .. 255 /\ d.head \in Position /\ d.tail \in Position
  <2>1. \A n \in 0 .. SIZE - 1 : n \in 0 .. 255
    BY ONLY Size
  <2> QED
    BY <1>1, <2>1, Zenon DEF Position
<1>3. d \in Database
  BY <1>2, Zenon DEF Database
<1> QED
  BY <1>3, Places, Zenon DEF CountedIn

(* A shorter form, with the byte that counts.                              *)
LEMMA Byte == \A n \in 0 .. SIZE - 1 : n % 256 = n /\ n \in 0 .. 255
  BY Size

LEMMA InitCounted == CountedIn(gls_add_service)
<1>1. ZeroRecord \in Record
  <2>1. 0 \in Word /\ 0 \in 0 .. MaxTime
    BY DatabaseAssumption, WordSizeType DEF Word, DatabaseAssumption
  <2> QED
    BY <2>1, Zenon DEF ZeroRecord, Record
<1>2. [p \in Position |-> ZeroRecord] \in [Position -> Record]
  BY <1>1
<1>3. 0 \in Word /\ 0 \in 0 .. SIZE - 1 /\ 0 = Minus(0, 0)
  BY Size, WordSizeType DEF Word, Minus
<1> DEFINE d == gls_add_service
<1>4. /\ d = [records |-> d.records, record_num |-> d.record_num, head |-> d.head,
              tail |-> d.tail, seq_num |-> d.seq_num]
      /\ d.records = [p \in Position |-> ZeroRecord]
      /\ d.record_num = 0 /\ d.head = 0 /\ d.tail = 0 /\ d.seq_num = 0
  BY DEF gls_add_service
<1> HIDE DEF d
<1> QED
  <2>1. CountedIn(d)
    BY <1>2, <1>3, <1>4, CountedFrom
  <2> QED
    BY <2>1 DEF d

LEMMA NextWord == \A w \in Word : (w + 1) % WordSize \in Word
  BY WordSizeType DEF Word

(* Making a record touches the guard place only.                           *)
LEMMA PrepareCounted ==
  ASSUME NEW d, CountedIn(d), NEW time \in 0 .. MaxTime, NEW ctxt \in BOOLEAN
  PROVE  CountedIn(gls_prepare_new_record(d, time, ctxt))
<1> DEFINE n == (d.seq_num + 1) % WordSize
           r == [seq_num |-> n, base_time |-> time, ctxt_info_follows |-> ctxt]
           e == gls_prepare_new_record(d, time, ctxt)
<1>1. d \in Database /\ d.record_num = Used(d)
  BY DEF CountedIn
<1>2. n \in Word
  <2>1. d.seq_num \in Word
    BY <1>1, Zenon DEF Database
  <2> QED
    BY <2>1, NextWord, Zenon
<1> HIDE DEF n
<1>3. r \in Record
  BY <1>2 DEF Record
<1>4. e = [d EXCEPT !.seq_num = n, !.records[d.tail] = r]
  BY DEF n, gls_prepare_new_record
<1> HIDE DEF r
<1> HIDE DEF e
<1>5. e \in Database /\ e.head = d.head /\ e.tail = d.tail /\ e.record_num = d.record_num
  BY <1>1, <1>2, <1>3, <1>4 DEF Database
<1> QED
  <2>1. CountedIn(e)
    BY <1>1, <1>5, Zenon DEF CountedIn, Used
  <2> QED
    BY <2>1 DEF e

(* A push into a full database moves both ends, another one the tail.      *)
LEMMA PushCounted ==
  ASSUME NEW d, CountedIn(d)
  PROVE  CountedIn(gls_push_new_record(d))
<1> DEFINE e == gls_push_new_record(d)
<1>1. /\ d \in Database /\ d.record_num = Minus(d.tail, d.head)
      /\ d.head \in 0 .. SIZE - 1 /\ d.tail \in 0 .. SIZE - 1
  BY Places DEF CountedIn
<1>2. d.tail \in -1 .. SIZE - 1 /\ d.head \in -1 .. SIZE - 1
  BY <1>1
<1>3. /\ (d.head + 1) % SIZE = Plus(d.head, 1) /\ (d.tail + 1) % SIZE = Plus(d.tail, 1)
      /\ (d.head - d.tail + SIZE) % SIZE = Minus(d.head, d.tail)
  BY <1>1, <1>2, RoundNext, RoundDifference, Zenon
<1>4. Plus(d.head, 1) \in Position /\ Plus(d.tail, 1) \in Position
  BY <1>1, Size DEF Plus, Position
<1>5. CASE Full(d)
  <2>1. e = [d EXCEPT !.head = Plus(d.head, 1), !.tail = Plus(d.tail, 1)]
    BY <1>3, <1>5, Zenon DEF gls_push_new_record
  <2> HIDE DEF e
  <2>2. /\ e \in Database /\ e.head = Plus(d.head, 1) /\ e.tail = Plus(d.tail, 1)
        /\ e.record_num = d.record_num
    BY <1>1, <1>4, <2>1 DEF Database
  <2>3. Minus(e.tail, e.head) = Minus(d.tail, d.head)
    BY <1>1, <2>2, Size DEF Plus, Minus
  <2> QED
    <3>1. CountedIn(e)
      BY <1>1, <2>2, <2>3, Places DEF CountedIn
    <3> QED
      BY <3>1 DEF e
<1>6. CASE ~Full(d)
  <2>1. e = [d EXCEPT !.tail = Plus(d.tail, 1), !.record_num = (d.record_num + 1) % 256]
    BY <1>3, <1>6, Zenon DEF gls_push_new_record
  <2>2. Minus(d.head, d.tail) # 1
    BY <1>3, <1>6, Zenon DEF Full
  <2>3. d.record_num + 1 \in 0 .. SIZE - 1
    BY <1>1, <2>2, Size DEF Minus
  <2>4. (d.record_num + 1) % 256 = d.record_num + 1 /\ d.record_num + 1 \in 0 .. 255
    BY <2>3, Byte, Zenon
  <2> HIDE DEF e
  <2>5. /\ e \in Database /\ e.head = d.head /\ e.tail = Plus(d.tail, 1)
        /\ e.record_num = d.record_num + 1
    BY <1>1, <1>4, <2>1, <2>4 DEF Database
  <2>6. Minus(e.tail, e.head) = Minus(d.tail, d.head) + 1
    BY <1>1, <2>2, <2>5, Size DEF Plus, Minus
  <2> QED
    <3>1. CountedIn(e)
      BY <1>1, <2>5, <2>6, Places DEF CountedIn
    <3> QED
      BY <3>1 DEF e
<1> QED
  BY <1>5, <1>6

(* A deletion moves one end by the number of records found, or moves the   *)
(* records as well.                                                        *)
LEMMA DeleteCounted ==
  ASSUME Counted, NEW q, gls_racp_check(q) = "SUCCESS", ~Gap(q), q.x \in Int, q.y \in Int,
         gls_find_records(db, q).num > 0
  PROVE  CountedIn(DeleteFound(db, q.op, gls_find_records(db, q)))
<1> DEFINE f == gls_find_records(db, q)
           e == DeleteFound(db, q.op, f)
           less == [db EXCEPT !.record_num = (@ - f.num) % 256]
<1> SUFFICES CountedIn(e)
  OBVIOUS
<1>1. /\ f.num \in 0 .. Used(db) /\ f.find1 \in 0 .. SIZE - 1 /\ f.find2 \in -1 .. SIZE - 1
      /\ q.op = "LT_EQ" /\ f.num > 0 => f.find2 + 1 = Plus(db.head, f.num)
      /\ q.op = "GT_EQ" => f.find1 = Plus(db.head, Used(db) - f.num)
  BY Found
<1>2. /\ db \in Database /\ db.record_num = Used(db) /\ Used(db) = Minus(db.tail, db.head)
      /\ db.head \in 0 .. SIZE - 1 /\ db.tail \in 0 .. SIZE - 1 /\ Used(db) \in 0 .. SIZE - 1
  BY Places DEF Counted
<1>3. q.op \in {"FIRST", "LAST"} => f.num <= 1
  BY <1>2, Size DEF gls_find_records
<1>4. q.op = "ALL_RECS" => f.num = db.record_num
  BY DEF gls_find_records
<1>5. f.num > 0
  OBVIOUS
<1>6. q.op \in {"ALL_RECS", "LT_EQ", "GT_EQ", "RANGE", "FIRST", "LAST"}
  BY Accepted
<1> HIDE DEF e, f
<1>7. (db.record_num - f.num) % 256 = db.record_num - f.num /\ db.record_num - f.num \in 0 .. 255
  <2>1. db.record_num - f.num \in 0 .. SIZE - 1
    BY <1>1, <1>2, <1>5, Size
  <2> QED
    BY <2>1, Byte, Zenon
<1>8. f.num \in 0 .. SIZE - 1
  BY <1>1, <1>2, Size
<1>9. /\ less \in Database /\ less.records = db.records /\ less.head = db.head
      /\ less.tail = db.tail /\ less.record_num = db.record_num - f.num
  BY <1>2, <1>7 DEF Database
<1> HIDE DEF less
<1>10. CASE q.op = "ALL_RECS"
  <2>1. e = [db EXCEPT !.head = db.tail, !.record_num = 0]
    BY <1>10 DEF e, DeleteFound
  <2>2. db.tail \in Position /\ 0 \in 0 .. 255
    BY <1>2 DEF Position
  <2>3. e \in Database /\ e.head = db.tail /\ e.tail = db.tail /\ e.record_num = 0
    BY <1>2, <2>1, <2>2 DEF Database
  <2>4. Minus(db.tail, db.tail) = 0
    BY <1>2 DEF Minus
  <2> QED
    BY <2>3, <2>4, Places DEF CountedIn
<1>11. ASSUME NEW h \in 0 .. SIZE - 1, e = [less EXCEPT !.head = h], Minus(db.tail, h) = less.record_num
       PROVE  CountedIn(e)
  <2>1. h \in Position
    BY DEF Position
  <2>2. e \in Database /\ e.head = h /\ e.tail = db.tail /\ e.record_num = less.record_num
    BY <1>9, <1>11, <2>1 DEF Database
  <2> QED
    BY <1>11, <2>2, Places DEF CountedIn
<1>12. ASSUME NEW t \in 0 .. SIZE - 1, e = [less EXCEPT !.tail = t], Minus(t, db.head) = less.record_num
       PROVE  CountedIn(e)
  <2>1. t \in Position
    BY DEF Position
  <2>2. e \in Database /\ e.head = db.head /\ e.tail = t /\ e.record_num = less.record_num
    BY <1>9, <1>12, <2>1 DEF Database
  <2> QED
    BY <1>12, <2>2, Places DEF CountedIn
<1>13. CASE q.op = "LT_EQ"
  <2>1. (f.find2 + 1) % SIZE = Plus(f.find2, 1)
    BY <1>1, RoundNext, Zenon
  <2>2. Plus(f.find2, 1) \in 0 .. SIZE - 1 /\ Minus(db.tail, Plus(f.find2, 1)) = less.record_num
    BY <1>1, <1>2, <1>5, <1>9, <1>13, Size DEF Plus, Minus
  <2>3. e = [less EXCEPT !.head = Plus(f.find2, 1)]
    BY <1>13, <2>1 DEF e, DeleteFound, less
  <2> QED
    BY <1>11, <2>2, <2>3
<1>14. CASE q.op = "GT_EQ"
  <2>1. Minus(f.find1, db.head) = less.record_num
    BY <1>1, <1>2, <1>5, <1>9, <1>14, Size DEF Plus, Minus
  <2>2. e = [less EXCEPT !.tail = f.find1]
    BY <1>14 DEF e, DeleteFound, less
  <2> QED
    BY <1>1, <1>12, <2>1, <2>2
<1>15. CASE q.op = "FIRST"
  <2>1. (less.head + 1) % SIZE = Plus(db.head, 1)
    <3>1. db.head \in -1 .. SIZE - 1
      BY <1>2
    <3> QED
      BY <1>9, <3>1, RoundNext, Zenon
  <2> DEFINE h == Plus(db.head, 1)
  <2>2. h \in 0 .. SIZE - 1 /\ Minus(db.tail, h) = less.record_num
    <3>1. f.num = 1
      BY <1>1, <1>3, <1>5, <1>15, Size
    <3>2. h = IF db.head + 1 < SIZE THEN db.head + 1 ELSE 0
      BY <1>2, Size DEF Plus
    <3> HIDE DEF h
    <3> QED
      BY <1>2, <1>9, <3>1, <3>2, <1>5, <1>1, Size DEF Minus
  <2>3. e = [less EXCEPT !.head = Plus(db.head, 1)]
    BY <1>15, <2>1 DEF e, DeleteFound, less
  <2> QED
    BY <1>11, <2>2, <2>3
<1>16. CASE q.op = "LAST"
  <2>1. (less.tail - 1 + SIZE) % SIZE = Minus(db.tail, 1)
    <3>1. db.tail \in -1 .. SIZE - 1 /\ 1 \in 0 .. SIZE - 1
      BY <1>2, Size
    <3> QED
      BY <1>9, <3>1, RoundDifference, Zenon
  <2>2. Minus(db.tail, 1) \in 0 .. SIZE - 1 /\ Minus(Minus(db.tail, 1), db.head) = less.record_num
    BY <1>1, <1>2, <1>3, <1>5, <1>9, <1>16, Size DEF Minus
  <2>3. e = [less EXCEPT !.tail = Minus(db.tail, 1)]
    BY <1>16, <2>1 DEF e, DeleteFound, less
  <2> QED
    BY <1>12, <2>2, <2>3
<1>17. CASE q.op = "RANGE"
  <2> DEFINE offBack(p) == (p - f.find1 + SIZE) % SIZE
             offFront(p) == (f.find2 - p + SIZE) % SIZE
             movedBack == [p \in Position |->
                IF offBack(p) < Back(less, f)
                THEN less.records[(f.find2 + 1 + offBack(p)) % SIZE] ELSE less.records[p]]
             movedFront == [p \in Position |->
                IF offFront(p) < Front(less, f) /\ (offFront(p) = 0 => p = f.find2)
                THEN less.records[(f.find1 - 1 - offFront(p) + SIZE) % SIZE] ELSE less.records[p]]
  <2>1. less.records \in [Position -> Record]
    BY <1>9, Zenon DEF Database
  <2>2. \A p \in Position : offBack(p) \in Int /\ offFront(p) \in Int
    BY <1>1, RoundType, Size DEF Position
  <2>3. movedBack \in [Position -> Record]
    <3>1. \A p \in Position : (f.find2 + 1 + offBack(p)) % SIZE \in Position
      <4> HIDE DEF offBack
      <4> QED
        BY <1>1, <2>2, RoundType
    <3> QED
      BY <2>1, <3>1
  <2>4. movedFront \in [Position -> Record]
    <3>1. \A p \in Position : (f.find1 - 1 - offFront(p) + SIZE) % SIZE \in Position
      <4> HIDE DEF offFront
      <4>1. \A p \in Position : f.find1 - 1 - offFront(p) + SIZE \in Int
        BY <1>1, <2>2, Size
      <4> QED
        BY <4>1, RoundType, Zenon
    <3> QED
      BY <2>1, <3>1
  <2> HIDE DEF movedBack, movedFront
  <2>5. CASE Front(db, f) > Back(db, f)
    <3>1. e = CloseFromBack(less, f)
      BY <1>17, <2>5 DEF e, DeleteFound, less
    <3>2. (less.tail - f.num + SIZE) % SIZE = Minus(db.tail, f.num)
      <4>1. db.tail \in -1 .. SIZE - 1
        BY <1>2
      <4> QED
        BY <1>8, <1>9, <4>1, RoundDifference, Zenon
    <3>3. e = [less EXCEPT !.tail = Minus(db.tail, f.num), !.records = movedBack]
      BY <3>1, <3>2 DEF CloseFromBack, movedBack
    <3>4. Minus(db.tail, f.num) \in Position
      BY <1>2, <1>8, Size DEF Minus, Position
    <3>5. e \in Database /\ e.head = db.head /\ e.tail = Minus(db.tail, f.num)
          /\ e.record_num = less.record_num
      BY <1>9, <2>3, <3>3, <3>4 DEF Database
    <3>6. Minus(Minus(db.tail, f.num), db.head) = less.record_num
      BY <1>1, <1>2, <1>5, <1>9, Size DEF Minus
    <3> QED
      BY <3>5, <3>6, Places DEF CountedIn
  <2>6. CASE ~(Front(db, f) > Back(db, f))
    <3>1. e = CloseFromFront(less, f)
      BY <1>17, <2>6 DEF e, DeleteFound, less
    <3>2. (less.head + f.num) % SIZE = Plus(db.head, f.num)
      BY <1>2, <1>8, <1>9, RoundSum, Zenon
    <3>3. e = [less EXCEPT !.head = Plus(db.head, f.num), !.records = movedFront]
      BY <3>1, <3>2 DEF CloseFromFront, movedFront
    <3>4. Plus(db.head, f.num) \in Position
      BY <1>2, <1>8, Size DEF Plus, Position
    <3>5. e \in Database /\ e.head = Plus(db.head, f.num) /\ e.tail = db.tail
          /\ e.record_num = less.record_num
      BY <1>9, <2>4, <3>3, <3>4 DEF Database
    <3>6. Minus(db.tail, Plus(db.head, f.num)) = less.record_num
      BY <1>1, <1>2, <1>5, <1>9, Size DEF Plus, Minus
    <3> QED
      BY <3>5, <3>6, Places DEF CountedIn
  <2> QED
    BY <2>5, <2>6
<1> QED
  BY <1>6, <1>10, <1>13, <1>14, <1>15, <1>16, <1>17

-----------------------------------------------------------------------------
(* The control point.                                                      *)

Racp ==
  [op_code : OpCode, num : 0 .. 255, current : 0 .. 255, offset : Position,
   send_data_flag : 0 .. 3, abort_flag : BOOLEAN, abort_by_app_flag : BOOLEAN]

LEMMA RacpFields ==
  ASSUME NEW r \in Racp
  PROVE  r.num \in Int /\ r.num <= 255 /\ r.current \in Int /\ 0 <= r.current
<1>1. \A n \in 0 .. 255 : n \in Int /\ 0 <= n /\ n <= 255
  OBVIOUS
<1> QED
  BY <1>1, Zenon DEF Racp

(* What the client waits for when a packet is a response.                  *)
Answered(packet, A) ==
  \/ packet.kind = "response" /\ packet.op_code \in A
  \/ packet.kind = "number" /\ "REPORT_NBR_OF_RECS" \in A

(* A control point r with the packets w under way, for a client that waits *)
(* for A, when the stack has refused n packets.                            *)
Idle(r, w) == r = Cleared /\ w = <<>>
Data(packet) == packet.kind \in {"measurement", "context"}
Reporting(r, w, A) ==
  /\ r.op_code = "REPORT_RECS" /\ "REPORT_RECS" \in A
  /\ r.send_data_flag \in {1, 2}
  /\ r.current <= r.num /\ (r.send_data_flag = 1 => r.current < r.num)
  /\ r.abort_flag = TRUE => "ABORT_OPERATION" \in A
  /\ \E packet : w = <<packet>> /\ Data(packet)
AnswerGiven(r, w, A, n) ==
  /\ r.op_code \in {"RESP_CODE", "NBR_OF_RECS_RESP"} /\ r.send_data_flag = 3
  /\ r.abort_flag = FALSE /\ r.abort_by_app_flag = FALSE /\ r.num <= r.current
  /\ \/ w = <<>> /\ n > 0
     \/ \E packet : w = <<packet>> /\ Answered(packet, A)
Control(r, w, A, n) ==
  /\ r \in Racp
  /\ Idle(r, w) \/ Reporting(r, w, A) \/ AnswerGiven(r, w, A, n)

(* The packets under way when a step has come to the outcome o.            *)
Wire(o) == IF o.packet = None THEN <<>> ELSE <<o.packet>>
Refusal(o) == IF o.refused THEN 1 ELSE 0
Fits(o, A) == Control(o.racp, Wire(o), A, Refusal(o))
(* The same, but a step that failed may leave any control point.           *)
FitsOrFails(o, A) ==
  \/ o.ok = TRUE /\ Fits(o, A)
  \/ o.ok = FALSE /\ o.packet = None

(* The two outcomes of sending a packet.                                   *)
Outcome(o, r, packet) ==
  /\ o.racp = r
  /\ \/ Wire(o) = <<packet>> /\ o.ok = TRUE /\ o.refused = FALSE
     \/ Wire(o) = <<>> /\ o.packet = None /\ o.ok = FALSE /\ o.refused = TRUE
LEMMA SentOutcomes ==
  ASSUME NEW r, NEW packet, packet.kind # "none", NEW o \in Sent(r, packet)
  PROVE  Outcome(o, r, packet)
<1>1. packet # None
  BY DEF None
<1> QED
  BY <1>1 DEF Sent, Wire, Outcome

LEMMA ClearedFits ==
  /\ Cleared \in Racp
  /\ \A A, n : Control(Cleared, <<>>, A, n)
<1>1. Cleared \in Racp
  BY Size DEF Cleared, Racp, OpCode, Position
<1> QED
  BY <1>1 DEF Control, Idle

(* A response to something the client waits for.                           *)
LEMMA ResponseFits ==
  ASSUME NEW r \in Racp, NEW A, NEW code, r.op_code \in A,
         r.abort_flag = FALSE, r.abort_by_app_flag = FALSE, r.num <= r.current,
         NEW o \in gls_racp_response(r, code)
  PROVE  Fits(o, A) /\ FitsOrFails(o, A)
<1> DEFINE s == [r EXCEPT !.send_data_flag = 3, !.op_code = "RESP_CODE"]
           packet == Response(r.op_code, code)
<1>1. /\ s \in Racp /\ s.op_code = "RESP_CODE" /\ s.send_data_flag = 3
      /\ s.abort_flag = FALSE /\ s.abort_by_app_flag = FALSE /\ s.num <= s.current
  <2>1. "RESP_CODE" \in OpCode /\ 3 \in 0 .. 3
    BY DEF OpCode
  <2>2. /\ s.op_code = "RESP_CODE" /\ s.send_data_flag = 3 /\ s.num = r.num
        /\ s.abort_flag = r.abort_flag /\ s.abort_by_app_flag = r.abort_by_app_flag
        /\ s.current = r.current
    BY DEF Racp
  <2>3. s \in Racp
    BY <2>1, Zenon DEF Racp
  <2> QED
    BY <2>2, <2>3
<1>2. packet.kind = "response" /\ packet.op_code = r.op_code
  BY DEF Response
<1> HIDE DEF s, packet
<1>3. o \in Sent(s, packet) /\ packet.kind # "none"
  BY <1>2 DEF s, packet, gls_racp_response
<1>4. /\ o.racp = s
      /\ \/ Wire(o) = <<packet>> /\ o.refused = FALSE /\ o.ok = TRUE
         \/ Wire(o) = <<>> /\ o.refused = TRUE /\ o.ok = FALSE /\ o.packet = None
  <2>1. Outcome(o, s, packet)
    BY <1>3, SentOutcomes, Zenon
  <2> QED
    BY <2>1 DEF Outcome
<1>5. Answered(packet, A)
  BY <1>2 DEF Answered
<1>6. Fits(o, A)
  BY <1>1, <1>4, <1>5 DEF Fits, Control, AnswerGiven, Refusal
<1> QED
  BY <1>4, <1>6 DEF FitsOrFails

LEMMA NumberFits ==
  ASSUME NEW r \in Racp, NEW A, NEW n, "REPORT_NBR_OF_RECS" \in A,
         r.abort_flag = FALSE, r.abort_by_app_flag = FALSE, r.num <= r.current,
         NEW o \in gls_racp_num_response(r, n)
  PROVE  Fits(o, A)
<1> DEFINE s == [r EXCEPT !.send_data_flag = 3, !.op_code = "NBR_OF_RECS_RESP"]
           packet == Number(n)
<1>1. /\ s \in Racp /\ s.op_code = "NBR_OF_RECS_RESP" /\ s.send_data_flag = 3
      /\ s.abort_flag = FALSE /\ s.abort_by_app_flag = FALSE /\ s.num <= s.current
  <2>1. "NBR_OF_RECS_RESP" \in OpCode /\ 3 \in 0 .. 3
    BY DEF OpCode
  <2>2. /\ s.op_code = "NBR_OF_RECS_RESP" /\ s.send_data_flag = 3 /\ s.num = r.num
        /\ s.abort_flag = r.abort_flag /\ s.abort_by_app_flag = r.abort_by_app_flag
        /\ s.current = r.current
    BY DEF Racp
  <2>3. s \in Racp
    BY <2>1, Zenon DEF Racp
  <2> QED
    BY <2>2, <2>3
<1>2. packet.kind = "number"
  BY DEF Number
<1> HIDE DEF s, packet
<1>3. o \in Sent(s, packet) /\ packet.kind # "none"
  BY <1>2 DEF s, packet, gls_racp_num_response
<1>4. /\ o.racp = s
      /\ \/ Wire(o) = <<packet>> /\ o.refused = FALSE
         \/ Wire(o) = <<>> /\ o.refused = TRUE
  <2>1. Outcome(o, s, packet)
    BY <1>3, SentOutcomes, Zenon
  <2> QED
    BY <2>1 DEF Outcome
<1>5. Answered(packet, A)
  BY <1>2 DEF Answered
<1> QED
  BY <1>1, <1>4, <1>5 DEF Fits, Control, AnswerGiven, Refusal

(* A control point that cannot go on is cleared.                           *)
LEMMA ClearFits ==
  ASSUME NEW S, NEW A,
         \A p \in S : FitsOrFails(p, A),
         NEW o \in OrClear(S)
  PROVE  Fits(o, A)
<1>1. PICK p \in S : o = IF p.ok THEN p ELSE [p EXCEPT !.racp = Cleared]
  BY DEF OrClear
<1>2. CASE p.ok = TRUE
  BY <1>1, <1>2 DEF FitsOrFails
<1>3. CASE p.ok = FALSE
  <2>1. o = [p EXCEPT !.racp = Cleared] /\ p.packet = None
    BY <1>1, <1>3 DEF FitsOrFails
  <2> QED
    BY <2>1, ClearedFits DEF Fits, Wire
<1> QED
  BY <1>1, <1>2, <1>3 DEF FitsOrFails

(* A packet of a report goes out, or the report fails.                     *)
Ready(r, A) ==
  /\ r \in Racp
  /\ r.op_code = "REPORT_RECS" /\ "REPORT_RECS" \in A
  /\ r.send_data_flag \in {1, 2}
  /\ r.current <= r.num /\ (r.send_data_flag = 1 => r.current < r.num)
  /\ r.abort_flag = TRUE => "ABORT_OPERATION" \in A
LEMMA PacketFits ==
  ASSUME NEW r, NEW A, Ready(r, A), NEW packet, Data(packet),
         NEW o \in Sent(r, packet)
  PROVE  FitsOrFails(o, A)
<1>1. packet.kind # "none"
  BY DEF Data
<1>2. Outcome(o, r, packet)
  BY <1>1, SentOutcomes, Zenon
<1> QED
  BY <1>2 DEF Data, Ready, FitsOrFails, Fits, Outcome, Control, Reporting

LEMMA FailureFits ==
  ASSUME NEW r, NEW A, NEW o \in NotSent(r, FALSE)
  PROVE  FitsOrFails(o, A)
<1>1. o = [racp |-> r, packet |-> None, ok |-> FALSE, refused |-> FALSE]
  BY DEF NotSent
<1>2. o.packet = None /\ o.ok = FALSE
  BY ONLY <1>1
<1> QED
  BY <1>2, Zenon DEF FitsOrFails

(* The control point with another send flag.                               *)
LEMMA FlagReady ==
  ASSUME NEW r \in Racp, NEW A, NEW flag \in {1, 2},
         r.op_code = "REPORT_RECS", "REPORT_RECS" \in A, r.abort_flag = TRUE => "ABORT_OPERATION" \in A,
         r.current <= r.num, flag = 1 => r.current < r.num
  PROVE  Ready([r EXCEPT !.send_data_flag = flag], A)
<1> DEFINE s == [r EXCEPT !.send_data_flag = flag]
<1>1. /\ s.op_code = r.op_code /\ s.send_data_flag = flag /\ s.num = r.num
      /\ s.abort_flag = r.abort_flag /\ s.current = r.current
  BY DEF Racp
<1>2. s \in Racp
  <2>1. flag \in 0 .. 3
    OBVIOUS
  <2> QED
    BY <2>1, Zenon DEF Racp
<1> HIDE DEF s
<1>3. Ready(s, A)
  BY <1>1, <1>2 DEF Ready
<1> QED
  BY <1>3 DEF s

(* A record that can be sent goes out as one packet.                       *)
LEMMA NotifyFits ==
  ASSUME NEW r \in Racp, NEW index, NEW A,
         r.op_code = "REPORT_RECS", "REPORT_RECS" \in A, r.abort_flag = TRUE => "ABORT_OPERATION" \in A
  PROVE  /\ r.current < r.num => \A o \in Notify(r, index, 1, "measurement") : FitsOrFails(o, A)
         /\ r.current <= r.num => \A o \in Notify(r, index, 2, "context") : FitsOrFails(o, A)
<1> DEFINE record == db.records[(db.head + index) % SIZE]
           first == [r EXCEPT !.send_data_flag = 1]
           second == [r EXCEPT !.send_data_flag = 2]
<1>1. Data(Measurement(record)) /\ Data(Context(record))
  BY DEF Measurement, Context, Data
<1>2. /\ \A o \in Notify(r, index, 1, "measurement") :
           o \in NotSent(first, FALSE) \/ o \in Sent(first, Measurement(record))
      /\ \A o \in Notify(r, index, 2, "context") :
           o \in NotSent(second, FALSE) \/ o \in Sent(second, Context(record))
  BY Zenon DEF Notify, Measurement, Context
<1>3. r.current < r.num => Ready(first, A)
  <2>1. r.current < r.num => r.current <= r.num
    BY RacpFields
  <2> QED
    BY <2>1, FlagReady
<1>4. r.current <= r.num => Ready(second, A)
  <2>1. 2 \in {1, 2} /\ (2 = 1 => r.current < r.num)
    OBVIOUS
  <2> QED
    BY <2>1, FlagReady, Zenon
<1> HIDE DEF record, first, second
<1>6. ASSUME r.current < r.num, NEW o \in Notify(r, index, 1, "measurement")
      PROVE  FitsOrFails(o, A)
  <2>1. CASE o \in NotSent(first, FALSE)
    BY <2>1, FailureFits, Zenon
  <2>2. CASE o \in Sent(first, Measurement(record))
    BY <1>1, <1>3, <1>6, <2>2, PacketFits, Zenon
  <2> QED
    BY <1>2, <1>6, <2>1, <2>2, Zenon
<1>7. ASSUME r.current <= r.num, NEW o \in Notify(r, index, 2, "context")
      PROVE  FitsOrFails(o, A)
  <2>1. CASE o \in NotSent(second, FALSE)
    BY <2>1, FailureFits, Zenon
  <2>2. CASE o \in Sent(second, Context(record))
    BY <1>1, <1>4, <1>7, <2>2, PacketFits, Zenon
  <2> QED
    BY <1>2, <1>7, <2>1, <2>2, Zenon
<1> QED
  BY <1>6, <1>7, Zenon

(* A report that goes on, or begins with the send flag cleared.            *)
LEMMA ContinueFits ==
  ASSUME NEW r \in Racp, NEW A,
         r.op_code = "REPORT_RECS", "REPORT_RECS" \in A, r.abort_flag = FALSE,
         r.abort_by_app_flag = FALSE, r.send_data_flag \in {0, 1, 2}, r.current <= r.num,
         r.send_data_flag = 1 => r.current < r.num,
         NEW o \in Continue(r)
  PROVE  FitsOrFails(o, A)
<1> DEFINE s == IF r.send_data_flag = 1 THEN [r EXCEPT !.current = @ + 1] ELSE r
<1>1. /\ s \in Racp /\ s.op_code = "REPORT_RECS" /\ s.abort_flag = FALSE
      /\ s.abort_by_app_flag = FALSE /\ s.current <= s.num
  <2>1. CASE r.send_data_flag = 1
    <3>1. /\ s.op_code = r.op_code /\ s.num = r.num /\ s.abort_flag = r.abort_flag
          /\ s.abort_by_app_flag = r.abort_by_app_flag /\ s.current = r.current + 1
      BY <2>1 DEF Racp
    <3>2. r.current + 1 \in 0 .. 255 /\ r.current + 1 <= r.num
      BY <2>1, RacpFields
    <3>3. s \in Racp
      BY <2>1, <3>2, Zenon DEF Racp
    <3> QED
      BY <3>1, <3>2, <3>3
  <2>2. CASE r.send_data_flag # 1
    BY <2>2
  <2> QED
    BY <2>1, <2>2
<1>2. CASE r.send_data_flag = 1 /\ Reported(r).ctxt_info_follows
  <2>1. s = [r EXCEPT !.current = @ + 1]
    BY <1>2
  <2>2. o \in Notify(s, r.offset + r.current, 2, "context")
    BY <1>2, <2>1, Zenon DEF Continue
  <2> HIDE DEF s
  <2> QED
    BY <1>1, <2>2, NotifyFits
<1>3. CASE ~(r.send_data_flag = 1 /\ Reported(r).ctxt_info_follows)
  <2>1. o \in IF s.current < s.num THEN Notify(s, s.offset + s.current, 1, "measurement")
              ELSE IF r.send_data_flag # 3 THEN gls_racp_response(s, "SUCCESS")
              ELSE NotSent(Cleared, TRUE)
    BY <1>3, Zenon DEF Continue
  <2>2. r.send_data_flag # 3
    OBVIOUS
  <2> HIDE DEF s
  <2>3. CASE s.current < s.num
    BY <1>1, <2>1, <2>3, NotifyFits
  <2>4. CASE ~(s.current < s.num)
    <3>1. o \in gls_racp_response(s, "SUCCESS")
      BY <2>1, <2>2, <2>4
    <3>2. s.num <= s.current
      BY <1>1, <2>4, RacpFields
    <3> QED
      BY <1>1, <3>1, <3>2, ResponseFits
  <2> QED
    BY <2>3, <2>4
<1> QED
  BY <1>2, <1>3

(* A report that is under way or begins, aborts included.                  *)
LEMMA TaskFits ==
  ASSUME NEW r \in Racp, NEW A,
         r.op_code = "REPORT_RECS", "REPORT_RECS" \in A, r.abort_flag = TRUE => "ABORT_OPERATION" \in A,
         r.send_data_flag \in {0, 1, 2}, r.current <= r.num, r.send_data_flag = 1 => r.current < r.num,
         NEW o \in gls_report_records_task(r)
  PROVE  FitsOrFails(o, A)
<1>1. r.abort_flag \in BOOLEAN /\ r.abort_by_app_flag \in BOOLEAN
  BY Zenon DEF Racp
<1>2. CASE r.abort_flag = TRUE
  <2> DEFINE s == [[Stopped(r) EXCEPT !.abort_flag = FALSE] EXCEPT !.op_code = "ABORT_OPERATION"]
  <2>1. /\ s.op_code = "ABORT_OPERATION" /\ s.abort_flag = FALSE /\ s.abort_by_app_flag = FALSE
        /\ s.num = r.num /\ s.current = r.num
    BY DEF Racp, Stopped
  <2>2. s \in Racp
    <3>1. "ABORT_OPERATION" \in OpCode
      BY DEF OpCode
    <3> QED
      BY <3>1, Zenon DEF Racp, Stopped
  <2>3. o \in gls_racp_response(s, "SUCCESS")
    BY <1>2, Zenon DEF gls_report_records_task, gls_abort_success_response
  <2> HIDE DEF s
  <2>4. s.num <= s.current
    BY <2>1, <2>2, RacpFields
  <2>5. s.op_code \in A
    BY <1>2, <2>1
  <2> QED
    BY <2>1, <2>2, <2>3, <2>4, <2>5, ResponseFits, Zenon
<1>3. CASE r.abort_flag = FALSE /\ r.abort_by_app_flag = TRUE
  <2> DEFINE s == Stopped(r)
  <2>1. /\ s.op_code = r.op_code /\ s.abort_flag = r.abort_flag /\ s.abort_by_app_flag = FALSE
        /\ s.num = r.num /\ s.current = r.num
    BY DEF Racp, Stopped
  <2>2. s \in Racp
    BY Zenon DEF Racp, Stopped
  <2>3. o \in gls_racp_response(s, "PROC_NOT_COMPLETED")
    BY <1>3 DEF gls_report_records_task
  <2> HIDE DEF s
  <2>4. s.num <= s.current
    BY <2>1, <2>2, RacpFields
  <2>5. s.op_code \in A /\ s.abort_flag = FALSE
    BY <1>3, <2>1
  <2> QED
    BY <2>1, <2>2, <2>3, <2>4, <2>5, ResponseFits, Zenon
<1>4. CASE r.abort_flag = FALSE /\ r.abort_by_app_flag = FALSE
  <2>1. o \in Continue(r)
    BY <1>4 DEF gls_report_records_task
  <2> QED
    BY <1>4, <2>1, ContinueFits
<1> QED
  BY <1>1, <1>2, <1>3, <1>4

(* The packet that went out was the last one of an answer.                 *)
LEMMA EndFits ==
  ASSUME NEW r \in Racp, NEW A, r.abort_flag = FALSE, r.abort_by_app_flag = FALSE,
         r.send_data_flag = 3, r.num <= r.current, NEW o \in OrClear(gls_report_records_task(r))
  PROVE  Fits(o, A)
<1>1. gls_report_records_task(r) = Continue(r)
  BY DEF gls_report_records_task
<1>2. Continue(r) = NotSent(Cleared, TRUE)
  <2>1. ~(r.current < r.num)
    BY RacpFields
  <2>2. r.send_data_flag # 1
    OBVIOUS
  <2> QED
    BY <2>1, <2>2, Zenon DEF Continue
<1>3. PICK p \in NotSent(Cleared, TRUE) : o = IF p.ok THEN p ELSE [p EXCEPT !.racp = Cleared]
  BY <1>1, <1>2, Zenon DEF OrClear
<1>4. p = [racp |-> Cleared, packet |-> None, ok |-> TRUE, refused |-> FALSE]
  BY DEF NotSent
<1>5. o.racp = Cleared /\ o.packet = None
  BY <1>3, <1>4
<1> QED
  BY <1>5, ClearedFits DEF Fits, Wire

-----------------------------------------------------------------------------
(* The requests.                                                           *)

LEMMA RequestType ==
  ASSUME NEW q \in Request
  PROVE  q.op_code \in Operations /\ q.x \in Int /\ q.y \in Int
<1>1. PICK c \in Operations, o \in {"NULL", "ALL_RECS", "LT_EQ", "GT_EQ", "RANGE", "FIRST", "LAST", "OTHER"} :
        q \in Operand(c, o)
  BY DEF Request
<1> DEFINE p(type, x, y, bare) ==
             [op_code |-> c, op |-> o, type |-> type, x |-> x, y |-> y, bare |-> bare]
<1>2. \E type, bare : \E x, y \in Int : q = p(type, x, y, bare)
  <2>1. /\ \A x \in 0 .. MaxRecords : x \in Int
        /\ \A x \in 0 .. MaxTime : x \in Int
        /\ 0 \in Int
    BY DatabaseAssumption, GlsAssumption, WordSizeType DEF DatabaseAssumption, GlsAssumption
  <2>2. CASE o \in {"ALL_RECS", "FIRST", "LAST"}
    BY <1>1, <2>2, <2>1 DEF Operand
  <2>3. CASE o \in {"LT_EQ", "GT_EQ"}
    BY <1>1, <2>3, <2>1 DEF Operand
  <2>4. CASE o = "RANGE"
    BY <1>1, <2>4, <2>1 DEF Operand
  <2>5. CASE o \in {"NULL", "OTHER"}
    BY <1>1, <2>5, <2>1 DEF Operand
  <2> QED
    BY <2>2, <2>3, <2>4, <2>5
<1> QED
  BY <1>2

(* A control point that took up a request, and has not answered yet.       *)
LEMMA TakenUp ==
  ASSUME NEW code \in OpCode, NEW r, r = [Cleared EXCEPT !.op_code = code]
  PROVE  /\ r \in Racp /\ r.op_code = code /\ r.num <= r.current /\ r.send_data_flag = 0
         /\ r.abort_flag = FALSE /\ r.abort_by_app_flag = FALSE
<1>1. r \in Racp
  BY ClearedFits, Zenon DEF Racp
<1>2. /\ r.op_code = code /\ r.num = 0 /\ r.current = 0 /\ r.send_data_flag = 0
      /\ r.abort_flag = FALSE /\ r.abort_by_app_flag = FALSE
  BY DEF Cleared
<1> QED
  BY <1>1, <1>2

(* The three places where a report starts.                                 *)
LEMMA Changed ==
  /\ \A r \in Racp, p \in Position : [r EXCEPT !.offset = p] \in Racp
  /\ \A r \in Racp, n \in 0 .. 255 : [r EXCEPT !.num = n] \in Racp
  /\ \A r \in Racp, n \in 0 .. 255 : [r EXCEPT !.current = n] \in Racp
<1>1. \A r \in Racp, p \in Position : [r EXCEPT !.offset = p] \in Racp
  BY Zenon DEF Racp
<1>2. \A r \in Racp, n \in 0 .. 255 : [r EXCEPT !.num = n] \in Racp
  BY Zenon DEF Racp
<1>3. \A r \in Racp, n \in 0 .. 255 : [r EXCEPT !.current = n] \in Racp
  BY Zenon DEF Racp
<1> QED
  BY <1>1, <1>2, <1>3

LEMMA ReportFits ==
  ASSUME Counted, NEW q, q.x \in Int, q.y \in Int, ~Gap(q), NEW r, NEW A,
         r = [Cleared EXCEPT !.op_code = "REPORT_RECS"], "REPORT_RECS" \in A,
         NEW o \in gls_report_records(r, q)
  PROVE  Fits(o, A)
<1>1. "REPORT_RECS" \in OpCode
  BY DEF OpCode
<1>2. /\ r \in Racp /\ r.op_code = "REPORT_RECS" /\ r.num <= r.current
      /\ r.send_data_flag = 0 /\ r.abort_flag = FALSE /\ r.abort_by_app_flag = FALSE
  BY <1>1, TakenUp, Zenon
<1> DEFINE f == gls_find_records(db, q)
           s == [r EXCEPT !.offset = (f.find1 - db.head + SIZE) % SIZE, !.num = f.num, !.current = 0]
<1>3. ASSUME NEW code, o \in gls_racp_response(r, code)
      PROVE  Fits(o, A)
  BY <1>2, <1>3, ResponseFits, Zenon
<1>4. CASE gls_racp_check(q) # "SUCCESS" \/ f.num = 0
  BY <1>3, <1>4 DEF gls_report_records
<1>5. CASE gls_racp_check(q) = "SUCCESS" /\ f.num # 0
  <2>1. o \in OrClear(gls_report_records_task(s))
    BY <1>5, Zenon DEF gls_report_records
  <2>2. f.num \in 0 .. Used(db) /\ f.find1 \in 0 .. SIZE - 1
    BY <1>5, Found
  <2>3. db.head \in 0 .. SIZE - 1 /\ Used(db) \in 0 .. SIZE - 1
    BY Places DEF Counted
  <2> HIDE DEF f
  <2>4. f.num \in 0 .. 255 /\ 0 < f.num /\ 0 \in 0 .. 255
    <3>1. f.num \in 0 .. SIZE - 1
      BY <2>2, <2>3, Size
    <3>2. 0 < f.num
      BY <1>5, <3>1, Size
    <3> QED
      BY <3>1, <3>2, Byte, Size
  <2>5. (f.find1 - db.head + SIZE) % SIZE \in Position
    BY <2>2, <2>3, RoundType, Size
  <2>6. s \in Racp
    <3> DEFINE n == f.num
               p == (f.find1 - db.head + SIZE) % SIZE
    <3>1. n \in 0 .. 255 /\ 0 \in 0 .. 255 /\ p \in Position
      BY <2>4, <2>5
    <3>2. s = [[[r EXCEPT !.offset = p] EXCEPT !.num = n] EXCEPT !.current = 0]
      OBVIOUS
    <3> HIDE DEF n, p, s
    <3>3. [r EXCEPT !.offset = p] \in Racp
      BY <1>2, <3>1, Changed
    <3>4. [[r EXCEPT !.offset = p] EXCEPT !.num = n] \in Racp
      BY <3>1, <3>3, Changed
    <3> QED
      BY <3>1, <3>2, <3>4, Changed
  <2>7. /\ s.op_code = r.op_code /\ s.send_data_flag = r.send_data_flag /\ s.abort_flag = r.abort_flag
        /\ s.current = 0 /\ s.num = f.num
    BY <1>2 DEF Racp
  <2> HIDE DEF s
  <2>8. /\ s.op_code = "REPORT_RECS" /\ (s.abort_flag = TRUE => "ABORT_OPERATION" \in A)
        /\ s.send_data_flag \in {0, 1, 2} /\ s.current <= s.num
        /\ s.send_data_flag = 1 => s.current < s.num
    BY <1>2, <2>4, <2>7
  <2>9. \A p \in gls_report_records_task(s) : FitsOrFails(p, A)
    BY <2>6, <2>8, TaskFits, Zenon
  <2> QED
    BY <2>1, <2>9, ClearFits, Zenon
<1> QED
  BY <1>4, <1>5

(* The outcome of every request fits what the client then waits for.       *)
LEMMA HandledFits ==
  ASSUME Counted, NEW q \in Request, ~Gap(q), ~Outside(q), racp = Cleared,
         NEW o \in Handled(q)
  PROVE  Fits(o, {q.op_code})
<1> DEFINE A == {q.op_code}
           r == [racp EXCEPT !.op_code = q.op_code]
<1>1. q.op_code \in Operations /\ q.x \in Int /\ q.y \in Int
  BY RequestType
<1>2. q.op_code \in {"REPORT_RECS", "DELETE_RECS", "REPORT_NBR_OF_RECS", "OTHER"}
  BY <1>1, GlsAssumption DEF GlsAssumption
<1>3. /\ r \in Racp /\ r.op_code = q.op_code /\ r.num <= r.current
      /\ r.abort_flag = FALSE /\ r.abort_by_app_flag = FALSE
  <2>1. q.op_code \in OpCode
    BY <1>2 DEF OpCode
  <2> QED
    BY <2>1, TakenUp, Zenon
<1>4. r.op_code \in A
  BY <1>3
<1> SUFFICES Fits(o, A)
  OBVIOUS
<1>5. CASE q.op_code = "REPORT_RECS"
  <2>1. r = [Cleared EXCEPT !.op_code = "REPORT_RECS"]
    BY <1>5
  <2>2. o \in gls_report_records(r, q)
    BY <1>5 DEF Handled
  <2>3. "REPORT_RECS" \in A
    BY <1>5
  <2> HIDE DEF r, A
  <2> QED
    BY <1>1, <2>1, <2>2, <2>3, ReportFits, Zenon
<1>6. q.op_code \in A
  OBVIOUS
<1> HIDE DEF r, A
<1>7. ASSUME NEW code, o \in gls_racp_response(r, code)
      PROVE  Fits(o, A)
  BY <1>3, <1>4, <1>7, ResponseFits, Zenon
<1>8. CASE q.op_code = "REPORT_NBR_OF_RECS"
  <2>1. o \in gls_report_num_of_records(r, q)
    BY <1>8 DEF Handled, r
  <2>2. CASE gls_racp_check(q) # "SUCCESS"
    BY <1>7, <2>1, <2>2 DEF gls_report_num_of_records
  <2>3. CASE gls_racp_check(q) = "SUCCESS"
    <3>1. o \in gls_racp_num_response(r, gls_find_records(db, q).num)
      BY <2>1, <2>3 DEF gls_report_num_of_records
    <3>2. "REPORT_NBR_OF_RECS" \in A
      BY <1>8, <1>6
    <3> QED
      BY <1>3, <3>1, <3>2, NumberFits, Zenon
  <2> QED
    BY <2>2, <2>3
<1>9. CASE q.op_code = "DELETE_RECS"
  <2>1. o \in gls_delete_records(r, q)
    BY <1>9 DEF Handled, r
  <2> DEFINE code == IF gls_racp_check(q) # "SUCCESS" THEN gls_racp_check(q)
                     ELSE IF Deletes(q) THEN "SUCCESS" ELSE "NO_RECS_FOUND"
  <2>2. o \in UNION {gls_racp_response([r EXCEPT !.op_code = c], code) : c \in {r.op_code}}
    BY <2>1, Zenon DEF gls_delete_records
  <2>3. [r EXCEPT !.op_code = r.op_code] = r
    BY <1>3 DEF Racp
  <2> HIDE DEF code
  <2>4. o \in gls_racp_response(r, code)
    BY <2>2, <2>3
  <2> QED
    BY <1>7, <2>4
<1>10. CASE q.op_code = "OTHER"
  <2>1. o \in gls_racp_response(r, "OPCODE_NOT_SUPPORTED")
    BY <1>10 DEF Handled, r
  <2> QED
    BY <1>7, <2>1
<1> QED
  BY <1>2, <1>5, <1>8, <1>9, <1>10

-----------------------------------------------------------------------------
(* The invariant.                                                          *)

Counters ==
  /\ refusals \in 0 .. MaxDisruptions /\ losses \in 0 .. MaxDisruptions
  /\ changes \in 0 .. MaxDisruptions
Bounds ==
  /\ p_new_record \in Position /\ drafting \in BOOLEAN
  /\ enabled \subseteq Characteristic /\ asked \subseteq OpCode
  /\ requests \in 0 .. MaxRequests /\ Counters
GlsInv == Counted /\ Bounds /\ Control(racp, air, asked, refusals)

LEMMA InitInv == Init => GlsInv
<1> SUFFICES ASSUME Init PROVE GlsInv
  OBVIOUS
<1>1. Counted
  BY InitCounted DEF Init, Counted, CountedIn
<1>2. Control(racp, air, asked, refusals)
  BY ClearedFits, Zenon DEF Init
<1>3. Bounds
  <2>1. p_new_record \in Position /\ drafting \in BOOLEAN /\ asked \subseteq OpCode
    <3>1. p_new_record = 0 /\ drafting = FALSE /\ asked = {}
      BY DEF Init
    <3>2. 0 \in Position /\ FALSE \in BOOLEAN /\ {} \subseteq OpCode
      BY Size DEF Position
    <3> QED
      BY <3>1, <3>2, Zenon
  <2>2. enabled \subseteq Characteristic
    BY DEF Init
  <2>3. requests \in 0 .. MaxRequests /\ Counters
    BY GlsAssumption DEF Init, Counters, GlsAssumption
  <2> QED
    BY <2>1, <2>2, <2>3 DEF Bounds
<1> QED
  BY <1>1, <1>2, <1>3 DEF GlsInv

(* More refusals, or more that the client waits for, disturb nothing.      *)
LEMMA ControlGrows ==
  ASSUME NEW r, NEW w, NEW A, NEW B, A \subseteq B, NEW n \in Nat, NEW m \in Nat, n <= m,
         Control(r, w, A, n)
  PROVE  Control(r, w, B, m)
  BY DEF Control, Idle, Reporting, AnswerGiven, Answered

(* What becomes of the control point and the packets when an outcome that  *)
(* fits is handed to the stack and no packet was left under way.           *)
LEMMA HandFits ==
  ASSUME NEW o, Hand(o), Fits(o, asked'), Counters, air' = Wire(o)
  PROVE  Control(racp', air', asked', refusals') /\ refusals' \in 0 .. MaxDisruptions
<1>1. refusals' = refusals + Refusal(o) /\ racp' = o.racp
  BY DEF Hand, Refusal
<1>2. Refusal(o) \in Nat /\ refusals' \in Nat /\ Refusal(o) <= refusals'
  BY <1>1 DEF Refusal, Counters
<1>3. refusals' \in 0 .. MaxDisruptions
  BY <1>1, GlsAssumption DEF Hand, Disruptions, Counters, Refusal, GlsAssumption
<1>4. Control(racp', air', asked', Refusal(o))
  BY <1>1 DEF Fits
<1> QED
  BY <1>2, <1>3, <1>4, ControlGrows

LEMMA WriteRequestInv ==
  ASSUME GlsInv, Disciplined, NEW q \in Request, WriteRequest(q)
  PROVE  GlsInv'
<1>1. ~Gap(q) /\ ~Outside(q)
  BY DEF WriteRequest, Allowed, Disciplined
<1>2. q.op_code \in Operations /\ q.x \in Int /\ q.y \in Int
  BY RequestType
<1>3. racp = Cleared /\ air = <<>>
  <2>1. racp.op_code = "RESERVED"
    BY DEF WriteRequest, Free
  <2> QED
    BY <2>1 DEF GlsInv, Control, Idle, Reporting, AnswerGiven
<1>4. Counted'
  <2>1. CASE Deletes(q)
    <3>1. db' = DeleteFound(db, q.op, gls_find_records(db, q))
      BY <2>1 DEF WriteRequest, DatabaseAfter
    <3>2. CountedIn(DeleteFound(db, q.op, gls_find_records(db, q)))
      BY <1>1, <1>2, <2>1, DeleteCounted DEF GlsInv, Deletes
    <3> QED
      BY <3>1, <3>2 DEF Counted, CountedIn
  <2>2. CASE ~Deletes(q)
    <3>1. db' = db
      BY <2>2 DEF WriteRequest, DatabaseAfter
    <3> QED
      BY <3>1 DEF GlsInv, Counted, Used
  <2> QED
    BY <2>1, <2>2
<1>5. PICK o \in Handled(q) : Hand(o) /\ air' = IF o.packet = None THEN air ELSE Append(air, o.packet)
  BY DEF WriteRequest
<1>6. air' = Wire(o)
  BY <1>3, <1>5 DEF Wire
<1>7. asked' = {q.op_code} /\ Counters
  BY DEF WriteRequest, GlsInv, Bounds
<1>8. Fits(o, asked')
  BY <1>1, <1>3, <1>5, <1>7, HandledFits, Zenon DEF GlsInv
<1>9. Control(racp', air', asked', refusals') /\ refusals' \in 0 .. MaxDisruptions
  BY <1>5, <1>6, <1>7, <1>8, HandFits, Zenon
<1>10. Bounds'
  <2>1. asked' \subseteq OpCode
    BY <1>2, <1>7, GlsAssumption DEF GlsAssumption, OpCode
  <2>2. requests' \in 0 .. MaxRequests
    BY GlsAssumption DEF GlsInv, Bounds, WriteRequest, GlsAssumption
  <2> QED
    BY <1>9, <2>1, <2>2 DEF GlsInv, Bounds, Counters, WriteRequest
<1> QED
  BY <1>4, <1>9, <1>10 DEF GlsInv

LEMMA WriteAbortInv ==
  ASSUME GlsInv, Disciplined, WriteAbort
  PROVE  GlsInv'
<1>1. Counted'
  BY DEF GlsInv, Counted, Used, WriteAbort
<1>2. asked' = asked \cup {"ABORT_OPERATION"} /\ "ABORT_OPERATION" \in asked' /\ asked \subseteq asked'
  BY DEF WriteAbort
<1>3. ASSUME UnderWay PROVE Control(racp', air', asked', refusals')
  <2>1. Reporting(racp, air, asked)
    BY <1>3 DEF GlsInv, Control, Idle, AnswerGiven, UnderWay, Cleared
  <2>2. racp' = [racp EXCEPT !.abort_flag = TRUE] /\ air' = air /\ refusals' = refusals
    BY <1>3 DEF WriteAbort
  <2>3. racp \in Racp
    BY DEF GlsInv, Control
  <2>4. racp' \in Racp
    BY <2>2, <2>3, Zenon DEF Racp
  <2>5. /\ racp'.op_code = racp.op_code /\ racp'.send_data_flag = racp.send_data_flag
        /\ racp'.current = racp.current /\ racp'.num = racp.num
    BY <2>2, <2>3 DEF Racp
  <2>6. Reporting(racp', air', asked')
    BY <1>2, <2>1, <2>2, <2>5 DEF Reporting
  <2> QED
    BY <2>2, <2>4, <2>6 DEF Control
<1>4. ASSUME ~UnderWay PROVE Control(racp', air', asked', refusals')
  <2>1. /\ air = <<>> /\ racp \in Racp /\ racp.num <= racp.current
        /\ racp.abort_flag = FALSE /\ racp.abort_by_app_flag = FALSE
    <3>1. CASE Idle(racp, air)
      BY <3>1 DEF Idle, Cleared, GlsInv, Control
    <3>2. CASE AnswerGiven(racp, air, asked, refusals)
      <4>1. ~Answering
        BY DEF WriteAbort, Allowed, Disciplined
      <4>2. ASSUME NEW packet, air = <<packet>>, Answered(packet, asked) PROVE FALSE
        <5>1. 1 \in DOMAIN air /\ air[1] = packet
          BY <4>2
        <5>2. packet.kind \in {"response", "number"}
          BY <4>2 DEF Answered
        <5> QED
          BY <4>1, <5>1, <5>2 DEF Answering
      <4> QED
        BY <3>2, <4>2 DEF AnswerGiven, GlsInv, Control
    <3>3. ~Reporting(racp, air, asked)
      BY <1>4 DEF Reporting, UnderWay
    <3> QED
      BY <3>1, <3>2, <3>3 DEF GlsInv, Control
  <2>2. PICK o \in gls_abort_success_response(racp) :
          Hand(o) /\ air' = IF o.packet = None THEN air ELSE Append(air, o.packet)
    BY <1>4 DEF WriteAbort
  <2>3. air' = Wire(o)
    BY <2>1, <2>2 DEF Wire
  <2> DEFINE s == [racp EXCEPT !.op_code = "ABORT_OPERATION"]
  <2>4. s \in Racp
    <3>1. "ABORT_OPERATION" \in OpCode
      BY DEF OpCode
    <3> QED
      BY <2>1, <3>1, Zenon DEF Racp
  <2>5. /\ s.op_code = "ABORT_OPERATION" /\ s.num <= s.current
        /\ s.abort_flag = FALSE /\ s.abort_by_app_flag = FALSE
    BY <2>1 DEF Racp
  <2>6. o \in gls_racp_response(s, "SUCCESS")
    BY <2>2 DEF gls_abort_success_response
  <2> HIDE DEF s
  <2>7. s.op_code \in asked'
    BY <1>2, <2>5
  <2>8. Fits(o, asked')
    BY <2>4, <2>5, <2>6, <2>7, ResponseFits, Zenon
  <2>9. Counters
    BY DEF GlsInv, Bounds
  <2> QED
    BY <2>2, <2>3, <2>8, <2>9, HandFits, Zenon
<1>5. refusals' \in 0 .. MaxDisruptions
  BY GlsAssumption DEF WriteAbort, Hand, Disruptions, GlsInv, Bounds, Counters, GlsAssumption
<1>6. Bounds'
  <2>1. asked' \subseteq OpCode
    BY <1>2 DEF GlsInv, Bounds, OpCode
  <2>2. requests' \in 0 .. MaxRequests
    BY GlsAssumption DEF GlsInv, Bounds, WriteAbort, GlsAssumption
  <2> QED
    BY <1>5, <2>1, <2>2 DEF GlsInv, Bounds, Counters, WriteAbort
<1> QED
  BY <1>1, <1>3, <1>4, <1>6 DEF GlsInv

LEMMA ApplicationInv ==
  ASSUME GlsInv,
         \/ \E sample \in Samples : Prepare(sample)
         \/ Push \/ gls_abort_racp_procedure
  PROVE  GlsInv'
<1>1. ASSUME NEW sample \in Samples, Prepare(sample)
      PROVE  GlsInv'
  <2>1. sample.time \in 0 .. MaxTime /\ sample.ctxt \in BOOLEAN
    BY GlsAssumption, Zenon DEF GlsAssumption
  <2>2. CountedIn(gls_prepare_new_record(db, sample.time, sample.ctxt))
    BY <2>1, PrepareCounted DEF GlsInv, Counted, CountedIn
  <2>3. Counted'
    BY <1>1, <2>2 DEF Prepare, Counted, CountedIn
  <2>4. p_new_record' \in Position /\ drafting' \in BOOLEAN
    BY <1>1, Places DEF GlsInv, Counted, Prepare, Position
  <2> QED
    BY <1>1, <2>3, <2>4 DEF GlsInv, Bounds, Counters, Prepare, clientVars
<1>2. CASE Push
  <2>1. CountedIn(gls_push_new_record(db))
    BY PushCounted DEF GlsInv, Counted, CountedIn
  <2>2. Counted'
    BY <1>2, <2>1 DEF Push, Counted, CountedIn
  <2> QED
    BY <1>2, <2>2 DEF GlsInv, Bounds, Counters, Push, clientVars
<1>3. CASE gls_abort_racp_procedure
  <2>1. Reporting(racp, air, asked)
    BY <1>3 DEF GlsInv, Control, Idle, AnswerGiven, gls_abort_racp_procedure, UnderWay, Cleared
  <2>2. /\ racp' = [racp EXCEPT !.abort_by_app_flag = TRUE]
        /\ air' = air /\ asked' = asked /\ refusals' = refusals /\ racp \in Racp
    BY <1>3 DEF gls_abort_racp_procedure, clientVars, GlsInv, Control
  <2>3. racp' \in Racp
    BY <2>2, Zenon DEF Racp
  <2>4. /\ racp'.op_code = racp.op_code /\ racp'.send_data_flag = racp.send_data_flag
        /\ racp'.current = racp.current /\ racp'.num = racp.num
        /\ racp'.abort_flag = racp.abort_flag
    BY <2>2 DEF Racp
  <2>5. Control(racp', air', asked', refusals')
    BY <2>1, <2>2, <2>3, <2>4 DEF Control, Reporting
  <2> QED
    BY <1>3, <2>5 DEF GlsInv, Bounds, Counters, Counted, Used, gls_abort_racp_procedure, clientVars
<1> QED
  BY <1>1, <1>2, <1>3

(* What has gone out was a packet of a report, or an answer.               *)
LEMMA SendCompleteInv ==
  ASSUME GlsInv, SendComplete
  PROVE  GlsInv'
<1>1. PICK o \in OrClear(gls_report_records_task(racp)) :
        Hand(o) /\ air' = IF o.packet = None THEN Tail(air) ELSE Append(Tail(air), o.packet)
  BY DEF SendComplete
<1>2. air # <<>> /\ asked' = AskedAfter(Head(air)) /\ racp \in Racp
  BY DEF SendComplete, GlsInv, Control
<1>3. ASSUME Reporting(racp, air, asked)
      PROVE  Fits(o, asked') /\ Tail(air) = <<>>
  <2>1. PICK packet : air = <<packet>> /\ Data(packet)
    BY <1>3 DEF Reporting
  <2>2. Head(air) = packet /\ Tail(air) = <<>>
    BY <2>1
  <2>3. asked' = asked
    BY <1>2, <2>1, <2>2 DEF AskedAfter, Data
  <2>4. \A p \in gls_report_records_task(racp) : FitsOrFails(p, asked')
    <3>1. racp.send_data_flag \in {0, 1, 2}
      BY <1>3 DEF Reporting
    <3> QED
      BY <1>2, <1>3, <2>3, <3>1, TaskFits DEF Reporting
  <2>5. Fits(o, asked')
    BY <1>1, <2>4, ClearFits, Zenon
  <2> QED
    BY <2>2, <2>5
<1>4. ASSUME AnswerGiven(racp, air, asked, refusals)
      PROVE  Fits(o, asked') /\ Tail(air) = <<>>
  <2>1. Tail(air) = <<>>
    <3>1. PICK packet : air = <<packet>>
      BY <1>2, <1>4 DEF AnswerGiven
    <3> QED
      BY <3>1
  <2>2. /\ racp.abort_flag = FALSE /\ racp.abort_by_app_flag = FALSE
        /\ racp.send_data_flag = 3 /\ racp.num <= racp.current
    BY <1>4 DEF AnswerGiven
  <2>3. Fits(o, asked')
    BY <1>1, <1>2, <2>2, EndFits, Zenon
  <2> QED
    BY <2>1, <2>3
<1>5. Fits(o, asked') /\ Tail(air) = <<>>
  BY <1>2, <1>3, <1>4 DEF GlsInv, Control, Idle
<1>6. air' = Wire(o)
  <2>1. Append(<<>>, o.packet) = <<o.packet>>
    OBVIOUS
  <2> QED
    BY <1>1, <1>5, <2>1, Zenon DEF Wire
<1>7. Counters
  BY DEF GlsInv, Bounds
<1>8. Control(racp', air', asked', refusals') /\ refusals' \in 0 .. MaxDisruptions
  BY <1>1, <1>5, <1>6, <1>7, HandFits, Zenon
<1>9. Counted'
  BY DEF SendComplete, GlsInv, Counted, Used
<1>10. Bounds'
  <2>1. asked' \subseteq OpCode
    BY <1>2 DEF AskedAfter, GlsInv, Bounds
  <2> QED
    BY <1>8, <2>1 DEF SendComplete, GlsInv, Bounds, Counters
<1> QED
  BY <1>8, <1>9, <1>10 DEF GlsInv

LEMMA LinkLostInv ==
  ASSUME GlsInv, LinkLost
  PROVE  GlsInv'
<1>1. racp' = Cleared /\ air' = <<>> /\ asked' = {}
  BY DEF LinkLost
<1>2. Control(racp', air', asked', refusals')
  BY <1>1, ClearedFits, Zenon
<1>3. Bounds'
  BY GlsAssumption DEF LinkLost, Disruptions, GlsInv, Bounds, Counters, GlsAssumption
<1>4. Counted'
  BY DEF LinkLost, GlsInv, Counted, Used
<1> QED
  BY <1>2, <1>3, <1>4 DEF GlsInv

LEMMA CccdInv ==
  ASSUME GlsInv, NEW c \in Toggled, gls_cccd_update_cb(c)
  PROVE  GlsInv'
<1>1. enabled' \subseteq Characteristic /\ changes' \in 0 .. MaxDisruptions
  BY GlsAssumption DEF gls_cccd_update_cb, Disruptions, GlsInv, Bounds, Counters, Characteristic, GlsAssumption
<1> QED
  BY <1>1 DEF gls_cccd_update_cb, GlsInv, Bounds, Counters, Counted, Used, clientVars

(* The invariant holds in every state of a disciplined environment.        *)
THEOREM Invariant == Disciplined => (Spec => []GlsInv)
<1> SUFFICES ASSUME Disciplined PROVE Spec => []GlsInv
  OBVIOUS
<1>1. GlsInv /\ [Next]_vars => GlsInv'
  <2> SUFFICES ASSUME GlsInv, [Next]_vars PROVE GlsInv'
    OBVIOUS
  <2>1. CASE \E q \in Request : WriteRequest(q)
    BY <2>1, WriteRequestInv
  <2>2. CASE WriteAbort
    BY <2>2, WriteAbortInv
  <2>3. CASE \E c \in Toggled : gls_cccd_update_cb(c)
    BY <2>3, CccdInv
  <2>4. CASE (\E sample \in Samples : Prepare(sample)) \/ Push \/ gls_abort_racp_procedure
    BY <2>4, ApplicationInv
  <2>5. CASE SendComplete
    BY <2>5, SendCompleteInv
  <2>6. CASE LinkLost
    BY <2>6, LinkLostInv
  <2>7. CASE UNCHANGED vars
    BY <2>7 DEF vars, clientVars, GlsInv, Counted, Used, Bounds, Counters
  <2> QED
    BY <2>1, <2>2, <2>3, <2>4, <2>5, <2>6, <2>7 DEF Next
<1> QED
  BY <1>1, InitInv, PTL DEF Spec

(* The type invariant, for every size of the database and every number of  *)
(* requests.                                                               *)
THEOREM TypeTheorem == Disciplined => (Spec => []TypeOK)
<1> SUFFICES ASSUME Disciplined PROVE Spec => []TypeOK
  OBVIOUS
<1>1. Spec => []GlsInv
  BY Invariant
<1>2. GlsInv => TypeOK
  BY DEF GlsInv, Counted, Bounds, Counters, Control, Racp, TypeOK
<1> QED
  BY <1>1, <1>2, PTL

(* gls.c's count of the records is what lies between head and tail, after  *)
(* every deletion and every push into a full ring.                         *)
THEOREM CountTheorem == Disciplined => (Spec => []CountFollowsRing)
<1> SUFFICES ASSUME Disciplined PROVE Spec => []CountFollowsRing
  OBVIOUS
<1>1. Spec => []GlsInv
  BY Invariant
<1>2. GlsInv => CountFollowsRing
  BY DEF GlsInv, Counted, CountFollowsRing
<1> QED
  BY <1>1, <1>2, PTL

(* The service sends no response that the client does not wait for.        *)
THEOREM ResponseTheorem == Disciplined => (Spec => []ResponsesAreAsked)
<1> SUFFICES ASSUME Disciplined PROVE Spec => []ResponsesAreAsked
  OBVIOUS
<1>1. Spec => []GlsInv
  BY Invariant
<1>2. GlsInv => ResponsesAreAsked
  BY DEF GlsInv, Control, Idle, Reporting, AnswerGiven, Data, Answered, ResponsesAreAsked
<1> QED
  BY <1>1, <1>2, PTL

(* The control point is busy exactly while a packet is under way, as long  *)
(* as the stack has refused none.                                          *)
THEOREM BusyTheorem == Disciplined => (Spec => []BusyMeansSending)
<1> SUFFICES ASSUME Disciplined PROVE Spec => []BusyMeansSending
  OBVIOUS
<1>1. Spec => []GlsInv
  BY Invariant
<1>2. GlsInv => BusyMeansSending
  <2> SUFFICES ASSUME GlsInv, refusals = 0
               PROVE  Len(air) <= 1 /\ (racp.op_code # "RESERVED" <=> air # <<>>)
    BY DEF BusyMeansSending
  <2>1. CASE Idle(racp, air)
    BY <2>1 DEF Idle, Cleared
  <2>2. CASE Reporting(racp, air, asked)
    <3>1. racp.op_code = "REPORT_RECS" /\ \E packet : air = <<packet>>
      BY <2>2 DEF Reporting
    <3> QED
      BY <3>1
  <2>3. CASE AnswerGiven(racp, air, asked, refusals)
    <3>1. racp.op_code \in {"RESP_CODE", "NBR_OF_RECS_RESP"} /\ \E packet : air = <<packet>>
      BY <2>3 DEF AnswerGiven
    <3> QED
      BY <3>1
  <2> QED
    BY <2>1, <2>2, <2>3 DEF GlsInv, Control
<1> QED
  BY <1>1, <1>2, PTL
=============================================================================
