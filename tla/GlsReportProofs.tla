---------------------------- MODULE GlsReportProofs ----------------------------
(***************************************************************************)
(* The client of the glucose service hears what its request selected.      *)
(*                                                                         *)
(* The argument has three parts: the records are in the order of their     *)
(* numbers and times, so the search finds exactly the records that a       *)
(* filter selects, and they lie side by side in the ring; the packets due  *)
(* are those of the records found, one record after the other; and a       *)
(* report that is under way is at the packet that follows what was heard.  *)
(***************************************************************************)
EXTENDS GlsProofs, FiniteSetTheorems, SequenceTheorems

(* The environment keeps its place.  A push into a full database moves the *)
(* records under a report, and a deletion between prepare and push leaves  *)
(* the record prepared behind.                                             *)
Strict == Liberties = {}

LEMMA StrictDisciplined == Strict => Disciplined
BY DEF Strict, Disciplined

-----------------------------------------------------------------------------
(* Counting up from 0.                                                     *)

LEMMA CountUp ==
  ASSUME NEW n \in Nat, NEW T \in SUBSET (0 .. n), 0 \in T,
         \A i \in 1 .. n : i - 1 \in T => i \in T
  PROVE  T = 0 .. n
<1> SUFFICES ASSUME T # 0 .. n PROVE FALSE
  OBVIOUS
<1> DEFINE U == {k \in 0 .. n : k \notin T}
<1>1. U \subseteq Nat /\ U # {}
  <2>1. \E k \in 0 .. n : k \notin T
    OBVIOUS
  <2> QED
    BY <2>1
<1>2. PICK k \in U : \A j \in U : ~(j < k)
  BY <1>1, LeastOffset
<1>3. k \in 1 .. n /\ k - 1 \in 0 .. n /\ k - 1 < k
  BY <1>2
<1>4. k - 1 \in T
  BY <1>2, <1>3
<1> QED
  BY <1>2, <1>3, <1>4

-----------------------------------------------------------------------------
(* The packets of a sequence of records.                                   *)

Packet ==
  [kind : {"measurement"}, record : Record] \cup [kind : {"context"}, record : Record]

(* g collects the packets of the first m records of s, those at S only.    *)
Collects(g, s, S, m) ==
  g = [i \in 0 .. m |->
         IF i = 0 THEN <<>> ELSE IF i \notin S THEN g[i - 1] ELSE g[i - 1] \o PacketsOf(s[i])]

(* The function that collects them exists: it is built up to any length.   *)
LEMMA ReportExists ==
  ASSUME NEW s \in Seq(Record), NEW S
  PROVE  \E g : Collects(g, s, S, Len(s))
<1> DEFINE T == {m \in 0 .. Len(s) : \E g : Collects(g, s, S, m)}
<1>1. Len(s) \in Nat
  OBVIOUS
<1>2. 0 \in T
  <2> DEFINE g == [i \in 0 .. 0 |-> <<>>]
  <2>1. Collects(g, s, S, 0)
    BY DEF Collects
  <2> QED
    BY <1>1, <2>1
<1>3. ASSUME NEW m \in 1 .. Len(s), m - 1 \in T PROVE m \in T
  <2>1. PICK g : Collects(g, s, S, m - 1)
    BY <1>3
  <2> DEFINE next == IF m \notin S THEN g[m - 1] ELSE g[m - 1] \o PacketsOf(s[m])
             h == [i \in 0 .. m |-> IF i = m THEN next ELSE g[i]]
  <2>2. /\ m # 0 /\ m - 1 \in 0 .. m /\ m - 1 # m
        /\ \A i \in 0 .. m : i # m => i \in 0 .. m - 1
        /\ \A i \in 0 .. m : i # m /\ i # 0 => i - 1 \in 0 .. m /\ i - 1 # m
    BY <1>1
  <2> HIDE DEF next
  <2>3. \A i \in 0 .. m :
          h[i] = IF i = 0 THEN <<>> ELSE IF i \notin S THEN h[i - 1] ELSE h[i - 1] \o PacketsOf(s[i])
    <3> TAKE i \in 0 .. m
    <3>1. CASE i = m
      <4>1. h[i] = next /\ h[i - 1] = g[m - 1]
        BY <2>2, <3>1
      <4> QED
        BY <2>2, <3>1, <4>1 DEF next
    <3>2. CASE i # m
      <4>1. h[i] = g[i] /\ i \in 0 .. m - 1
        BY <2>2, <3>2
      <4>2. g[i] = IF i = 0 THEN <<>> ELSE IF i \notin S THEN g[i - 1] ELSE g[i - 1] \o PacketsOf(s[i])
        BY <2>1, <4>1 DEF Collects
      <4>3. i # 0 => h[i - 1] = g[i - 1]
        BY <2>2, <3>2
      <4> QED
        BY <4>1, <4>2, <4>3
    <3> QED
      BY <3>1, <3>2
  <2>4. Collects(h, s, S, m)
    BY <2>3 DEF Collects
  <2> QED
    BY <2>4
<1>4. T = 0 .. Len(s)
  <2>1. T \in SUBSET (0 .. Len(s))
    OBVIOUS
  <2> HIDE DEF T
  <2> QED
    BY <1>1, <1>2, <1>3, <2>1, CountUp
<1>5. Len(s) \in T
  BY <1>1, <1>4
<1> QED
  BY <1>5

LEMMA RecordPackets ==
  ASSUME NEW k \in Record
  PROVE  /\ PacketsOf(k) \in Seq(Packet)
         /\ Len(PacketsOf(k)) = IF k.ctxt_info_follows THEN 2 ELSE 1
         /\ PacketsOf(k)[1] = Measurement(k)
         /\ k.ctxt_info_follows => PacketsOf(k)[2] = Context(k)
<1>1. Measurement(k) \in Packet /\ Context(k) \in Packet
  BY DEF Measurement, Context, Packet
<1>2. CASE k.ctxt_info_follows
  <2>1. PacketsOf(k) = <<Measurement(k), Context(k)>>
    BY <1>2 DEF PacketsOf
  <2> QED
    BY <1>1, <1>2, <2>1
<1>3. CASE ~k.ctxt_info_follows
  <2>1. PacketsOf(k) = <<Measurement(k)>>
    BY <1>3 DEF PacketsOf
  <2> QED
    BY <1>1, <1>3, <2>1
<1> QED
  BY <1>2, <1>3

(* The packets that carry a measurement.                                   *)
Measured(D) == {k \in DOMAIN D : D[k].kind = "measurement"}

(* D is made of the packets of K[0], ..., K[n - 1], each at its place.     *)
Layout(D, K, n, at) ==
  /\ D \in Seq(Packet) /\ at \in [0 .. n -> Nat] /\ K \in [0 .. n - 1 -> Record]
  /\ at[0] = 0 /\ at[n] = Len(D)
  /\ \A c \in 0 .. n - 1 :
       /\ at[c + 1] = at[c] + Len(PacketsOf(K[c])) /\ at[c + 1] <= Len(D)
       /\ \A p \in 1 .. Len(PacketsOf(K[c])) : D[at[c] + p] = PacketsOf(K[c])[p]
  /\ Cardinality(Measured(D)) = n

LEMMA Joined ==
  ASSUME NEW D \in Seq(Packet), NEW P \in Seq(Packet)
  PROVE  /\ D \o P \in Seq(Packet) /\ Len(D) \in Nat /\ Len(P) \in Nat
         /\ Len(D \o P) = Len(D) + Len(P)
         /\ \A i \in 1 .. Len(D) : (D \o P)[i] = D[i]
         /\ \A i \in 1 .. Len(P) : (D \o P)[Len(D) + i] = P[i]
<1>1. /\ D \o P \in Seq(Packet) /\ Len(D \o P) = Len(D) + Len(P)
      /\ \A i \in 1 .. Len(D) + Len(P) :
           (D \o P)[i] = IF i <= Len(D) THEN D[i] ELSE P[i - Len(D)]
  BY ConcatProperties
<1> DEFINE E == D \o P
           d == Len(D)
           p == Len(P)
<1>2. d \in Nat /\ p \in Nat
  OBVIOUS
<1>3. \A i \in 1 .. d + p : E[i] = IF i <= d THEN D[i] ELSE P[i - d]
  BY <1>1
<1> HIDE DEF E, d, p
<1>4. \A i \in 1 .. d : i \in 1 .. d + p /\ i <= d
  BY <1>2
<1>5. \A i \in 1 .. p : d + i \in 1 .. d + p /\ ~(d + i <= d) /\ (d + i) - d = i
  BY <1>2
<1>6. \A i \in 1 .. d : E[i] = D[i]
  BY <1>3, <1>4
<1>7. \A i \in 1 .. p : E[d + i] = P[i]
  BY <1>3, <1>5
<1> QED
  BY <1>1, <1>2, <1>6, <1>7 DEF E, d, p

(* One more record adds one measurement.                                   *)
LEMMA MeasuredMore ==
  ASSUME NEW D \in Seq(Packet), NEW k \in Record, IsFiniteSet(Measured(D))
  PROVE  /\ IsFiniteSet(Measured(D \o PacketsOf(k)))
         /\ Cardinality(Measured(D \o PacketsOf(k))) = Cardinality(Measured(D)) + 1
<1> DEFINE P == PacketsOf(k)
           E == D \o P
<1>1. /\ P \in Seq(Packet) /\ Len(P) = IF k.ctxt_info_follows THEN 2 ELSE 1
      /\ P[1].kind = "measurement" /\ (k.ctxt_info_follows => P[2].kind = "context")
  <2>1. Measurement(k).kind = "measurement" /\ Context(k).kind = "context"
    BY DEF Measurement, Context
  <2> QED
    BY <2>1, RecordPackets
<1> HIDE DEF P
<1>2. /\ E \in Seq(Packet) /\ Len(E) = Len(D) + Len(P)
      /\ \A i \in 1 .. Len(D) : E[i] = D[i]
      /\ \A i \in 1 .. Len(P) : E[Len(D) + i] = P[i]
  BY <1>1, Joined
<1>3. Len(D) \in Nat /\ Len(P) \in {1, 2} /\ DOMAIN E = 1 .. Len(E) /\ DOMAIN D = 1 .. Len(D)
  BY <1>1, <1>2
<1> HIDE DEF E
<1>4. \A i \in DOMAIN E :
        i \in 1 .. Len(D) \/ i = Len(D) + 1 \/ (i = Len(D) + 2 /\ k.ctxt_info_follows)
  BY <1>1, <1>2, <1>3
<1>5. /\ Len(D) + 1 \in DOMAIN E /\ E[Len(D) + 1].kind = "measurement"
      /\ Len(D) + 1 \notin Measured(D)
      /\ k.ctxt_info_follows => E[Len(D) + 2].kind # "measurement"
  <2>1. 1 \in 1 .. Len(P) /\ (k.ctxt_info_follows => 2 \in 1 .. Len(P))
    BY <1>1
  <2>2. E[Len(D) + 1] = P[1] /\ (k.ctxt_info_follows => E[Len(D) + 2] = P[2])
    BY <1>2, <2>1
  <2>3. Len(D) + 1 \in DOMAIN E /\ Len(D) + 1 \notin DOMAIN D
    <3> DEFINE d == Len(D)
               p == Len(P)
    <3>1. d \in Nat /\ p \in Nat /\ p >= 1 /\ Len(E) = d + p
      <4>1. d \in Nat
        BY <1>3
      <4>2. p = 1 \/ p = 2
        BY <1>3
      <4>3. Len(E) = d + p
        BY <1>2
      <4> HIDE DEF d, p
      <4> QED
        BY <4>1, <4>2, <4>3
    <3>2. DOMAIN E = 1 .. d + p /\ DOMAIN D = 1 .. d
      BY <1>3, <3>1
    <3> HIDE DEF d, p
    <3>3. d + 1 \in 1 .. d + p /\ d + 1 \notin 1 .. d
      BY <3>1
    <3> QED
      BY <3>2, <3>3 DEF d
  <2>4. E[Len(D) + 1].kind = "measurement"
    BY <1>1, <2>2
  <2>5. k.ctxt_info_follows => E[Len(D) + 2].kind # "measurement"
    BY <1>1, <2>2
  <2> QED
    BY <2>3, <2>4, <2>5 DEF Measured
<1>6. Measured(E) = Measured(D) \cup {Len(D) + 1}
  <2> DEFINE d == Len(D)
  <2>1. \A i \in 1 .. d : i \in DOMAIN E /\ E[i] = D[i]
    <3>1. d \in Nat /\ Len(P) \in Nat /\ Len(E) = d + Len(P) /\ DOMAIN E = 1 .. Len(E)
      BY <1>2, <1>3
    <3>2. \A i \in 1 .. d : i \in DOMAIN E
      BY <3>1
    <3> QED
      BY <3>2, <1>2
  <2>2. ASSUME NEW i \in Measured(E) PROVE i \in Measured(D) \cup {d + 1}
    <3>1. i \in DOMAIN E /\ E[i].kind = "measurement"
      BY DEF Measured
    <3>2. CASE i \in 1 .. d
      <4>1. i \in DOMAIN D /\ D[i] = E[i]
        BY <1>3, <2>1, <3>2
      <4> QED
        BY <3>1, <4>1 DEF Measured
    <3> QED
      BY <1>4, <1>5, <3>1, <3>2
  <2>3. ASSUME NEW i \in Measured(D) PROVE i \in Measured(E)
    <3>1. i \in 1 .. d /\ D[i].kind = "measurement"
      BY <1>3 DEF Measured
    <3>2. i \in DOMAIN E /\ E[i] = D[i]
      BY <2>1, <3>1
    <3> QED
      BY <3>1, <3>2 DEF Measured
  <2>4. d + 1 \in Measured(E)
    BY <1>5 DEF Measured
  <2> HIDE DEF d
  <2>5. Measured(E) = Measured(D) \cup {d + 1}
    BY <2>2, <2>3, <2>4
  <2> QED
    BY <2>5 DEF d
<1> QED
  BY <1>5, <1>6, FS_AddElement DEF E, P

LEMMA Extended ==
  ASSUME NEW x \in Nat, NEW y \in Nat, NEW z \in Nat, x <= y
  PROVE  x <= y + z /\ \A p \in 1 .. x : p \in 1 .. y
OBVIOUS

(* Sequences that grow by the packets of one record after the other.       *)
LEMMA GrowingLayout ==
  ASSUME NEW n \in Nat, NEW G \in [0 .. n -> Seq(Packet)], G[0] = <<>>,
         NEW K \in [0 .. n - 1 -> Record],
         \A c \in 0 .. n - 1 : G[c + 1] = G[c] \o PacketsOf(K[c]),
         NEW at \in [0 .. n -> Nat], \A c \in 0 .. n : at[c] = Len(G[c])
  PROVE  Layout(G[n], K, n, at)
<1>0. \A c \in 0 .. n - 1 : c \in 0 .. n /\ c + 1 \in 0 .. n
  OBVIOUS
<1>1. \A c \in 0 .. n - 1 : /\ c \in 0 .. n /\ c + 1 \in 0 .. n /\ K[c] \in Record
                            /\ G[c] \in Seq(Packet) /\ G[c + 1] \in Seq(Packet)
  <2> TAKE c \in 0 .. n - 1
  <2>1. K[c] \in Record
    OBVIOUS
  <2>2. G[c] \in Seq(Packet)
    BY <1>0
  <2>3. G[c + 1] \in Seq(Packet)
    BY <1>0
  <2> QED
    BY <1>0, <2>1, <2>2, <2>3
<1>2. \A c \in 0 .. n - 1 :
        /\ Len(PacketsOf(K[c])) \in Nat /\ at[c + 1] = at[c] + Len(PacketsOf(K[c]))
        /\ \A p \in 1 .. Len(PacketsOf(K[c])) : G[c + 1][at[c] + p] = PacketsOf(K[c])[p]
        /\ \A p \in 1 .. at[c] : G[c + 1][p] = G[c][p]
  <2> TAKE c \in 0 .. n - 1
  <2> DEFINE P == PacketsOf(K[c])
  <2>1. P \in Seq(Packet) /\ G[c] \in Seq(Packet) /\ at[c] = Len(G[c]) /\ at[c + 1] = Len(G[c + 1])
    BY <1>1, RecordPackets
  <2>2. G[c + 1] = G[c] \o P
    OBVIOUS
  <2> HIDE DEF P
  <2> DEFINE D == G[c]
  <2>21. D \in Seq(Packet) /\ at[c] = Len(D) /\ at[c + 1] = Len(D \o P) /\ G[c + 1] = D \o P
    BY <2>1, <2>2
  <2> HIDE DEF D
  <2>22. /\ Len(P) \in Nat /\ Len(D \o P) = Len(D) + Len(P)
         /\ \A p \in 1 .. Len(P) : (D \o P)[Len(D) + p] = P[p]
         /\ \A p \in 1 .. Len(D) : (D \o P)[p] = D[p]
    BY <2>1, <2>21, Joined
  <2>3. /\ Len(P) \in Nat /\ at[c + 1] = at[c] + Len(P)
        /\ \A p \in 1 .. Len(P) : G[c + 1][at[c] + p] = P[p]
        /\ \A p \in 1 .. at[c] : G[c + 1][p] = D[p]
    BY <2>21, <2>22
  <2> QED
    BY <2>3 DEF D, P
(* Each is a prefix of those that follow. *)
<1>3. \A d \in 0 .. n : \A c \in 0 .. d : at[c] <= at[d] /\ \A p \in 1 .. at[c] : G[d][p] = G[c][p]
  <2> DEFINE T == {d \in 0 .. n : \A c \in 0 .. d :
                     at[c] <= at[d] /\ \A p \in 1 .. at[c] : G[d][p] = G[c][p]}
  <2>1. 0 \in T
    OBVIOUS
  <2>2. ASSUME NEW d \in 1 .. n, d - 1 \in T PROVE d \in T
    <3> SUFFICES ASSUME NEW c \in 0 .. d
                 PROVE  at[c] <= at[d] /\ \A p \in 1 .. at[c] : G[d][p] = G[c][p]
      OBVIOUS
    <3>1. CASE c = d
      BY <3>1
    <3>2. CASE c # d
      <4> DEFINE e == d - 1
      <4>1. e \in 0 .. n - 1 /\ e + 1 = d /\ c \in 0 .. e /\ e \in T /\ c \in 0 .. n /\ e \in 0 .. n
        BY <2>2, <3>2
      <4> HIDE DEF e
      <4>2. at[c] <= at[e] /\ \A p \in 1 .. at[c] : G[e][p] = G[c][p]
        BY <4>1
      <4>3. at[d] = at[e] + Len(PacketsOf(K[e])) /\ Len(PacketsOf(K[e])) \in Nat
            /\ \A p \in 1 .. at[e] : G[d][p] = G[e][p]
        BY <1>2, <4>1
      <4>4. at[c] \in Nat /\ at[e] \in Nat
        BY <4>1
      <4>5. at[c] <= at[d] /\ \A p \in 1 .. at[c] : p \in 1 .. at[e]
        <5> DEFINE x == at[c]
                   y == at[e]
                   z == Len(PacketsOf(K[e]))
        <5>1. x \in Nat /\ y \in Nat /\ z \in Nat /\ x <= y /\ at[d] = y + z
          BY <4>2, <4>3, <4>4
        <5> QED
          BY <5>1, Extended
      <4>6. ASSUME NEW p \in 1 .. at[c] PROVE G[d][p] = G[c][p]
        BY <4>2, <4>3, <4>5
      <4> QED
        BY <4>5, <4>6
    <3> QED
      BY <3>1, <3>2
  <2>3. T \in SUBSET (0 .. n)
    OBVIOUS
  <2> HIDE DEF T
  <2>4. T = 0 .. n
    BY <2>1, <2>2, <2>3, CountUp
  <2> QED
    BY <2>4 DEF T
<1>4. Cardinality(Measured(G[n])) = n
  <2> DEFINE T == {d \in 0 .. n : IsFiniteSet(Measured(G[d])) /\ Cardinality(Measured(G[d])) = d}
  <2>1. 0 \in T
    <3>1. Measured(G[0]) = {}
      BY DEF Measured
    <3>2. IsFiniteSet(Measured(G[0])) /\ Cardinality(Measured(G[0])) = 0
      BY <3>1, FS_EmptySet
    <3> QED
      BY <3>2
  <2>2. ASSUME NEW d \in 1 .. n, d - 1 \in T PROVE d \in T
    <3> DEFINE e == d - 1
    <3>1. e \in 0 .. n - 1 /\ e + 1 = d /\ G[e] \in Seq(Packet) /\ K[e] \in Record
      BY <2>2, <1>1
    <3>2. IsFiniteSet(Measured(G[e])) /\ Cardinality(Measured(G[e])) = e
      BY <2>2
    <3> HIDE DEF e
    <3>3. G[d] = G[e] \o PacketsOf(K[e])
      BY <3>1
    <3>4. IsFiniteSet(Measured(G[d])) /\ Cardinality(Measured(G[d])) = e + 1
      BY <3>1, <3>2, <3>3, MeasuredMore
    <3>5. e + 1 = d /\ d \in 0 .. n
      BY <3>1
    <3> QED
      BY <3>4, <3>5
  <2>3. T \in SUBSET (0 .. n)
    OBVIOUS
  <2> HIDE DEF T
  <2>4. T = 0 .. n
    BY <2>1, <2>2, <2>3, CountUp
  <2>5. n \in 0 .. n
    OBVIOUS
  <2>6. n \in T
    BY <2>4, <2>5
  <2> QED
    BY <2>6 DEF T
<1>5. \A c \in 0 .. n - 1 :
        /\ at[c + 1] <= at[n]
        /\ \A p \in 1 .. Len(PacketsOf(K[c])) : G[n][at[c] + p] = PacketsOf(K[c])[p]
  <2> TAKE c \in 0 .. n - 1
  <2>1. c + 1 \in 0 .. n /\ n \in 0 .. n /\ at[c] \in Nat /\ at[c + 1] \in Nat
    <3>1. c \in 0 .. n /\ c + 1 \in 0 .. n
      BY <1>0
    <3>2. at[c] \in Nat
      BY <3>1
    <3>3. at[c + 1] \in Nat
      BY <3>1
    <3> QED
      BY <3>1, <3>2, <3>3
  <2>2. at[c + 1] <= at[n] /\ \A p \in 1 .. at[c + 1] : G[n][p] = G[c + 1][p]
    BY <1>3, <2>1
  <2>3. ASSUME NEW p \in 1 .. Len(PacketsOf(K[c]))
        PROVE  G[n][at[c] + p] = PacketsOf(K[c])[p]
    <3>1. at[c] + p \in 1 .. at[c + 1]
      <4> DEFINE x == at[c]
                 z == Len(PacketsOf(K[c]))
      <4>1. x \in Nat /\ z \in Nat /\ at[c + 1] = x + z /\ p \in 1 .. z
        BY <1>2, <2>1
      <4> HIDE DEF x, z
      <4>2. x + p \in 1 .. at[c + 1]
        BY <4>1
      <4> QED
        BY <4>2 DEF x
    <3> QED
      BY <1>2, <2>2, <3>1
  <2> QED
    BY <2>2, <2>3
<1>6. at[0] = 0 /\ at[n] = Len(G[n]) /\ G[n] \in Seq(Packet)
  OBVIOUS
<1> QED
  BY <1>2, <1>4, <1>5, <1>6 DEF Layout

(* The packets collected at n places that follow each other.               *)
LEMMA Collected ==
  ASSUME NEW s \in Seq(Record), NEW off \in Nat, NEW n \in Nat, off + n <= Len(s),
         NEW g, Collects(g, s, off + 1 .. off + n, Len(s))
  PROVE  Layout(g[Len(s)], [c \in 0 .. n - 1 |-> s[off + c + 1]], n,
                [c \in 0 .. n |-> Len(g[off + c])])
<1> DEFINE L == Len(s)
           S == off + 1 .. off + n
           K == [c \in 0 .. n - 1 |-> s[off + c + 1]]
           at == [c \in 0 .. n |-> Len(g[off + c])]
<1>0. L \in Nat /\ off + n <= L /\ \A i \in 1 .. L : s[i] \in Record
  OBVIOUS
<1>1. /\ g[0] = <<>>
      /\ \A i \in 1 .. L : g[i] = IF i \notin S THEN g[i - 1] ELSE g[i - 1] \o PacketsOf(s[i])
  <2>1. \A i \in 0 .. L :
          g[i] = IF i = 0 THEN <<>> ELSE IF i \notin S THEN g[i - 1] ELSE g[i - 1] \o PacketsOf(s[i])
    BY DEF Collects
  <2>2. 0 \in 0 .. L /\ \A i \in 1 .. L : i \in 0 .. L /\ i # 0
    BY <1>0
  <2> HIDE DEF L, S
  <2>3. g[0] = <<>>
    BY <2>1, <2>2
  <2>4. ASSUME NEW i \in 1 .. L
        PROVE  g[i] = IF i \notin S THEN g[i - 1] ELSE g[i - 1] \o PacketsOf(s[i])
    <3>1. i \in 0 .. L /\ i # 0
      BY <2>2
    <3> QED
      BY <2>1, <3>1
  <2> QED
    BY <2>3, <2>4
<1> HIDE DEF L
<1>2. \A i \in 0 .. L : g[i] \in Seq(Packet)
  <2> DEFINE T == {i \in 0 .. L : g[i] \in Seq(Packet)}
  <2>1. 0 \in T
    <3>1. 0 \in 0 .. L
      BY <1>0
    <3>2. <<>> \in Seq(Packet)
      OBVIOUS
    <3> QED
      BY <1>1, <3>1, <3>2
  <2>2. ASSUME NEW i \in 1 .. L, i - 1 \in T PROVE i \in T
    <3>1. PacketsOf(s[i]) \in Seq(Packet)
      BY <1>0, RecordPackets
    <3>2. g[i - 1] \in Seq(Packet)
      BY <2>2
    <3>3. g[i - 1] \o PacketsOf(s[i]) \in Seq(Packet)
      BY <3>1, <3>2, Joined
    <3>4. g[i] = g[i - 1] \/ g[i] = g[i - 1] \o PacketsOf(s[i])
      BY <1>1
    <3>5. g[i] \in Seq(Packet)
      BY <3>2, <3>3, <3>4
    <3> QED
      BY <1>0, <3>5
  <2>3. T \in SUBSET (0 .. L)
    OBVIOUS
  <2> HIDE DEF T
  <2>4. T = 0 .. L
    BY <1>0, <2>1, <2>2, <2>3, CountUp
  <2> QED
    BY <2>4 DEF T
<1>3. g[off] = <<>>
  <2> DEFINE T == {i \in 0 .. off : g[i] = <<>>}
  <2>1. 0 \in T
    BY <1>1
  <2>2. ASSUME NEW i \in 1 .. off, i - 1 \in T PROVE i \in T
    <3>1. i \in 1 .. L /\ i \notin S
      BY <1>0
    <3> QED
      BY <1>1, <2>2, <3>1
  <2>3. T \in SUBSET (0 .. off)
    OBVIOUS
  <2> HIDE DEF T
  <2>4. T = 0 .. off
    BY <2>1, <2>2, <2>3, CountUp
  <2> QED
    BY <2>4 DEF T
<1>4. \A c \in 0 .. n - 1 :
        g[off + c + 1] = g[off + c] \o PacketsOf(K[c]) /\ K[c] \in Record
  <2> TAKE c \in 0 .. n - 1
  <2>1. off + c + 1 \in 1 .. L /\ off + c + 1 \in S /\ (off + c + 1) - 1 = off + c
    BY <1>0
  <2>2. K[c] = s[off + c + 1]
    OBVIOUS
  <2> HIDE DEF K, S
  <2> QED
    BY <1>0, <1>1, <2>1, <2>2
<1>5. g[L] = g[off + n]
  <2> DEFINE m == L - (off + n)
             T == {i \in 0 .. m : g[off + n + i] = g[off + n]}
  <2>0. m \in Nat /\ off + n + m = L /\ off + n + 0 = off + n
    BY <1>0
  <2>1. 0 \in T
    BY <2>0
  <2>2. ASSUME NEW i \in 1 .. m, i - 1 \in T PROVE i \in T
    <3>1. off + n + i \in 1 .. L /\ off + n + i \notin S /\ (off + n + i) - 1 = off + n + (i - 1)
      BY <1>0
    <3>2. g[off + n + i] = g[off + n + (i - 1)]
      BY <1>1, <3>1
    <3> QED
      BY <2>2, <3>2
  <2>3. T \in SUBSET (0 .. m)
    OBVIOUS
  <2> HIDE DEF T, m
  <2>4. T = 0 .. m
    BY <2>0, <2>1, <2>2, <2>3, CountUp
  <2>5. m \in T
    BY <2>0, <2>4
  <2> QED
    BY <2>0, <2>5 DEF T
<1> DEFINE G == [c \in 0 .. n |-> g[off + c]]
<1>6. /\ G \in [0 .. n -> Seq(Packet)] /\ G[0] = <<>> /\ G[n] = g[L]
      /\ \A c \in 0 .. n - 1 : G[c + 1] = G[c] \o PacketsOf(K[c]) /\ K[c] \in Record
      /\ \A c \in 0 .. n : at[c] = Len(G[c])
  <2>1. \A c \in 0 .. n : off + c \in 0 .. L /\ G[c] = g[off + c] /\ at[c] = Len(g[off + c])
    BY <1>0
  <2>2. off + 0 = off /\ 0 \in 0 .. n /\ n \in 0 .. n
    OBVIOUS
  <2>3. \A c \in 0 .. n - 1 : c \in 0 .. n /\ c + 1 \in 0 .. n /\ off + (c + 1) = off + c + 1
    OBVIOUS
  <2>4. G \in [0 .. n -> Seq(Packet)]
    BY <1>2, <2>1
  <2>5. \A c \in 0 .. n - 1 : G[c + 1] = g[off + c + 1] /\ G[c] = g[off + c]
    BY <2>1, <2>3
  <2> HIDE DEF G, K, at
  <2> QED
    BY <1>3, <1>4, <1>5, <2>1, <2>2, <2>4, <2>5
<1>7. at \in [0 .. n -> Nat] /\ K \in [0 .. n - 1 -> Record]
  <2>1. \A c \in 0 .. n : Len(g[off + c]) \in Nat
    <3>1. \A c \in 0 .. n : off + c \in 0 .. L
      BY <1>0
    <3> QED
      BY <1>2, <3>1
  <2>2. \A c \in 0 .. n - 1 : s[off + c + 1] \in Record
    BY <1>0
  <2> QED
    BY <2>1, <2>2
<1> HIDE DEF G, K, at
<1>8. Layout(g[L], K, n, at)
  BY <1>6, <1>7, GrowingLayout
<1> QED
  BY <1>8 DEF L, K, at

-----------------------------------------------------------------------------
(* The packets due are those of the records that the search found.         *)

LEMMA StoredSequence ==
  ASSUME Counted
  PROVE  /\ Stored(db) \in Seq(Record) /\ Len(Stored(db)) = Used(db) /\ Used(db) \in Nat
         /\ \A i \in 1 .. Used(db) : Stored(db)[i] = db.records[(db.head + i - 1) % SIZE]
<1> DEFINE s == Stored(db)
           n == Used(db)
<1>1. n \in Nat
  BY Places, Size DEF Counted
<1>2. db.head \in Int /\ db.records \in [Position -> Record]
  <2>1. db.head \in 0 .. SIZE - 1
    BY Places DEF Counted
  <2>2. db.records \in [Position -> Record]
    BY DEF Counted, Database
  <2> QED
    BY <2>1, <2>2, Size
<1>3. s = [i \in 1 .. n |-> db.records[(db.head + i - 1) % SIZE]]
  BY DEF Stored, Counted
<1> HIDE DEF s, n
<1>4. \A i \in 1 .. n : db.records[(db.head + i - 1) % SIZE] \in Record
  <2> TAKE i \in 1 .. n
  <2>1. db.head + i - 1 \in Int
    BY <1>1, <1>2
  <2>2. (db.head + i - 1) % SIZE \in Position
    BY <2>1, RoundType
  <2> QED
    BY <1>2, <2>2
<1>5. s \in [1 .. n -> Record]
  BY <1>3, <1>4
<1>6. s \in Seq(Record) /\ Len(s) = n
  BY <1>1, <1>5
<1>7. \A i \in 1 .. n : s[i] = db.records[(db.head + i - 1) % SIZE]
  BY <1>3
<1> QED
  BY <1>1, <1>6, <1>7 DEF s, n

LEMMA PacketsAre ==
  ASSUME Counted, NEW q, gls_racp_check(q) = "SUCCESS"
  PROVE  \E g : /\ Collects(g, Stored(db), Store!Selected(q, Stored(db)), Len(Stored(db)))
                /\ Packets(q) = g[Len(Stored(db))]
<1> DEFINE s == Stored(db)
           S == Store!Selected(q, s)
           g == CHOOSE h : Collects(h, s, S, Len(s))
<1>1. s \in Seq(Record)
  BY StoredSequence
<1>2. \E h : Collects(h, s, S, Len(s))
  <2> HIDE DEF s, S
  <2> QED
    BY <1>1, ReportExists
<1>3. Collects(g, s, S, Len(s))
  <2> HIDE DEF s, S
  <2> QED
    BY <1>2
<1>4. Packets(q) = g[Len(s)]
  BY DEF Packets, Collects
<1> HIDE DEF s, S, g
<1>5. \E h : Collects(h, s, S, Len(s)) /\ Packets(q) = h[Len(s)]
  BY <1>3, <1>4
<1> QED
  BY <1>5 DEF s, S

-----------------------------------------------------------------------------
(* The search.  The records lie in the order of their numbers and times.   *)

Row(d, k) == d.records[(d.head + k) % SIZE]
Before(x, y) == x.seq_num <= y.seq_num /\ x.base_time <= y.base_time
Ordered(d, n) ==
  \A k \in 0 .. n - 1 :
    Row(d, k).seq_num <= d.seq_num /\ \A j \in 0 .. k : Before(Row(d, j), Row(d, k))

(* A scan over a set without gaps cuts the records in two.                 *)
LEMMA ScanCuts ==
  ASSUME NEW d \in Database, NEW S, S \subseteq 0 .. Used(d) - 1,
         \A k \in S : \A j \in 0 .. k : j \in S
  PROVE  /\ Scan(d, S) \in 0 .. Used(d)
         /\ \A k \in 0 .. Used(d) - 1 : k \in S <=> k < Scan(d, S)
<1> DEFINE e == Scan(d, S)
           n == Used(d)
<1>1. e \in 0 .. n /\ (\A j \in 0 .. e - 1 : j \in S) /\ e \notin S
  BY ScanEnds
<1>2. n \in Nat
  BY Places, Size
<1> HIDE DEF e, n
<1>3. ASSUME NEW k \in 0 .. n - 1, k < e PROVE k \in S
  <2>1. k \in 0 .. e - 1
    BY <1>1, <1>2, <1>3
  <2> QED
    BY <1>1, <2>1
<1>4. ASSUME NEW k \in 0 .. n - 1, k \in S PROVE k < e
  <2>1. ~(k < e) => e \in 0 .. k
    BY <1>1, <1>2
  <2> QED
    BY <1>1, <1>4, <2>1
<1> QED
  BY <1>1, <1>3, <1>4 DEF e, n

LEMMA KeysOrdered ==
  ASSUME NEW d \in Database, Ordered(d, Used(d)), NEW type, NEW k \in 0 .. Used(d) - 1,
         NEW j \in 0 .. k
  PROVE  RecordKey(d, type, j) <= RecordKey(d, type, k)
<1>1. Before(Row(d, j), Row(d, k))
  BY DEF Ordered
<1> QED
  BY <1>1, Zenon DEF Before, Row, RecordKey

(* The scans cut the records at an operand.                                *)
LEMMA KeysCut ==
  ASSUME NEW d \in Database, Ordered(d, Used(d)), NEW type, NEW x \in Int
  PROVE  /\ Scan(d, UpTo(d, type, x)) \in 0 .. Used(d)
         /\ Scan(d, Below(d, type, x)) \in 0 .. Used(d)
         /\ \A k \in 0 .. Used(d) - 1 :
              /\ RecordKey(d, type, k) <= x <=> k < Scan(d, UpTo(d, type, x))
              /\ RecordKey(d, type, k) < x <=> k < Scan(d, Below(d, type, x))
<1> DEFINE n == Used(d)
           key(k) == RecordKey(d, type, k)
<1>1. n \in Nat
  BY Places, Size
<1>2. \A k \in 0 .. n - 1 : key(k) \in Int /\ \A j \in 0 .. k : key(j) \in Int /\ key(j) <= key(k)
  <2> TAKE k \in 0 .. n - 1
  <2>1. key(k) \in Int
    BY <1>1, KeyType
  <2>2. ASSUME NEW j \in 0 .. k PROVE key(j) \in Int /\ key(j) <= key(k)
    BY <1>1, KeyType, KeysOrdered
  <2> QED
    BY <2>1, <2>2
<1>3. /\ UpTo(d, type, x) = {k \in 0 .. n - 1 : key(k) <= x}
      /\ Below(d, type, x) = {k \in 0 .. n - 1 : key(k) < x}
  BY DEF UpTo, Below
<1> HIDE DEF key, n
<1>4. \A k \in 0 .. n - 1 : \A j \in 0 .. k : j \in 0 .. n - 1
  BY <1>1
<1>5. ASSUME NEW k \in UpTo(d, type, x), NEW j \in 0 .. k PROVE j \in UpTo(d, type, x)
  BY <1>2, <1>3, <1>4
<1>6. ASSUME NEW k \in Below(d, type, x), NEW j \in 0 .. k PROVE j \in Below(d, type, x)
  BY <1>2, <1>3, <1>4
<1>7. UpTo(d, type, x) \subseteq 0 .. n - 1 /\ Below(d, type, x) \subseteq 0 .. n - 1
  BY <1>3
<1>8. /\ Scan(d, UpTo(d, type, x)) \in 0 .. n
      /\ \A k \in 0 .. n - 1 : k \in UpTo(d, type, x) <=> k < Scan(d, UpTo(d, type, x))
  BY <1>5, <1>7, ScanCuts DEF n
<1>9. /\ Scan(d, Below(d, type, x)) \in 0 .. n
      /\ \A k \in 0 .. n - 1 : k \in Below(d, type, x) <=> k < Scan(d, Below(d, type, x))
  BY <1>6, <1>7, ScanCuts DEF n
<1>10. \A k \in 0 .. n - 1 : /\ key(k) <= x <=> k \in UpTo(d, type, x)
                             /\ key(k) < x <=> k \in Below(d, type, x)
  BY <1>3
<1> QED
  BY <1>8, <1>9, <1>10 DEF key, n

(* The offset of the record that the search found first.                   *)
Offset(f) == (f.find1 - db.head + SIZE) % SIZE

(* The records of d that q selects, by their offsets.                      *)
Picks(q, d, k) ==
  \/ q.op = "ALL_RECS"
  \/ q.op = "LT_EQ" /\ RecordKey(d, q.type, k) <= q.x
  \/ q.op = "GT_EQ" /\ ~(RecordKey(d, q.type, k) < q.x)
  \/ q.op = "RANGE" /\ ~(RecordKey(d, q.type, k) < q.x) /\ RecordKey(d, q.type, k) <= q.y
  \/ q.op = "FIRST" /\ k = 0
  \/ q.op = "LAST" /\ k = Used(d) - 1

LEMMA OffsetFrom ==
  ASSUME db \in Database, NEW f, NEW a \in 0 .. SIZE - 1, f.find1 = Plus(db.head, a)
  PROVE  Offset(f) = a
<1> DEFINE h == db.head
<1>1. h \in 0 .. SIZE - 1
  BY Places
<1> HIDE DEF h
<1>2. Plus(h, a) \in 0 .. SIZE - 1
  BY <1>1, PlusMinusType
<1>3. Plus(h, a) \in -1 .. SIZE - 1
  BY <1>2
<1>4. (Plus(h, a) - h + SIZE) % SIZE = Minus(Plus(h, a), h)
  BY <1>1, <1>3, RoundDifference, Zenon
<1>5. Minus(Plus(h, a), h) = a
  BY <1>1, Size DEF Plus, Minus
<1> QED
  BY <1>4, <1>5 DEF Offset, h

(* The search finds exactly the records that the filter selects, and they  *)
(* follow each other.                                                      *)
Run(q, f, off) ==
  /\ off \in 0 .. SIZE - 1 /\ Offset(f) = off
  /\ f.num > 0 => off + f.num <= Used(db)
  /\ \A k \in 0 .. Used(db) - 1 : Picks(q, db, k) <=> off <= k /\ k < off + f.num

LEMMA RunFound ==
  ASSUME Counted, Ordered(db, Used(db)), NEW q, gls_racp_check(q) = "SUCCESS", ~Gap(q),
         q.x \in Int, q.y \in Int, NEW f, f = gls_find_records(db, q)
  PROVE  f.num \in 0 .. Used(db) /\ Run(q, f, Offset(f))
<1> DEFINE n == Used(db)
           a == ScanFrom(q)
           b == ScanUpTo(q, IF q.op = "RANGE" THEN q.y ELSE q.x)
           last == (db.tail - 1 + SIZE) % SIZE
<1>1. /\ db.head \in 0 .. SIZE - 1 /\ db.tail \in 0 .. SIZE - 1 /\ n \in 0 .. SIZE - 1
      /\ n = Minus(db.tail, db.head) /\ db.record_num = n /\ db \in Database
  BY Places DEF Counted
<1>2. f.num \in 0 .. n /\ Ends(q, f)
  BY Found
<1>3. a \in 0 .. n /\ \A k \in 0 .. n - 1 : RecordKey(db, q.type, k) < q.x <=> k < a
  BY <1>1, KeysCut DEF ScanFrom
<1>4. /\ b \in 0 .. n
      /\ \A k \in 0 .. n - 1 :
           RecordKey(db, q.type, k) <= (IF q.op = "RANGE" THEN q.y ELSE q.x) <=> k < b
  BY <1>1, KeysCut DEF ScanUpTo
<1>5. /\ q.op \in {"ALL_RECS", "FIRST"} => f.find1 = Plus(db.head, 0)
      /\ q.op = "LT_EQ" => f.find1 = Plus(db.head, 0)
      /\ q.op = "ALL_RECS" => f.num = n
      /\ q.op \in {"FIRST", "LAST"} => f.num = IF n = 0 THEN 0 ELSE 1
      /\ q.op = "LAST" => f.find1 = last
  <2>1. Plus(db.head, 0) = db.head
    BY <1>1, Size DEF Plus
  <2> QED
    BY <1>1, <2>1 DEF gls_find_records
<1>6. last \in 0 .. SIZE - 1 /\ (n > 0 => last = Plus(db.head, n - 1))
  <2>1. last = Minus(db.tail, 1)
    <3>1. 1 \in 0 .. SIZE - 1 /\ db.tail \in -1 .. SIZE - 1
      BY <1>1, Size
    <3> QED
      BY <3>1, RoundDifference, Zenon
  <2>2. n > 0 => Minus(db.tail, 1) = Plus(db.head, n - 1)
    BY <1>1, Size DEF Plus, Minus
  <2>3. Minus(db.tail, 1) \in 0 .. SIZE - 1
    BY <1>1, Size DEF Minus
  <2> QED
    BY <2>1, <2>2, <2>3
<1>7. /\ q.op = "LT_EQ" => f.num = b
      /\ q.op = "GT_EQ" => f.find1 = Plus(db.head, a) /\ f.num = n - a
      /\ q.op = "RANGE" => f.find1 = Plus(db.head, a) /\ f.num = b - a
  BY <1>2 DEF Ends
<1>8. \A k : f.find1 = Plus(db.head, k) /\ k \in 0 .. SIZE - 1 => Offset(f) = k
  BY <1>1, OffsetFrom
<1>9. 0 \in 0 .. SIZE - 1
  BY Size
<1> HIDE DEF n, a, b, last
<1>10. a \in 0 .. SIZE - 1
  BY <1>1, <1>3, Size
<1>11. CASE q.op = "ALL_RECS"
  <2>1. Offset(f) = 0 /\ f.num = n
    BY <1>5, <1>8, <1>9, <1>11
  <2> QED
    BY <1>1, <1>2, <1>9, <1>11, <2>1 DEF Run, Picks, n
<1>12. CASE q.op = "FIRST"
  <2>1. Offset(f) = 0 /\ f.num = IF n = 0 THEN 0 ELSE 1
    BY <1>5, <1>8, <1>9, <1>12
  <2> QED
    BY <1>1, <1>2, <1>9, <1>12, <2>1 DEF Run, Picks, n
<1>13. CASE q.op = "LAST"
  <2>1. Offset(f) \in 0 .. SIZE - 1
    <3>1. (last - db.head + SIZE) % SIZE \in Position
      BY <1>1, <1>6, RoundType, Size
    <3>2. f.find1 = last
      BY <1>5, <1>13
    <3> QED
      BY <3>1, <3>2 DEF Offset, Position
  <2>2. n > 0 => Offset(f) = n - 1
    <3>1. n > 0 => n - 1 \in 0 .. SIZE - 1
      BY <1>1, Size
    <3> QED
      BY <1>5, <1>6, <1>8, <1>13, <3>1
  <2>3. f.num = IF n = 0 THEN 0 ELSE 1
    BY <1>5, <1>13
  <2> QED
    BY <1>1, <1>2, <1>13, <2>1, <2>2, <2>3 DEF Run, Picks, n
<1>14. CASE q.op = "LT_EQ"
  <2>1. Offset(f) = 0 /\ f.num = b
    BY <1>5, <1>7, <1>8, <1>9, <1>14
  <2>2. \A k \in 0 .. n - 1 : Picks(q, db, k) <=> k < b
    BY <1>4, <1>14 DEF Picks
  <2> QED
    BY <1>1, <1>2, <1>4, <1>9, <2>1, <2>2 DEF Run, n
<1>15. CASE q.op = "GT_EQ"
  <2>1. Offset(f) = a /\ f.num = n - a
    BY <1>7, <1>8, <1>15, <1>10
  <2>2. \A k \in 0 .. n - 1 : Picks(q, db, k) <=> ~(k < a)
    BY <1>3, <1>15 DEF Picks
  <2>3. n \in Nat /\ a \in 0 .. n /\ a + f.num = n
    BY <1>1, <1>3, <2>1, Size
  <2>4. \A k \in 0 .. n - 1 : ~(k < a) <=> a <= k /\ k < n
    BY <2>3
  <2> QED
    BY <1>2, <1>10, <2>1, <2>2, <2>3, <2>4 DEF Run, n
<1>16. CASE q.op = "RANGE"
  <2>1. Offset(f) = a /\ f.num = b - a
    BY <1>7, <1>8, <1>16, <1>10
  <2>2. \A k \in 0 .. n - 1 : Picks(q, db, k) <=> ~(k < a) /\ k < b
    BY <1>3, <1>4, <1>16 DEF Picks
  <2>3. n \in Nat /\ a \in 0 .. n /\ b \in 0 .. n /\ a + f.num = b
    BY <1>1, <1>3, <1>4, <2>1, Size
  <2>4. \A k \in 0 .. n - 1 : ~(k < a) <=> a <= k
    BY <2>3
  <2> QED
    BY <1>2, <1>10, <2>1, <2>2, <2>3, <2>4 DEF Run, n
<1> QED
  BY <1>11, <1>12, <1>13, <1>14, <1>15, <1>16, Accepted

LEMMA SelectedPlaces ==
  ASSUME Counted, Ordered(db, Used(db)), NEW q, gls_racp_check(q) = "SUCCESS", ~Gap(q),
         q.x \in Int, q.y \in Int, NEW f, f = gls_find_records(db, q),
         NEW o, o = IF f.num = 0 THEN 0 ELSE Offset(f)
  PROVE  /\ o \in Nat /\ f.num \in Nat /\ o + f.num <= Used(db)
         /\ Store!Selected(q, Stored(db)) = o + 1 .. o + f.num
<1> DEFINE n == Used(db)
           s == Stored(db)
<1>1. /\ s \in Seq(Record) /\ Len(s) = n /\ n \in Nat
      /\ \A i \in 1 .. n : s[i] = db.records[(db.head + i - 1) % SIZE]
  BY StoredSequence
<1>2. db.head \in Int /\ db \in Database
  BY Places, Size DEF Counted
<1>3. f.num \in 0 .. n /\ Run(q, f, Offset(f))
  BY RunFound
<1>4. o \in Nat /\ f.num \in Nat /\ o + f.num <= n
  BY <1>1, <1>3, Size DEF Run
<1>5. \A k \in 0 .. n - 1 : Picks(q, db, k) <=> o <= k /\ k < o + f.num
  BY <1>1, <1>3, Size DEF Run
<1>6. \A i \in 1 .. n : /\ i - 1 \in 0 .. n - 1
                        /\ Store!Key(s[i], q.type) = RecordKey(db, q.type, i - 1)
                        /\ RecordKey(db, q.type, i - 1) \in Int
  <2> TAKE i \in 1 .. n
  <2>1. i - 1 \in 0 .. n - 1 /\ db.head + i - 1 = db.head + (i - 1)
    BY <1>1, <1>2
  <2>2. s[i] = db.records[(db.head + (i - 1)) % SIZE]
    BY <1>1, <2>1
  <2>3. RecordKey(db, q.type, i - 1) \in Int
    BY <1>2, <2>1, KeyType
  <2> HIDE DEF s
  <2> QED
    BY <2>1, <2>2, <2>3, Zenon DEF Store!Key, RecordKey
<1>7. DOMAIN s = 1 .. n
  BY <1>1
<1> HIDE DEF s, n
<1>8. \A i \in 1 .. n : i \in Store!Selected(q, s) <=> Picks(q, db, i - 1)
  <2> TAKE i \in 1 .. n
  <2> DEFINE key == RecordKey(db, q.type, i - 1)
  <2>1. /\ i \in DOMAIN s /\ Store!Key(s[i], q.type) = key /\ key \in Int
        /\ i = 1 <=> i - 1 = 0
        /\ i = Len(s) <=> i - 1 = n - 1
    <3>1. i \in DOMAIN s /\ Store!Key(s[i], q.type) = key /\ key \in Int
      BY <1>6, <1>7
    <3>2. i \in Int /\ n \in Int /\ Len(s) = n
      BY <1>1
    <3>3. (i = 1 <=> i - 1 = 0) /\ (i = Len(s) <=> i - 1 = n - 1)
      BY <3>2
    <3> QED
      BY <3>1, <3>3
  <2>2. ~(key < q.x) <=> key >= q.x
    BY <2>1
  <2>3. key >= q.x <=> q.x <= key
    BY <2>1
  <2> HIDE DEF key
  <2>4. i \in Store!Selected(q, s) <=>
          \/ q.op = "ALL_RECS"
          \/ q.op = "LT_EQ" /\ key <= q.x
          \/ q.op = "GT_EQ" /\ key >= q.x
          \/ q.op = "RANGE" /\ q.x <= key /\ key <= q.y
          \/ q.op = "FIRST" /\ i = 1
          \/ q.op = "LAST" /\ i = Len(s)
    BY <2>1, Zenon DEF Store!Selected
  <2>5. Picks(q, db, i - 1) <=>
          \/ q.op = "ALL_RECS"
          \/ q.op = "LT_EQ" /\ key <= q.x
          \/ q.op = "GT_EQ" /\ ~(key < q.x)
          \/ q.op = "RANGE" /\ ~(key < q.x) /\ key <= q.y
          \/ q.op = "FIRST" /\ i - 1 = 0
          \/ q.op = "LAST" /\ i - 1 = n - 1
    BY Zenon DEF Picks, key, n
  <2> QED
    BY <2>1, <2>2, <2>3, <2>4, <2>5, Zenon
<1>9. Store!Selected(q, s) \subseteq 1 .. n
  BY <1>7, Zenon DEF Store!Selected
<1>10. \A i \in 1 .. n : i \in Store!Selected(q, s) <=> i \in o + 1 .. o + f.num
  <2> TAKE i \in 1 .. n
  <2>1. i - 1 \in 0 .. n - 1
    BY <1>6
  <2>2. i \in Store!Selected(q, s) <=> o <= i - 1 /\ i - 1 < o + f.num
    BY <1>5, <1>8, <2>1
  <2>3. i \in o + 1 .. o + f.num <=> o <= i - 1 /\ i - 1 < o + f.num
    BY <1>1, <1>4
  <2> QED
    BY <2>2, <2>3
<1>11. o + 1 .. o + f.num \subseteq 1 .. n
  BY <1>1, <1>4
<1>12. Store!Selected(q, s) = o + 1 .. o + f.num
  BY <1>9, <1>10, <1>11, Zenon
<1> QED
  BY <1>4, <1>12 DEF s, n

(* The records found, in their order, and the packets that report them.    *)
RowsFrom(d, off, n) == [c \in 0 .. n - 1 |-> Row(d, off + c)]

LEMMA PacketsFound ==
  ASSUME Counted, Ordered(db, Used(db)), NEW q, gls_racp_check(q) = "SUCCESS", ~Gap(q),
         q.x \in Int, q.y \in Int, NEW f, f = gls_find_records(db, q)
  PROVE  \E at : Layout(Packets(q), RowsFrom(db, Offset(f), f.num), f.num, at)
<1> DEFINE o == IF f.num = 0 THEN 0 ELSE Offset(f)
           s == Stored(db)
           n == f.num
<1>1. /\ o \in Nat /\ n \in Nat /\ o + n <= Used(db)
      /\ Store!Selected(q, s) = o + 1 .. o + n
  BY SelectedPlaces
<1>2. /\ s \in Seq(Record) /\ Len(s) = Used(db) /\ Used(db) \in Nat
      /\ \A i \in 1 .. Used(db) : s[i] = db.records[(db.head + i - 1) % SIZE]
  BY StoredSequence
<1>3. PICK g : Collects(g, s, Store!Selected(q, s), Len(s)) /\ Packets(q) = g[Len(s)]
  BY PacketsAre
<1> HIDE DEF s
<1>4. RowsFrom(db, Offset(f), n) = RowsFrom(db, o, n)
  <2>1. \A c \in 0 .. n - 1 : Row(db, Offset(f) + c) = Row(db, o + c)
    BY <1>1
  <2> HIDE DEF o, n
  <2> QED
    BY <2>1 DEF RowsFrom
<1> HIDE DEF o, n
<1>5. [c \in 0 .. n - 1 |-> s[o + c + 1]] = RowsFrom(db, o, n)
  <2>1. \A c \in 0 .. n - 1 : s[o + c + 1] = Row(db, o + c)
    <3> TAKE c \in 0 .. n - 1
    <3>1. db.head \in Int
      BY Places, Size DEF Counted
    <3>2. o + c + 1 \in 1 .. Used(db) /\ db.head + (o + c + 1) - 1 = db.head + (o + c)
      BY <1>1, <1>2, <3>1
    <3> QED
      BY <1>2, <3>2 DEF Row
  <2> QED
    BY <2>1 DEF RowsFrom
<1>6. Collects(g, s, o + 1 .. o + n, Len(s))
  BY <1>1, <1>3
<1>7. Layout(g[Len(s)], [c \in 0 .. n - 1 |-> s[o + c + 1]], n, [c \in 0 .. n |-> Len(g[o + c])])
  BY <1>1, <1>2, <1>6, Collected
<1> QED
  BY <1>3, <1>4, <1>5, <1>7 DEF n

-----------------------------------------------------------------------------
(* The records after a deletion.                                           *)

LEMMA RowPlace ==
  ASSUME NEW d \in Database, NEW k \in 0 .. SIZE - 1
  PROVE  Row(d, k) = d.records[Plus(d.head, k)] /\ Plus(d.head, k) \in Position
         /\ Row(d, k) \in Record
<1>1. d.head \in 0 .. SIZE - 1
  BY Places
<1>2. (d.head + k) % SIZE = Plus(d.head, k)
  BY <1>1, RoundSum
<1>3. Plus(d.head, k) \in Position
  BY <1>1, PlusMinusType, Zenon DEF Position
<1>4. d.records[Plus(d.head, k)] \in Record
  BY <1>3 DEF Database
<1> QED
  BY <1>2, <1>3, <1>4 DEF Row

(* A run of m places from offset a, in a ring used from h over n places:   *)
(* the distances that the two moves go by.                                 *)
LEMMA RingMoves ==
  ASSUME NEW h \in 0 .. SIZE - 1, NEW n \in 0 .. SIZE - 1, NEW a \in 0 .. n, NEW m \in 1 .. n,
         a + m <= n, NEW k \in 0 .. n - m
  PROVE  /\ Plus(Plus(h, m), k) = Plus(h, k + m)
         /\ Minus(Plus(h, k), Plus(h, a)) = IF k < a THEN k - a + SIZE ELSE k - a
         /\ Minus(Plus(h, n), Plus(h, a + m)) = n - a - m
         /\ a <= k => Plus(Plus(h, a + m), k - a) = Plus(h, k + m)
         /\ Minus(Plus(h, a + m) - 1, Plus(h, k + m)) = IF k < a THEN a - 1 - k ELSE a - 1 - k + SIZE
         /\ k < a => Minus(Plus(h, a) - 1, a - 1 - k) = Plus(h, k)
         /\ Plus(h, n - m) # Plus(h, n) /\ Minus(Plus(h, n), m) = Plus(h, n - m)
  BY Size DEF Plus, Minus

(* Where the search found the run, in places of the ring.                  *)
LEMMA RunPlaces ==
  ASSUME Counted, Ordered(db, Used(db)), NEW q, gls_racp_check(q) = "SUCCESS", ~Gap(q),
         q.x \in Int, q.y \in Int, NEW f, f = gls_find_records(db, q), f.num > 0,
         NEW off, off = Offset(f)
  PROVE  /\ off \in 0 .. Used(db) /\ f.num \in 1 .. Used(db) /\ off + f.num <= Used(db)
         /\ f.find1 = Plus(db.head, off) /\ db.tail = Plus(db.head, Used(db))
         /\ q.op \in {"ALL_RECS", "LT_EQ", "FIRST"} => off = 0
         /\ q.op \in {"GT_EQ", "LAST"} => off = Used(db) - f.num
         /\ q.op \in {"LT_EQ", "RANGE"} => f.find2 + 1 = Plus(db.head, off + f.num)
         /\ q.op = "ALL_RECS" => f.num = Used(db)
         /\ q.op \in {"FIRST", "LAST"} => f.num = 1
<1> DEFINE n == Used(db)
           h == db.head
<1>1. /\ h \in 0 .. SIZE - 1 /\ db.tail \in 0 .. SIZE - 1 /\ n \in 0 .. SIZE - 1
      /\ n = Minus(db.tail, h) /\ db.record_num = n /\ db \in Database
  BY Places DEF Counted
<1>2. /\ f.num \in 0 .. n /\ f.find1 \in 0 .. SIZE - 1 /\ Ends(q, f)
      /\ q.op = "LT_EQ" => f.find2 + 1 = Plus(h, f.num)
      /\ q.op = "GT_EQ" => f.find1 = Plus(h, n - f.num)
  BY Found
<1>3. Run(q, f, off)
  BY RunFound
<1> HIDE DEF n, h
<1>4. f.num \in 1 .. n /\ off + f.num <= n /\ off \in 0 .. n
  BY <1>1, <1>2, <1>3, Size DEF Run, n
<1>5. off = Minus(f.find1, h)
  <2>1. f.find1 \in -1 .. SIZE - 1
    BY <1>2
  <2> QED
    BY <1>1, <2>1, RoundDifference, Zenon DEF Offset, h
<1>6. f.find1 = Plus(h, off) /\ db.tail = Plus(h, n)
  <2> DEFINE p == f.find1
             t == db.tail
  <2>1. p \in 0 .. SIZE - 1 /\ t \in 0 .. SIZE - 1
    BY <1>1, <1>2
  <2> HIDE DEF p, t
  <2>2. Plus(h, Minus(p, h)) = p /\ Plus(h, Minus(t, h)) = t
    BY <1>1, <2>1, Size DEF Plus, Minus
  <2> QED
    BY <1>1, <1>5, <2>2 DEF p, t
<1>7. /\ q.op \in {"ALL_RECS", "LT_EQ", "FIRST"} => f.find1 = h
      /\ q.op = "ALL_RECS" => f.num = n
      /\ q.op \in {"FIRST", "LAST"} => f.num = IF n = 0 THEN 0 ELSE 1
      /\ q.op = "LAST" => f.find1 = (db.tail - 1 + SIZE) % SIZE
  BY <1>1 DEF gls_find_records, h
<1>8. q.op \in {"ALL_RECS", "LT_EQ", "FIRST"} => off = 0
  <2>1. Minus(h, h) = 0
    BY <1>1, Size DEF Minus
  <2> QED
    BY <1>5, <1>7, <2>1
<1>9. q.op \in {"FIRST", "LAST"} => f.num = 1
  BY <1>4, <1>7
<1>10. \A a \in 0 .. n : f.find1 = Plus(h, a) => off = a
  <2> TAKE a \in 0 .. n
  <2>1. Minus(Plus(h, a), h) = a
    BY <1>1, Size DEF Plus, Minus
  <2> QED
    BY <1>5, <2>1
<1>11. q.op = "GT_EQ" => off = n - f.num
  <2>1. n - f.num \in 0 .. n
    BY <1>1, <1>4
  <2> QED
    BY <1>2, <1>10, <2>1
<1>12. q.op = "LAST" => off = n - f.num
  <2>1. (db.tail - 1 + SIZE) % SIZE = Minus(db.tail, 1)
    <3>1. db.tail \in -1 .. SIZE - 1 /\ 1 \in 0 .. SIZE - 1
      BY <1>1, Size
    <3> QED
      BY <3>1, RoundDifference, Zenon
  <2>2. Minus(Plus(h, n), 1) = Plus(h, n - 1)
    <3>1. n \in 1 .. SIZE - 1
      BY <1>1, <1>4
    <3> QED
      BY <1>1, <3>1, Size DEF Plus, Minus
  <2>3. n - 1 \in 0 .. n
    BY <1>1, <1>4
  <2> QED
    BY <1>6, <1>7, <1>9, <1>10, <2>1, <2>2, <2>3
<1>13. q.op = "LT_EQ" => f.find2 + 1 = Plus(h, off + f.num)
  <2>1. q.op = "LT_EQ" => off = 0
    BY <1>8
  <2>2. f.num + 0 = f.num /\ 0 + f.num = f.num
    BY <1>4
  <2> QED
    BY <1>2, <2>1, <2>2
<1>14. q.op = "RANGE" => f.find2 + 1 = Plus(h, off + f.num)
  <2> SUFFICES ASSUME q.op = "RANGE" PROVE f.find2 + 1 = Plus(h, off + f.num)
    OBVIOUS
  <2>1. /\ f.find1 = Plus(h, ScanFrom(q)) /\ f.num = ScanUpTo(q, q.y) - ScanFrom(q)
        /\ f.find2 + 1 = Plus(h, ScanUpTo(q, q.y))
    BY <1>2 DEF Ends, h
  <2>2. ScanFrom(q) \in 0 .. n /\ ScanUpTo(q, q.y) \in 0 .. n
    BY <1>1, KeysCut DEF ScanFrom, ScanUpTo, n
  <2>3. off = ScanFrom(q)
    BY <1>10, <2>1, <2>2
  <2>4. off + f.num = ScanUpTo(q, q.y)
    BY <2>1, <2>2, <2>3
  <2> QED
    BY <2>1, <2>4
<1> QED
  BY <1>4, <1>6, <1>7, <1>8, <1>9, <1>11, <1>12, <1>13, <1>14 DEF n, h

(* The records in front of those deleted keep their offsets, and those     *)
(* behind them move up.                                                    *)
Moved(d, e, off, num, k) == Row(e, k) = Row(d, IF k < off THEN k ELSE k + num)

(* A deletion that moves one end only.                                     *)
LEMMA EndMoved ==
  ASSUME NEW d \in Database, NEW e \in Database, e.records = d.records,
         NEW n, n = Used(d), NEW off \in 0 .. n, NEW num \in 1 .. n, off + num <= n,
         \/ off = 0 /\ e.head = Plus(d.head, num) /\ e.tail = d.tail
         \/ off = n - num /\ e.head = d.head /\ e.tail = Plus(d.head, n - num)
  PROVE  /\ Used(e) = n - num
         /\ \A k \in 0 .. n - num : k < n - num \/ e.tail = d.tail => Moved(d, e, off, num, k)
<1> DEFINE h == d.head
<1>1. h \in 0 .. SIZE - 1 /\ n \in 0 .. SIZE - 1 /\ n = Minus(d.tail, h) /\ d.tail \in 0 .. SIZE - 1
  BY Places
<1>2. Used(e) = Minus(e.tail, e.head)
  BY Places
<1>3. d.tail = Plus(h, n)
  BY <1>1, Size DEF Plus, Minus
<1> HIDE DEF h
<1>4. Used(e) = n - num
  <2>1. Minus(Plus(h, n), Plus(h, num)) = n - num /\ Minus(Plus(h, n - num), h) = n - num
    BY <1>1, Size DEF Plus, Minus
  <2> QED
    BY <1>2, <1>3, <2>1 DEF h
<1>5. ASSUME NEW k \in 0 .. n - num, k < n - num \/ e.tail = d.tail
      PROVE  Moved(d, e, off, num, k)
  <2>1. /\ k \in 0 .. SIZE - 1 /\ k + num \in 0 .. SIZE - 1
        /\ ~(k < 0) /\ n - num \in 0 .. n
    BY <1>1, Size
  <2>2. /\ Row(e, k) = d.records[Plus(e.head, k)] /\ Row(d, k) = d.records[Plus(h, k)]
        /\ Row(d, k + num) = d.records[Plus(h, k + num)]
    BY <2>1, RowPlace DEF h
  <2>3. CASE off = 0 /\ e.head = Plus(h, num)
    <3>1. Plus(Plus(h, num), k) = Plus(h, k + num)
      BY <1>1, RingMoves
    <3> QED
      BY <2>1, <2>2, <2>3, <3>1 DEF Moved
  <2>4. CASE off = n - num /\ e.head = h /\ e.tail = Plus(h, n - num)
    <3>1. Plus(h, n - num) # Plus(h, n)
      BY <1>1, RingMoves
    <3>2. k < off
      BY <1>3, <1>5, <2>4, <3>1
    <3> QED
      BY <2>2, <2>4, <3>2 DEF Moved
  <2> QED
    BY <2>3, <2>4 DEF h
<1> QED
  BY <1>4, <1>5

(* The records behind those deleted are moved.                             *)
LEMMA BackMoved ==
  ASSUME NEW d \in Database, NEW e \in Database, NEW f,
         NEW n, n = Used(d), NEW off \in 0 .. n, f.num \in 1 .. n, off + f.num <= n,
         f.find1 = Plus(d.head, off), f.find2 \in Int, f.find2 + 1 = Plus(d.head, off + f.num),
         e = CloseFromBack(d, f)
  PROVE  /\ e.tail # d.tail /\ Used(e) = n - f.num
         /\ \A k \in 0 .. n - f.num - 1 : Moved(d, e, off, f.num, k)
<1> DEFINE h == d.head
           num == f.num
           dist(p) == (p - f.find1 + SIZE) % SIZE
           moved == [p \in Position |->
                       IF dist(p) < Back(d, f) THEN d.records[(f.find2 + 1 + dist(p)) % SIZE]
                       ELSE d.records[p]]
<1>1. /\ h \in 0 .. SIZE - 1 /\ n \in 0 .. SIZE - 1 /\ n = Minus(d.tail, h)
      /\ d.tail \in 0 .. SIZE - 1 /\ d.tail \in -1 .. SIZE - 1
      /\ num \in 1 .. n /\ num \in 0 .. SIZE - 1
      /\ off + num <= n /\ off + num \in 0 .. SIZE - 1
  <2>1. h \in 0 .. SIZE - 1 /\ n \in 0 .. SIZE - 1 /\ n = Minus(d.tail, h) /\ d.tail \in 0 .. SIZE - 1
    BY Places
  <2> QED
    BY <2>1, Size
<1>2. d.tail = Plus(h, n)
  BY <1>1, Size DEF Plus, Minus
<1>3. e.head = h /\ e.tail = Minus(d.tail, num) /\ e.records = moved
  <2>1. (d.tail - num + SIZE) % SIZE = Minus(d.tail, num)
    BY <1>1, RoundDifference, Zenon
  <2>2. e = [d EXCEPT !.tail = Minus(d.tail, num), !.records = moved]
    BY <2>1 DEF CloseFromBack
  <2> HIDE DEF moved, num
  <2> QED
    BY <2>2 DEF Database
<1>4. Back(d, f) = n - off - num
  <2> DEFINE x == Plus(h, off + num)
  <2>1. off + num \in 0 .. SIZE - 1
    BY <1>1, Size
  <2>2. x \in 0 .. SIZE - 1
    BY <1>1, <2>1, PlusMinusType
  <2>3. f.find2 = x - 1
    BY <2>2, Size
  <2> HIDE DEF x
  <2>4. d.tail - f.find2 - 1 + SIZE = d.tail - x + SIZE
    BY <1>1, <2>2, <2>3, Size
  <2>5. Back(d, f) = Minus(d.tail, x)
    BY <1>1, <2>2, <2>4, RoundDifference, Zenon DEF Back
  <2>6. 0 \in 0 .. n - num
    BY <1>1
  <2>7. Minus(Plus(h, n), x) = n - off - num
    <3> HIDE DEF h, num
    <3>1. Minus(Plus(h, n), Plus(h, off + num)) = n - off - num
      BY <1>1, <2>6, RingMoves
    <3> QED
      BY <3>1 DEF x
  <2> QED
    BY <1>2, <2>5, <2>7
<1> HIDE DEF h, num, moved
<1>5. e.tail = Plus(h, n - num) /\ e.tail # d.tail
  <2>1. 0 \in 0 .. n - num
    BY <1>1
  <2>2. Plus(h, n - num) # Plus(h, n) /\ Minus(Plus(h, n), num) = Plus(h, n - num)
    BY <1>1, <2>1, RingMoves
  <2> QED
    BY <1>2, <1>3, <2>2
<1>6. Used(e) = n - num
  <2>1. Used(e) = Minus(e.tail, e.head)
    BY Places
  <2>2. Minus(Plus(h, n - num), h) = n - num
    BY <1>1, Size DEF Plus, Minus
  <2> QED
    BY <1>3, <1>5, <2>1, <2>2
<1>7. ASSUME NEW k \in 0 .. n - num - 1 PROVE Moved(d, e, off, num, k)
  <2> DEFINE p == Plus(h, k)
  <2>1. k \in 0 .. SIZE - 1 /\ k + num \in 0 .. SIZE - 1 /\ k \in 0 .. n - num
        /\ off \in 0 .. SIZE - 1 /\ off + num \in 0 .. SIZE - 1
    BY <1>1, Size
  <2>2. /\ Row(e, k) = e.records[p] /\ p \in Position
        /\ Row(d, k) = d.records[p] /\ Row(d, k + num) = d.records[Plus(h, k + num)]
    BY <1>3, <2>1, RowPlace DEF h
  <2>3. p \in -1 .. SIZE - 1 /\ f.find1 \in 0 .. SIZE - 1
    <3>1. p \in 0 .. SIZE - 1 /\ Plus(h, off) \in 0 .. SIZE - 1
      BY <1>1, <2>1, PlusMinusType
    <3> QED
      BY <3>1 DEF h
  <2>4. dist(p) = IF k < off THEN k - off + SIZE ELSE k - off
    <3>1. dist(p) = Minus(p, f.find1)
      BY <2>3, RoundDifference, Zenon
    <3>2. Minus(p, Plus(h, off)) = IF k < off THEN k - off + SIZE ELSE k - off
      BY <1>1, <2>1, RingMoves
    <3> QED
      BY <3>1, <3>2 DEF h
  <2>5. e.records[p] = IF dist(p) < Back(d, f) THEN d.records[(f.find2 + 1 + dist(p)) % SIZE]
                       ELSE d.records[p]
    BY <1>3, <2>2 DEF moved
  <2> HIDE DEF p, dist
  <2>6. CASE k < off
    <3>1. ~(dist(p) < Back(d, f))
      BY <1>1, <1>4, <2>1, <2>4, <2>6, Size
    <3> QED
      BY <2>2, <2>5, <2>6, <3>1 DEF Moved
  <2>7. CASE ~(k < off)
    <3>1. dist(p) = k - off /\ dist(p) < Back(d, f) /\ dist(p) \in 0 .. SIZE - 1
      BY <1>1, <1>4, <2>1, <2>4, <2>7, Size
    <3>2. Plus(h, off + num) \in 0 .. SIZE - 1 /\ f.find2 + 1 = Plus(h, off + num)
      BY <1>1, <2>1, PlusMinusType DEF h, num
    <3>3. (f.find2 + 1 + dist(p)) % SIZE = Plus(Plus(h, off + num), k - off)
      BY <3>1, <3>2, RoundSum
    <3>4. Plus(Plus(h, off + num), k - off) = Plus(h, k + num)
      BY <1>1, <2>1, <2>7, RingMoves
    <3> QED
      BY <2>2, <2>5, <2>7, <3>1, <3>3, <3>4 DEF Moved
  <2> QED
    BY <2>6, <2>7
<1> QED
  BY <1>5, <1>6, <1>7 DEF num

(* The records in front of those deleted are moved, all of them if the run *)
(* ends inside the array.                                                  *)
LEMMA FrontMoved ==
  ASSUME NEW d \in Database, NEW e \in Database, NEW f,
         NEW n, n = Used(d), NEW off \in 0 .. n, f.num \in 1 .. n, off + f.num <= n,
         f.find1 = Plus(d.head, off), f.find2 \in Int, f.find2 + 1 = Plus(d.head, off + f.num),
         off > 0 => f.find2 # -1,
         e = CloseFromFront(d, f)
  PROVE  /\ Used(e) = n - f.num
         /\ \A k \in 0 .. n - f.num : Moved(d, e, off, f.num, k)
<1> DEFINE h == d.head
           num == f.num
           dist(p) == (f.find2 - p + SIZE) % SIZE
           moved == [p \in Position |->
                       IF dist(p) < Front(d, f) /\ (dist(p) = 0 => p = f.find2)
                       THEN d.records[(f.find1 - 1 - dist(p) + SIZE) % SIZE] ELSE d.records[p]]
<1>1. /\ h \in 0 .. SIZE - 1 /\ n \in 0 .. SIZE - 1 /\ n = Minus(d.tail, h)
      /\ d.tail \in 0 .. SIZE - 1
      /\ num \in 1 .. n /\ num \in 0 .. SIZE - 1
      /\ off + num <= n /\ off + num \in 0 .. SIZE - 1 /\ off \in 0 .. SIZE - 1
  <2>1. h \in 0 .. SIZE - 1 /\ n \in 0 .. SIZE - 1 /\ n = Minus(d.tail, h) /\ d.tail \in 0 .. SIZE - 1
    BY Places
  <2> QED
    BY <2>1, Size
<1>2. d.tail = Plus(h, n)
  BY <1>1, Size DEF Plus, Minus
<1>3. e.head = Plus(h, num) /\ e.tail = d.tail /\ e.records = moved
  <2>1. (h + num) % SIZE = Plus(h, num)
    BY <1>1, RoundSum, Zenon
  <2>2. e = [d EXCEPT !.head = Plus(h, num), !.records = moved]
    BY <2>1 DEF CloseFromFront
  <2> HIDE DEF moved, num
  <2> QED
    BY <2>2 DEF Database
<1>4. Front(d, f) = off /\ f.find1 \in 0 .. SIZE - 1
  <2>1. Plus(h, off) \in 0 .. SIZE - 1
    BY <1>1, PlusMinusType
  <2>2. f.find1 \in -1 .. SIZE - 1
    BY <2>1
  <2>3. (f.find1 - h + SIZE) % SIZE = Minus(f.find1, h)
    BY <1>1, <2>2, RoundDifference, Zenon
  <2>4. Minus(Plus(h, off), h) = off
    BY <1>1, Size DEF Plus, Minus
  <2> QED
    BY <2>1, <2>3, <2>4 DEF Front
<1>5. f.find2 = Plus(h, off + num) - 1 /\ f.find2 \in -1 .. SIZE - 1
  <2>1. Plus(h, off + num) \in 0 .. SIZE - 1
    BY <1>1, PlusMinusType
  <2> QED
    BY <2>1, Size
<1> HIDE DEF h, num, moved
<1>6. Used(e) = n - num
  <2>1. Used(e) = Minus(e.tail, e.head)
    BY Places
  <2>2. Minus(Plus(h, n), Plus(h, num)) = n - num
    <3>1. 0 \in 0 .. n /\ 0 \in 0 .. n - num /\ 0 + num = num /\ n - 0 - num = n - num /\ num <= n
      BY <1>1
    <3> QED
      BY <1>1, <3>1, RingMoves
  <2> QED
    BY <1>2, <1>3, <2>1, <2>2
<1>7. ASSUME NEW k \in 0 .. n - num PROVE Moved(d, e, off, num, k)
  <2> DEFINE p == Plus(h, k + num)
  <2>1. k \in 0 .. SIZE - 1 /\ k + num \in 0 .. SIZE - 1
    BY <1>1, Size
  <2>2. /\ Row(d, k) = d.records[Plus(h, k)] /\ Row(d, k + num) = d.records[p]
        /\ p \in Position /\ p \in 0 .. SIZE - 1
    BY <1>1, <2>1, RowPlace, PlusMinusType DEF h
  <2>3. Row(e, k) = e.records[p]
    <3>1. Plus(Plus(h, num), k) = p
      BY <1>1, RingMoves
    <3> QED
      BY <1>3, <2>1, <3>1, RowPlace
  <2>4. dist(p) = IF k < off THEN off - 1 - k ELSE off - 1 - k + SIZE
    <3>1. dist(p) = Minus(f.find2, p)
      BY <1>5, <2>2, RoundDifference, Zenon
    <3>2. Minus(Plus(h, off + num) - 1, p) = IF k < off THEN off - 1 - k ELSE off - 1 - k + SIZE
      BY <1>1, RingMoves
    <3> QED
      BY <1>5, <3>1, <3>2
  <2>5. e.records[p] = IF dist(p) < off /\ (dist(p) = 0 => p = f.find2)
                       THEN d.records[(f.find1 - 1 - dist(p) + SIZE) % SIZE] ELSE d.records[p]
    BY <1>3, <1>4, <2>2 DEF moved
  <2>6. dist(p) = 0 => k = off - 1
    BY <1>1, <2>1, <2>4, Size
  <2>7. k = off - 1 => p = f.find2
    <3> SUFFICES ASSUME k = off - 1 PROVE p = f.find2
      OBVIOUS
    <3>1. off > 0 /\ k + num = off + num - 1
      BY <1>1, Size
    <3>2. Plus(h, off + num) # 0
      BY <1>5, <3>1
    <3> QED
      BY <1>1, <1>5, <3>1, <3>2, Size DEF Plus
  <2> HIDE DEF p, dist
  <2>8. CASE k < off
    <3>1. dist(p) = off - 1 - k /\ dist(p) < off /\ dist(p) \in 0 .. SIZE - 1
      BY <1>1, <2>1, <2>4, <2>8, Size
    <3>2. f.find1 - 1 \in -1 .. SIZE - 1
      BY <1>4, Size
    <3>3. (f.find1 - 1 - dist(p) + SIZE) % SIZE = Minus(f.find1 - 1, dist(p))
      BY <3>1, <3>2, RoundDifference, Zenon
    <3>4. Minus(Plus(h, off) - 1, off - 1 - k) = Plus(h, k)
      BY <1>1, <2>8, RingMoves
    <3>5. e.records[p] = d.records[Plus(h, k)]
      BY <2>5, <2>6, <2>7, <3>1, <3>3, <3>4 DEF h
    <3> QED
      BY <2>2, <2>3, <2>8, <3>5 DEF Moved
  <2>9. CASE ~(k < off)
    <3>1. ~(dist(p) < off)
      BY <1>1, <2>1, <2>4, <2>9, Size
    <3> QED
      BY <2>2, <2>3, <2>5, <2>9, <3>1 DEF Moved
  <2> QED
    BY <2>8, <2>9
<1> QED
  BY <1>6, <1>7 DEF num

LEMMA DeletedRows ==
  ASSUME Counted, Ordered(db, Used(db)), NEW q, gls_racp_check(q) = "SUCCESS", ~Gap(q),
         q.x \in Int, q.y \in Int, NEW f, f = gls_find_records(db, q), f.num > 0,
         ~(q.op = "RANGE" /\ WritesOutside(db, f)),
         NEW e, e = DeleteFound(db, q.op, f)
  PROVE  /\ Offset(f) \in Nat /\ f.num \in Nat /\ Used(e) = Used(db) - f.num
         /\ e.seq_num = db.seq_num
         /\ \A k \in 0 .. Used(db) - f.num :
              k < Used(db) - f.num \/ e.tail = db.tail => Moved(db, e, Offset(f), f.num, k)
<1> DEFINE n == Used(db)
           h == db.head
           off == Offset(f)
           less == [db EXCEPT !.record_num = (@ - f.num) % 256]
<1>1. /\ h \in 0 .. SIZE - 1 /\ db.tail \in 0 .. SIZE - 1 /\ n \in 0 .. SIZE - 1
      /\ db.record_num = n /\ db \in Database
  BY Places DEF Counted
<1>2. /\ off \in 0 .. n /\ f.num \in 1 .. n /\ off + f.num <= n
      /\ f.find1 = Plus(h, off) /\ db.tail = Plus(h, n)
      /\ q.op \in {"ALL_RECS", "LT_EQ", "FIRST"} => off = 0
      /\ q.op \in {"GT_EQ", "LAST"} => off = n - f.num
      /\ q.op \in {"LT_EQ", "RANGE"} => f.find2 + 1 = Plus(h, off + f.num)
      /\ q.op = "ALL_RECS" => f.num = n
      /\ q.op \in {"FIRST", "LAST"} => f.num = 1
  BY RunPlaces
<1>3. f.find2 \in -1 .. SIZE - 1
  BY Found
<1>4. e \in Database
  BY DeleteCounted DEF CountedIn
<1>5. /\ less \in Database /\ less.records = db.records /\ less.head = h /\ less.tail = db.tail
      /\ less.seq_num = db.seq_num
  <2>1. n - f.num \in 0 .. SIZE - 1
    BY <1>1, <1>2, Size
  <2>2. (db.record_num - f.num) % 256 \in 0 .. 255
    BY <1>1, <2>1, Byte
  <2> QED
    BY <1>1, <2>2 DEF Database
<1>6. \A k : Row(less, k) = Row(db, k)
  BY <1>5 DEF Row
<1>7. Used(less) = n
  BY <1>5 DEF Used
<1>8. q.op \in {"ALL_RECS", "LT_EQ", "GT_EQ", "RANGE", "FIRST", "LAST"}
  BY Accepted
<1>9. off \in Nat /\ f.num \in Nat
  BY <1>1, <1>2, Size
<1> HIDE DEF n, h, off, less
<1>10. ASSUME e.records = db.records, e.seq_num = db.seq_num,
              \/ off = 0 /\ e.head = Plus(h, f.num) /\ e.tail = db.tail
              \/ off = n - f.num /\ e.head = h /\ e.tail = Plus(h, n - f.num)
       PROVE  /\ Used(e) = n - f.num /\ e.seq_num = db.seq_num
              /\ \A k \in 0 .. n - f.num :
                   k < n - f.num \/ e.tail = db.tail => Moved(db, e, off, f.num, k)
  BY <1>1, <1>2, <1>4, <1>10, EndMoved DEF n, h
<1>11. ASSUME q.op = "ALL_RECS"
       PROVE  /\ e.records = db.records /\ e.seq_num = db.seq_num
              /\ off = 0 /\ e.head = Plus(h, f.num) /\ e.tail = db.tail
  <2>1. e = [db EXCEPT !.head = db.tail, !.record_num = 0]
    BY <1>11 DEF DeleteFound
  <2>2. e.records = db.records /\ e.seq_num = db.seq_num /\ e.head = db.tail /\ e.tail = db.tail
    BY <1>1, <2>1 DEF Database
  <2> QED
    BY <1>2, <1>11, <2>2
<1>12. ASSUME NEW p, e = [less EXCEPT !.head = p]
       PROVE  e.records = db.records /\ e.seq_num = db.seq_num /\ e.head = p /\ e.tail = db.tail
  BY <1>5, <1>12 DEF Database
<1>13. ASSUME NEW p, e = [less EXCEPT !.tail = p]
       PROVE  e.records = db.records /\ e.seq_num = db.seq_num /\ e.head = h /\ e.tail = p
  BY <1>5, <1>13 DEF Database
<1>14. ASSUME q.op = "LT_EQ"
       PROVE  /\ e.records = db.records /\ e.seq_num = db.seq_num
              /\ off = 0 /\ e.head = Plus(h, f.num) /\ e.tail = db.tail
  <2>1. off = 0 /\ f.find2 + 1 = Plus(h, f.num)
    BY <1>2, <1>9, <1>14
  <2>2. (f.find2 + 1) % SIZE = f.find2 + 1
    <3>1. f.num \in 0 .. SIZE - 1
      BY <1>1, <1>2, Size
    <3>2. f.find2 + 1 \in 0 .. SIZE - 1
      BY <1>1, <2>1, <3>1, PlusMinusType
    <3> QED
      BY <3>2, Size
  <2>3. e = [less EXCEPT !.head = f.find2 + 1]
    BY <1>14, <2>2 DEF DeleteFound, less
  <2> QED
    BY <1>12, <2>1, <2>3
<1>15. ASSUME q.op = "FIRST"
       PROVE  /\ e.records = db.records /\ e.seq_num = db.seq_num
              /\ off = 0 /\ e.head = Plus(h, f.num) /\ e.tail = db.tail
  <2>1. (less.head + 1) % SIZE = Plus(h, 1)
    BY <1>1, <1>5, RoundSum, Size
  <2>2. e = [less EXCEPT !.head = Plus(h, 1)]
    BY <1>15, <2>1 DEF DeleteFound, less
  <2> QED
    BY <1>2, <1>12, <1>15, <2>2
<1>16. ASSUME q.op = "GT_EQ"
       PROVE  /\ e.records = db.records /\ e.seq_num = db.seq_num
              /\ off = n - f.num /\ e.head = h /\ e.tail = Plus(h, n - f.num)
  <2>1. e = [less EXCEPT !.tail = f.find1]
    BY <1>16 DEF DeleteFound, less
  <2> QED
    BY <1>2, <1>13, <1>16, <2>1
<1>17. ASSUME q.op = "LAST"
       PROVE  /\ e.records = db.records /\ e.seq_num = db.seq_num
              /\ off = n - f.num /\ e.head = h /\ e.tail = Plus(h, n - f.num)
  <2>1. f.num = 1 /\ off = n - f.num
    BY <1>2, <1>17
  <2>2. (less.tail - 1 + SIZE) % SIZE = Plus(h, n - 1)
    <3>1. db.tail \in -1 .. SIZE - 1 /\ 1 \in 0 .. SIZE - 1
      BY <1>1, Size
    <3>2. (db.tail - 1 + SIZE) % SIZE = Minus(db.tail, 1)
      BY <3>1, RoundDifference, Zenon
    <3>3. Minus(Plus(h, n), 1) = Plus(h, n - 1)
      <4>1. n \in 1 .. SIZE - 1
        BY <1>1, <1>2
      <4> QED
        BY <1>1, <4>1, Size DEF Plus, Minus
    <3> QED
      BY <1>2, <1>5, <3>2, <3>3
  <2>3. e = [less EXCEPT !.tail = Plus(h, n - 1)]
    BY <1>17, <2>2 DEF DeleteFound, less
  <2> QED
    BY <1>13, <2>1, <2>3
<1>18. ASSUME q.op = "RANGE"
       PROVE  /\ Used(e) = n - f.num /\ e.seq_num = db.seq_num
              /\ \A k \in 0 .. n - f.num :
                   k < n - f.num \/ e.tail = db.tail => Moved(db, e, off, f.num, k)
  <2>1. /\ f.find1 = Plus(less.head, off) /\ f.find2 \in Int
        /\ f.find2 + 1 = Plus(less.head, off + f.num)
    BY <1>2, <1>3, <1>5, <1>18
  <2>2. e = IF Front(db, f) > Back(db, f) THEN CloseFromBack(less, f) ELSE CloseFromFront(less, f)
    BY <1>18 DEF DeleteFound, less
  <2>3. \A k : Moved(less, e, off, f.num, k) => Moved(db, e, off, f.num, k)
    BY <1>6 DEF Moved
  <2>4. CASE Front(db, f) > Back(db, f)
    <3>1. e = CloseFromBack(less, f)
      BY <2>2, <2>4
    <3>2. e.seq_num = db.seq_num
      BY <1>5, <3>1 DEF CloseFromBack, Database
    <3>3. /\ e.tail # less.tail /\ Used(e) = n - f.num
          /\ \A k \in 0 .. n - f.num - 1 : Moved(less, e, off, f.num, k)
      BY <1>2, <1>4, <1>5, <1>7, <2>1, <3>1, BackMoved
    <3>4. \A k \in 0 .. n - f.num : k < n - f.num => k \in 0 .. n - f.num - 1
      BY <1>1, <1>2
    <3> QED
      BY <1>5, <2>3, <3>2, <3>3, <3>4
  <2>5. CASE ~(Front(db, f) > Back(db, f))
    <3>1. e = CloseFromFront(less, f)
      BY <2>2, <2>5
    <3>2. e.seq_num = db.seq_num
      BY <1>5, <3>1 DEF CloseFromFront, Database
    <3>3. Front(db, f) = off
      BY DEF Front, off, Offset
    <3>4. Back(db, f) \in Int
      <4>1. db.tail - f.find2 - 1 + SIZE \in Int
        BY <1>1, <1>3, Size
      <4>2. Back(db, f) \in Position
        BY <4>1, RoundType DEF Back
      <4> QED
        BY <4>2, Size DEF Position
    <3>5. off > 0 => f.find2 # -1
      <4> SUFFICES ASSUME off > 0, f.find2 = -1 PROVE FALSE
        OBVIOUS
      <4>1. Front(db, f) \in 1 .. Back(db, f)
        BY <1>2, <1>9, <2>5, <3>3, <3>4
      <4> QED
        BY <1>18, <4>1 DEF WritesOutside
    <3>6. /\ Used(e) = n - f.num
          /\ \A k \in 0 .. n - f.num : Moved(less, e, off, f.num, k)
      BY <1>2, <1>4, <1>5, <1>7, <2>1, <3>1, <3>5, FrontMoved
    <3> QED
      BY <2>3, <3>2, <3>6
  <2> QED
    BY <2>4, <2>5
<1>19. /\ Used(e) = n - f.num /\ e.seq_num = db.seq_num
       /\ \A k \in 0 .. n - f.num :
            k < n - f.num \/ e.tail = db.tail => Moved(db, e, off, f.num, k)
  BY <1>8, <1>10, <1>11, <1>14, <1>15, <1>16, <1>17, <1>18
<1> QED
  BY <1>9, <1>19 DEF n, off

-----------------------------------------------------------------------------
(* The order of the records.  The record being prepared is the last.       *)

Rows(d, draft) == Used(d) + (IF draft THEN 1 ELSE 0)
Chain == Ordered(db, Rows(db, drafting)) /\ db.seq_num <= MaxRecords

LEMMA MovedOrder ==
  ASSUME NEW d, NEW e, NEW n \in Nat, NEW m \in Nat, NEW off \in Nat, NEW num \in Nat,
         m + num <= n, Ordered(d, n), e.seq_num = d.seq_num,
         \A k \in 0 .. m - 1 : Moved(d, e, off, num, k)
  PROVE  Ordered(e, m)
<1> DEFINE g(k) == IF k < off THEN k ELSE k + num
<1>1. ASSUME NEW k \in 0 .. m - 1, NEW j \in 0 .. k
      PROVE  /\ g(k) \in 0 .. n - 1 /\ g(j) \in 0 .. g(k)
             /\ j \in 0 .. m - 1
  OBVIOUS
<1>2. \A k \in 0 .. m - 1 : Row(e, k) = Row(d, g(k))
  BY DEF Moved
<1> HIDE DEF g
<1>3. \A k \in 0 .. m - 1 : k \in 0 .. k
  OBVIOUS
<1> QED
  BY <1>1, <1>2, <1>3, Zenon DEF Ordered

LEMMA ShorterOrder ==
  ASSUME NEW d, NEW n \in Nat, NEW m \in Nat, m <= n, Ordered(d, n)
  PROVE  Ordered(d, m)
<1>1. \A k \in 0 .. m - 1 : k \in 0 .. n - 1
  OBVIOUS
<1> QED
  BY <1>1, Zenon DEF Ordered

LEMMA BaseOrder ==
  ASSUME Counted, Chain, drafting \in BOOLEAN
  PROVE  Ordered(db, Used(db)) /\ Used(db) \in 0 .. SIZE - 1 /\ Rows(db, drafting) \in Nat
<1>1. Used(db) \in 0 .. SIZE - 1 /\ Used(db) \in Nat
  BY Places, Size DEF Counted
<1>2. Rows(db, drafting) \in Nat /\ Used(db) <= Rows(db, drafting)
  BY <1>1 DEF Rows
<1> QED
  BY <1>1, <1>2, ShorterOrder DEF Chain

LEMMA ChainInit == Init => Chain
<1> SUFFICES ASSUME Init PROVE Chain
  OBVIOUS
<1>1. db = gls_add_service /\ drafting = FALSE
  BY DEF Init
<1>2. db.seq_num = 0 /\ Used(db) = (0 - 0 + SIZE) % SIZE
  BY <1>1 DEF gls_add_service, Used
<1>3. Rows(db, drafting) = 0
  BY <1>1, <1>2, Size DEF Rows
<1>4. \A k : k \notin 0 .. 0 - 1
  OBVIOUS
<1>5. Ordered(db, 0)
  BY <1>4 DEF Ordered
<1>6. 0 <= MaxRecords
  BY GlsAssumption DEF GlsAssumption
<1> QED
  BY <1>2, <1>3, <1>5, <1>6 DEF Chain

(* A new record has a new number, and no earlier time than those stored.   *)
LEMMA PrepareRows ==
  ASSUME NEW d \in Database, NEW time, NEW ctxt, NEW e, e = gls_prepare_new_record(d, time, ctxt)
  PROVE  /\ Used(e) = Used(d) /\ e.head = d.head /\ e.record_num = d.record_num
         /\ e.tail = d.tail /\ e.seq_num = (d.seq_num + 1) % WordSize
         /\ \A k \in 0 .. Used(d) - 1 : Row(e, k) = Row(d, k)
         /\ Row(e, Used(d)) = [seq_num |-> (d.seq_num + 1) % WordSize, base_time |-> time,
                               ctxt_info_follows |-> ctxt]
<1> DEFINE n == (d.seq_num + 1) % WordSize
           r == [seq_num |-> n, base_time |-> time, ctxt_info_follows |-> ctxt]
           u == Used(d)
           h == d.head
<1>1. e = [d EXCEPT !.seq_num = n, !.records[d.tail] = r]
  BY DEF gls_prepare_new_record
<1> HIDE DEF n, r
<1>2. /\ e.head = h /\ e.tail = d.tail /\ e.record_num = d.record_num /\ e.seq_num = n
      /\ e.records = [d.records EXCEPT ![d.tail] = r] /\ d.records \in [Position -> Record]
  BY <1>1 DEF Database
<1>3. h \in 0 .. SIZE - 1 /\ d.tail \in 0 .. SIZE - 1 /\ u \in 0 .. SIZE - 1 /\ u = Minus(d.tail, h)
  BY Places
<1>4. Used(e) = u
  BY <1>2 DEF Used
<1> HIDE DEF u, h
<1>5. d.tail = Plus(h, u)
  BY <1>3, Size DEF Plus, Minus
<1>6. \A k \in 0 .. u : (h + k) % SIZE = Plus(h, k) /\ Plus(h, k) \in Position
  <2> TAKE k \in 0 .. u
  <2>1. k \in 0 .. SIZE - 1
    BY <1>3, Size
  <2> QED
    BY <1>3, <2>1, RoundSum, PlusMinusType DEF Position
<1>7. ASSUME NEW k \in 0 .. u - 1 PROVE Row(e, k) = Row(d, k)
  <2>1. k \in 0 .. u
    BY <1>3
  <2>2. Plus(h, k) # Plus(h, u)
    BY <1>3, <2>1, Size DEF Plus
  <2>3. e.records[Plus(h, k)] = d.records[Plus(h, k)]
    BY <1>2, <1>5, <1>6, <2>1, <2>2
  <2> QED
    BY <1>2, <1>6, <2>1, <2>3 DEF Row, h
<1>8. Row(e, u) = r
  <2>1. u \in 0 .. u /\ d.tail \in Position
    BY <1>3 DEF Position
  <2>2. e.records[d.tail] = r
    BY <1>2, <2>1
  <2> QED
    BY <1>2, <1>5, <1>6, <2>1, <2>2 DEF Row
<1> QED
  BY <1>2, <1>4, <1>7, <1>8 DEF n, r, u, h

LEMMA PushRows ==
  ASSUME NEW d \in Database, NEW e, e = gls_push_new_record(d)
  PROVE  /\ e.seq_num = d.seq_num
         /\ Full(d) => /\ Used(e) = Used(d) /\ Used(d) + 1 <= SIZE
                       /\ \A k \in 0 .. Used(d) - 1 : Row(e, k) = Row(d, k + 1)
         /\ ~Full(d) => /\ Used(e) = Used(d) + 1 /\ Used(d) + 1 \in 0 .. SIZE - 1
                        /\ \A k \in 0 .. Used(d) : Row(e, k) = Row(d, k)
<1> DEFINE h == d.head
           t == d.tail
           u == Used(d)
<1>1. h \in 0 .. SIZE - 1 /\ t \in 0 .. SIZE - 1 /\ u \in 0 .. SIZE - 1 /\ u = Minus(t, h)
  BY Places
<1> HIDE DEF h, t, u
<1>2. h \in -1 .. SIZE - 1 /\ t \in -1 .. SIZE - 1
  BY <1>1
<1>3. /\ (h + 1) % SIZE = Plus(h, 1) /\ (t + 1) % SIZE = Plus(t, 1)
      /\ (h - t + SIZE) % SIZE = Minus(h, t)
  BY <1>1, <1>2, RoundNext, RoundDifference, Zenon
<1>4. Plus(h, 1) \in 0 .. SIZE - 1 /\ Plus(t, 1) \in 0 .. SIZE - 1
  BY <1>1, Size DEF Plus
<1>5. CASE Full(d)
  <2>1. e = [d EXCEPT !.head = Plus(h, 1), !.tail = Plus(t, 1)]
    BY <1>3, <1>5 DEF gls_push_new_record, h, t
  <2>2. e.head = Plus(h, 1) /\ e.tail = Plus(t, 1) /\ e.records = d.records /\ e.seq_num = d.seq_num
    BY <2>1 DEF Database
  <2>3. Used(e) = Minus(Plus(t, 1), Plus(h, 1))
    <3>1. Plus(t, 1) \in -1 .. SIZE - 1
      BY <1>4
    <3> QED
      BY <1>4, <2>2, <3>1, RoundDifference, Zenon DEF Used
  <2>4. Minus(Plus(t, 1), Plus(h, 1)) = u
    BY <1>1, Size DEF Plus, Minus
  <2>5. ASSUME NEW k \in 0 .. u - 1 PROVE Row(e, k) = Row(d, k + 1)
    <3>1. k \in 0 .. SIZE - 1 /\ k + 1 \in 0 .. SIZE - 1
      BY <1>1, Size
    <3>2. (Plus(h, 1) + k) % SIZE = Plus(Plus(h, 1), k) /\ (h + (k + 1)) % SIZE = Plus(h, k + 1)
      BY <1>1, <1>4, <3>1, RoundSum
    <3>3. Plus(Plus(h, 1), k) = Plus(h, k + 1)
      BY <1>1, <3>1, Size DEF Plus
    <3> QED
      BY <2>2, <3>2, <3>3 DEF Row, h
  <2>6. u + 1 <= SIZE
    BY <1>1, Size
  <2> QED
    BY <1>5, <2>2, <2>3, <2>4, <2>5, <2>6 DEF u
<1>6. CASE ~Full(d)
  <2>1. e = [d EXCEPT !.tail = Plus(t, 1), !.record_num = (d.record_num + 1) % 256]
    BY <1>3, <1>6 DEF gls_push_new_record, t
  <2>2. e.head = h /\ e.tail = Plus(t, 1) /\ e.records = d.records /\ e.seq_num = d.seq_num
    BY <2>1 DEF Database, h
  <2>3. Minus(h, t) # 1
    BY <1>3, <1>6 DEF Full, h, t
  <2>4. Used(e) = Minus(Plus(t, 1), h)
    <3>1. Plus(t, 1) \in -1 .. SIZE - 1
      BY <1>4
    <3> QED
      BY <1>1, <2>2, <3>1, RoundDifference, Zenon DEF Used
  <2>5. Minus(Plus(t, 1), h) = u + 1 /\ u + 1 \in 0 .. SIZE - 1
    BY <1>1, <2>3, Size DEF Plus, Minus
  <2>6. \A k : Row(e, k) = Row(d, k)
    BY <2>2 DEF Row, h
  <2> QED
    BY <1>6, <2>2, <2>4, <2>5, <2>6 DEF u
<1> QED
  BY <1>5, <1>6

(* Every step keeps the order of the records.                              *)
LEMMA PrepareChain ==
  ASSUME Counted, Chain, NEW sample \in Samples, Prepare(sample)
  PROVE  Chain'
<1> DEFINE u == Used(db)
           n == (db.seq_num + 1) % WordSize
           e == gls_prepare_new_record(db, sample.time, sample.ctxt)
<1>1. db \in Database /\ drafting = FALSE /\ drafting' = TRUE /\ db' = e /\ db.seq_num < MaxRecords
  BY DEF Counted, Prepare
<1>2. u \in Nat /\ Ordered(db, u)
  <2>1. u \in Nat
    BY Places, Size DEF Counted
  <2>2. Rows(db, drafting) = u
    BY <1>1, <2>1 DEF Rows
  <2> QED
    BY <2>1, <2>2 DEF Chain
<1>3. db.seq_num \in Nat /\ n = db.seq_num + 1 /\ n <= MaxRecords
  <2>1. db.seq_num \in 0 .. WordSize - 1
    BY <1>1 DEF Database, Word
  <2> QED
    BY <1>1, <2>1, GlsAssumption, WordSizeType DEF GlsAssumption
<1>4. /\ Used(e) = u /\ e.seq_num = n
      /\ \A k \in 0 .. u - 1 : Row(e, k) = Row(db, k)
      /\ Row(e, u).seq_num = n /\ Row(e, u).base_time = sample.time
  <2> DEFINE r == [seq_num |-> n, base_time |-> sample.time, ctxt_info_follows |-> sample.ctxt]
  <2>1. /\ Used(e) = u /\ e.seq_num = n /\ Row(e, u) = r
        /\ \A k \in 0 .. u - 1 : Row(e, k) = Row(db, k)
    BY <1>1, PrepareRows
  <2>2. r.seq_num = n /\ r.base_time = sample.time
    OBVIOUS
  <2> HIDE DEF r, n
  <2> QED
    BY <2>1, <2>2
<1>5. \A k \in 0 .. u - 1 : Row(db, k).base_time <= sample.time
  <2> TAKE k \in 0 .. u - 1
  <2>1. k + 1 \in DOMAIN Stored(db) /\ Stored(db)[k + 1] = Row(db, k)
    <3>1. Stored(db) \in Seq(Record) /\ Len(Stored(db)) = u
          /\ \A i \in 1 .. u : Stored(db)[i] = db.records[(db.head + i - 1) % SIZE]
      BY StoredSequence
    <3>2. db.head \in Int
      BY Places, Size DEF Counted
    <3>3. k + 1 \in 1 .. u /\ db.head + (k + 1) - 1 = db.head + k
      BY <1>2, <3>2
    <3>4. DOMAIN Stored(db) = 1 .. u
      BY <3>1
    <3> QED
      BY <3>1, <3>3, <3>4 DEF Row
  <2> QED
    BY <2>1 DEF Prepare
<1> HIDE DEF u, n, e
<1>6. Rows(db', drafting') = u + 1
  BY <1>1, <1>4 DEF Rows
<1>7. Ordered(e, u + 1)
  <2> SUFFICES ASSUME NEW k \in 0 .. (u + 1) - 1
               PROVE  /\ Row(e, k).seq_num <= e.seq_num
                      /\ \A j \in 0 .. k : Before(Row(e, j), Row(e, k))
    BY DEF Ordered
  <2>1. CASE k \in 0 .. u - 1
    <3>1. \A j \in 0 .. k : j \in 0 .. u - 1
      BY <1>2, <2>1
    <3>2. /\ Row(db, k).seq_num <= db.seq_num
          /\ \A j \in 0 .. k : Before(Row(db, j), Row(db, k))
      BY <1>2, <2>1 DEF Ordered
    <3>3. Row(db, k).seq_num \in Int
      <4>1. k \in 0 .. SIZE - 1
        BY <1>1, <1>2, <2>1, Places, Size DEF u
      <4>2. Row(db, k) \in Record
        BY <1>1, <4>1, RowPlace
      <4> QED
        BY <4>2, WordSizeType DEF Record, Word
    <3> QED
      BY <1>3, <1>4, <2>1, <3>1, <3>2, <3>3
  <2>2. CASE k = u
    <3>1. ASSUME NEW j \in 0 .. u PROVE Before(Row(e, j), Row(e, u))
      <4>1. CASE j = u
        <5>1. sample.time \in Int
          <6>1. sample.time \in 0 .. MaxTime
            BY GlsAssumption DEF GlsAssumption
          <6> QED
            BY <6>1
        <5> QED
          BY <1>3, <1>4, <4>1, <5>1 DEF Before
      <4>2. CASE j # u
        <5>1. j \in 0 .. u - 1
          BY <1>2, <4>2
        <5>2. Row(e, j) = Row(db, j) /\ Row(db, j).base_time <= sample.time
          BY <1>4, <1>5, <5>1
        <5>3. Row(db, j).seq_num <= db.seq_num
          BY <1>2, <5>1 DEF Ordered
        <5>4. Row(db, j).seq_num \in Int
          <6>1. j \in 0 .. SIZE - 1
            BY <1>1, <1>2, <5>1, Places, Size DEF u
          <6>2. Row(db, j) \in Record
            BY <1>1, <6>1, RowPlace
          <6> QED
            BY <6>2, WordSizeType DEF Record, Word
        <5>5. Row(db, j).seq_num <= n
          BY <1>3, <5>3, <5>4
        <5> QED
          BY <1>4, <5>2, <5>5 DEF Before
      <4> QED
        BY <4>1, <4>2
    <3>2. n <= n
      BY <1>3
    <3> QED
      BY <1>4, <2>2, <3>1, <3>2
  <2> QED
    BY <1>2, <2>1, <2>2
<1> QED
  BY <1>1, <1>3, <1>4, <1>6, <1>7 DEF Chain

LEMMA PushChain ==
  ASSUME Counted, Chain, Push
  PROVE  Chain'
<1> DEFINE u == Used(db)
           e == gls_push_new_record(db)
<1>1. db \in Database /\ drafting = TRUE /\ drafting' = FALSE /\ db' = e
  BY DEF Counted, Push
<1>2. u \in Nat /\ Rows(db, drafting) = u + 1
  <2>1. u \in Nat
    BY Places, Size DEF Counted
  <2> QED
    BY <1>1, <2>1 DEF Rows
<1>3. Ordered(db, u + 1) /\ db.seq_num <= MaxRecords
  BY <1>2 DEF Chain
<1>4. /\ e.seq_num = db.seq_num
      /\ Full(db) => Used(e) = u /\ \A k \in 0 .. u - 1 : Row(e, k) = Row(db, k + 1)
      /\ ~Full(db) => Used(e) = u + 1 /\ \A k \in 0 .. u : Row(e, k) = Row(db, k)
  BY <1>1, PushRows
<1> HIDE DEF u, e
<1>5. CASE Full(db)
  <2>1. Used(e) = u /\ \A k \in 0 .. u - 1 : Moved(db, e, 0, 1, k)
    BY <1>4, <1>5 DEF Moved
  <2>2. Rows(db', drafting') = u
    BY <1>1, <1>2, <2>1 DEF Rows
  <2>3. Ordered(e, u)
    BY <1>2, <1>3, <1>4, <2>1, MovedOrder
  <2> QED
    BY <1>1, <1>3, <1>4, <2>2, <2>3 DEF Chain
<1>6. CASE ~Full(db)
  <2>1. Used(e) = u + 1 /\ \A k \in 0 .. (u + 1) - 1 : Moved(db, e, u + 1, 0, k)
    BY <1>2, <1>4, <1>6 DEF Moved
  <2>2. Rows(db', drafting') = u + 1
    BY <1>1, <1>2, <2>1 DEF Rows
  <2>3. Ordered(e, u + 1)
    BY <1>2, <1>3, <1>4, <2>1, MovedOrder
  <2> QED
    BY <1>1, <1>3, <1>4, <2>2, <2>3 DEF Chain
<1> QED
  BY <1>5, <1>6

LEMMA WriteChain ==
  ASSUME Counted, Chain, Bounds, Strict, NEW q \in Request, WriteRequest(q)
  PROVE  Chain'
<1>1. /\ ~Gap(q) /\ ~Outside(q) /\ ~(drafting /\ DatabaseAfter(q).tail # db.tail)
      /\ db' = DatabaseAfter(q) /\ drafting' = drafting
  BY DEF WriteRequest, Allowed, Strict
<1>2. q.x \in Int /\ q.y \in Int
  BY RequestType
<1>3. Ordered(db, Used(db)) /\ drafting \in BOOLEAN /\ Used(db) \in Nat
  BY BaseOrder, Size DEF Bounds
<1>4. CASE ~Deletes(q)
  BY <1>1, <1>4 DEF DatabaseAfter, Chain
<1>5. CASE Deletes(q)
  <2> DEFINE f == gls_find_records(db, q)
             e == DeleteFound(db, q.op, f)
             num == f.num
             m == Rows(e, drafting)
             u == Used(db)
  <2>1. db' = e /\ gls_racp_check(q) = "SUCCESS" /\ f.num > 0 /\ ~(q.op = "RANGE" /\ WritesOutside(db, f))
    BY <1>1, <1>5 DEF DatabaseAfter, Deletes, Outside
  <2>2. /\ Offset(f) \in Nat /\ num \in Nat /\ Used(e) = u - num
        /\ e.seq_num = db.seq_num
        /\ \A k \in 0 .. u - num :
             k < u - num \/ e.tail = db.tail => Moved(db, e, Offset(f), num, k)
    BY <1>1, <1>2, <1>3, <2>1, DeletedRows
  <2>3. num <= u
    BY <1>1, <1>2, <1>3, <2>1, RunPlaces
  <2>4. drafting => e.tail = db.tail
    BY <1>1, <2>1
  <2> HIDE DEF f, e, num, u
  <2>5. m \in Nat /\ Rows(db, drafting) \in Nat /\ m + num <= Rows(db, drafting)
    BY <1>3, <2>2, <2>3 DEF Rows, u
  <2>6. \A k \in 0 .. m - 1 : Moved(db, e, Offset(f), num, k)
    <3> TAKE k \in 0 .. m - 1
    <3>1. k \in 0 .. u - num /\ (k < u - num \/ drafting)
      BY <1>3, <2>2, <2>3 DEF Rows, u
    <3> QED
      BY <2>2, <2>4, <3>1
  <2> HIDE DEF m
  <2>7. Ordered(e, m)
    BY <2>2, <2>5, <2>6, MovedOrder DEF Chain
  <2> QED
    BY <1>1, <2>1, <2>2, <2>7 DEF Chain, m
<1> QED
  BY <1>4, <1>5

-----------------------------------------------------------------------------
(* The report.  What the client has heard of what is due, and the packet   *)
(* on the air, which is the next one that is due.                          *)

HeardOf(D, H) ==
  /\ D \in Seq(Packet) /\ H \in Seq(Packet)
  /\ Len(H) <= Len(D) /\ \A i \in 1 .. Len(H) : H[i] = D[i]

Remaining(r, K) ==
  \A c \in r.current .. r.num - 1 :
    r.offset + c < Used(db) /\ Row(db, r.offset + c) = K[c]
OnAir(r, w, K, at, H) ==
  \/ /\ r.send_data_flag = 1 /\ r.current < r.num
     /\ w = <<Measurement(K[r.current])>> /\ Len(H) = at[r.current]
  \/ /\ r.send_data_flag = 2 /\ 1 <= r.current
     /\ K[r.current - 1].ctxt_info_follows
     /\ w = <<Context(K[r.current - 1])>> /\ Len(H) = at[r.current - 1] + 1
Underway(r, w, D, H) ==
  \E K, at : Layout(D, K, r.num, at) /\ Remaining(r, K) /\ OnAir(r, w, K, at, H)
Truthful(packet, D, H) ==
  /\ packet.kind = "response" /\ packet.op_code = "REPORT_RECS" /\ packet.code = "SUCCESS"
       => H = D
  /\ packet.kind = "number" => packet.num = Cardinality(Measured(D))
Says(r, w, D, H) ==
  /\ HeardOf(D, H)
  /\ \A packet : w = <<packet>> => Truthful(packet, D, H)
  /\ r.op_code = "REPORT_RECS" => Underway(r, w, D, H)

(* The packets of record c.                                                *)
PlacesOf(D, K, at, c) ==
  /\ Len(D) \in Nat /\ at[c] \in Nat /\ at[c + 1] \in Nat
  /\ at[c] + 1 <= Len(D) /\ D[at[c] + 1] = Measurement(K[c])
  /\ K[c].ctxt_info_follows =>
       /\ at[c + 1] = at[c] + 2 /\ at[c] + 2 <= Len(D) /\ D[at[c] + 2] = Context(K[c])
  /\ ~K[c].ctxt_info_follows => at[c + 1] = at[c] + 1
LEMMA LayoutPlaces ==
  ASSUME NEW D, NEW K, NEW n \in Nat, NEW at, Layout(D, K, n, at), NEW c \in 0 .. n - 1
  PROVE  PlacesOf(D, K, at, c)
<1>1. D \in Seq(Packet) /\ Len(D) \in Nat
  BY DEF Layout
<1>2. c \in 0 .. n /\ c + 1 \in 0 .. n
  OBVIOUS
<1>3. at[c] \in Nat /\ at[c + 1] \in Nat /\ K[c] \in Record
  BY <1>2 DEF Layout
<1>4. /\ Len(PacketsOf(K[c])) = IF K[c].ctxt_info_follows THEN 2 ELSE 1
      /\ PacketsOf(K[c])[1] = Measurement(K[c])
      /\ K[c].ctxt_info_follows => PacketsOf(K[c])[2] = Context(K[c])
  BY <1>3, RecordPackets
<1>5. /\ at[c + 1] = at[c] + Len(PacketsOf(K[c])) /\ at[c + 1] <= Len(D)
      /\ \A p \in 1 .. Len(PacketsOf(K[c])) : D[at[c] + p] = PacketsOf(K[c])[p]
  BY DEF Layout
<1>6. CASE K[c].ctxt_info_follows
  <2>1. Len(PacketsOf(K[c])) = 2 /\ 1 \in 1 .. 2 /\ 2 \in 1 .. 2
    BY <1>4, <1>6
  <2>2. D[at[c] + 1] = Measurement(K[c]) /\ D[at[c] + 2] = Context(K[c])
    BY <1>4, <1>5, <1>6, <2>1
  <2>3. at[c + 1] = at[c] + 2
    BY <1>5, <2>1
  <2> QED
    BY <1>1, <1>3, <1>5, <1>6, <2>2, <2>3 DEF PlacesOf
<1>7. CASE ~K[c].ctxt_info_follows
  <2>1. Len(PacketsOf(K[c])) = 1 /\ 1 \in 1 .. 1
    BY <1>4, <1>7
  <2>2. D[at[c] + 1] = Measurement(K[c])
    BY <1>4, <1>5, <2>1
  <2>3. at[c + 1] = at[c] + 1
    BY <1>5, <2>1
  <2> QED
    BY <1>1, <1>3, <1>5, <1>7, <2>2, <2>3 DEF PlacesOf
<1> QED
  BY <1>6, <1>7

(* One more packet heard.                                                  *)
LEMMA HeardMore ==
  ASSUME NEW D, NEW H, HeardOf(D, H), NEW packet, Len(H) + 1 <= Len(D), D[Len(H) + 1] = packet
  PROVE  HeardOf(D, Append(H, packet)) /\ Len(Append(H, packet)) = Len(H) + 1
<1>1. D \in Seq(Packet) /\ H \in Seq(Packet) /\ Len(H) \in Nat /\ Len(D) \in Nat
  BY DEF HeardOf
<1>2. packet \in Packet
  <2>1. Len(H) + 1 \in 1 .. Len(D)
    BY <1>1
  <2> QED
    BY <1>1, <2>1
<1>3. /\ Append(H, packet) \in Seq(Packet) /\ Len(Append(H, packet)) = Len(H) + 1
      /\ \A i \in 1 .. Len(H) : Append(H, packet)[i] = H[i]
      /\ Append(H, packet)[Len(H) + 1] = packet
  BY <1>1, <1>2, AppendProperties
<1>4. ASSUME NEW i \in 1 .. Len(H) + 1
      PROVE  Append(H, packet)[i] = D[i]
  <2>1. CASE i \in 1 .. Len(H)
    BY <1>3, <2>1 DEF HeardOf
  <2>2. CASE i = Len(H) + 1
    BY <1>3, <2>2
  <2> QED
    BY <1>1, <2>1, <2>2
<1> QED
  BY <1>1, <1>3, <1>4 DEF HeardOf

(* All of it heard.                                                        *)
LEMMA HeardAll ==
  ASSUME NEW D, NEW H, HeardOf(D, H), Len(H) = Len(D)
  PROVE  H = D
<1>1. D \in Seq(Packet) /\ H \in Seq(Packet) /\ \A i \in 1 .. Len(H) : H[i] = D[i]
  BY DEF HeardOf
<1> QED
  BY <1>1, SeqEqual

-----------------------------------------------------------------------------
(* The outcomes.  A step that failed leaves no packet.                     *)

SaysOrFails(o, D, H) ==
  \/ o.ok = TRUE /\ Says(o.racp, Wire(o), D, H)
  \/ o.ok = FALSE /\ o.packet = None

(* A control point that is not reporting, with an answer or without.       *)
LEMMA AnswerSays ==
  ASSUME NEW D, NEW H, HeardOf(D, H), NEW r, r.op_code # "REPORT_RECS",
         NEW packet, Truthful(packet, D, H), packet.kind # "none", NEW o \in Sent(r, packet)
  PROVE  Says(o.racp, Wire(o), D, H) /\ SaysOrFails(o, D, H)
<1>1. Outcome(o, r, packet)
  BY SentOutcomes, Zenon
<1>2. o.racp.op_code # "REPORT_RECS"
  BY <1>1, Zenon DEF Outcome
<1>3. ASSUME NEW p, Wire(o) = <<p>> PROVE Truthful(p, D, H)
  <2>1. Wire(o) = <<packet>>
    BY <1>1, <1>3 DEF Outcome
  <2>2. p = packet
    BY <1>3, <2>1
  <2> QED
    BY <2>2
<1>4. Says(o.racp, Wire(o), D, H)
  BY <1>2, <1>3, Zenon DEF Says
<1> QED
  BY <1>1, <1>4, Zenon DEF Outcome, SaysOrFails

LEMMA ResponseSays ==
  ASSUME NEW D, NEW H, HeardOf(D, H), NEW r \in Racp, NEW code,
         r.op_code = "REPORT_RECS" /\ code = "SUCCESS" => H = D,
         NEW o \in gls_racp_response(r, code)
  PROVE  Says(o.racp, Wire(o), D, H) /\ SaysOrFails(o, D, H)
<1> DEFINE s == [r EXCEPT !.send_data_flag = 3, !.op_code = "RESP_CODE"]
           packet == Response(r.op_code, code)
<1>1. s.op_code # "REPORT_RECS"
  BY DEF Racp
<1>2. packet.kind = "response" /\ packet.op_code = r.op_code /\ packet.code = code
  BY DEF Response
<1>3. o \in Sent(s, packet)
  BY DEF gls_racp_response
<1> HIDE DEF s, packet
<1>4. Truthful(packet, D, H) /\ packet.kind # "none"
  BY <1>2 DEF Truthful
<1> QED
  BY <1>1, <1>3, <1>4, AnswerSays, Zenon

LEMMA NumberSays ==
  ASSUME NEW D, NEW H, HeardOf(D, H), NEW r \in Racp, NEW n, n = Cardinality(Measured(D)),
         NEW o \in gls_racp_num_response(r, n)
  PROVE  Says(o.racp, Wire(o), D, H)
<1> DEFINE s == [r EXCEPT !.send_data_flag = 3, !.op_code = "NBR_OF_RECS_RESP"]
           packet == Number(n)
<1>1. s.op_code # "REPORT_RECS"
  BY DEF Racp
<1>2. packet.kind = "number" /\ packet.num = n
  BY DEF Number
<1>3. o \in Sent(s, packet)
  BY DEF gls_racp_num_response
<1> HIDE DEF s, packet
<1>4. Truthful(packet, D, H) /\ packet.kind # "none"
  BY <1>2 DEF Truthful
<1> QED
  BY <1>1, <1>3, <1>4, AnswerSays, Zenon

LEMMA FailureSays ==
  ASSUME NEW D, NEW H, NEW r, NEW o \in NotSent(r, FALSE)
  PROVE  SaysOrFails(o, D, H)
<1>1. o = [racp |-> r, packet |-> None, ok |-> FALSE, refused |-> FALSE]
  BY DEF NotSent
<1>2. o.packet = None /\ o.ok = FALSE
  BY ONLY <1>1
<1> QED
  BY <1>2, Zenon DEF SaysOrFails

(* What the client has heard does not contradict a cleared control point.  *)
LEMMA ClearSays ==
  ASSUME NEW D, NEW H, HeardOf(D, H), NEW S, \A p \in S : SaysOrFails(p, D, H),
         NEW o \in OrClear(S)
  PROVE  Says(o.racp, Wire(o), D, H)
<1>1. PICK p \in S : o = IF p.ok THEN p ELSE [p EXCEPT !.racp = Cleared]
  BY DEF OrClear
<1>2. CASE p.ok = TRUE
  BY <1>1, <1>2, Zenon DEF SaysOrFails
<1>3. CASE p.ok = FALSE
  <2>1. o = [p EXCEPT !.racp = Cleared] /\ p.packet = None
    BY <1>1, <1>3 DEF SaysOrFails
  <2>2. Wire(o) = <<>>
    BY <2>1 DEF Wire
  <2>3. o.racp = Cleared
    BY <2>1
  <2>4. o.racp.op_code # "REPORT_RECS"
    BY <2>3 DEF Cleared
  <2>5. \A packet : <<>> # <<packet>>
    OBVIOUS
  <2> QED
    BY <2>2, <2>4, <2>5 DEF Says
<1> QED
  BY <1>1, <1>2, <1>3, Zenon DEF SaysOrFails

(* The control point that sends a packet, if it is the one that is due.    *)
LEMMA PacketSays ==
  ASSUME NEW D, NEW H, HeardOf(D, H), NEW r, NEW packet, Data(packet), NEW o \in Sent(r, packet),
         Underway(r, <<packet>>, D, H)
  PROVE  SaysOrFails(o, D, H)
<1>1. packet.kind # "none" /\ packet.kind # "response" /\ packet.kind # "number"
  BY DEF Data
<1>2. Outcome(o, r, packet)
  BY <1>1, SentOutcomes, Zenon
<1>3. CASE Wire(o) = <<packet>> /\ o.ok = TRUE
  <2>1. \A p : Wire(o) = <<p>> => p = packet
    BY <1>3
  <2>2. Truthful(packet, D, H)
    BY <1>1 DEF Truthful
  <2>3. o.racp = r
    BY <1>2 DEF Outcome
  <2>4. Says(o.racp, Wire(o), D, H)
    BY <1>3, <2>1, <2>2, <2>3, Zenon DEF Says
  <2> QED
    BY <1>3, <2>4 DEF SaysOrFails
<1>4. CASE o.packet = None /\ o.ok = FALSE
  BY <1>4 DEF SaysOrFails
<1> QED
  BY <1>2, <1>3, <1>4 DEF Outcome

LEMMA RacpCounts ==
  ASSUME NEW r \in Racp
  PROVE  r.num \in Nat /\ r.current \in Nat /\ r.offset \in Nat
<1>1. r.num \in 0 .. 255 /\ r.current \in 0 .. 255 /\ r.offset \in 0 .. SIZE - 1
  BY Zenon DEF Racp, Position
<1> QED
  BY <1>1

(* The control point with another send flag.                               *)
LEMMA Flagged ==
  ASSUME NEW r \in Racp, NEW flag, NEW s, s = [r EXCEPT !.send_data_flag = flag]
  PROVE  /\ s.send_data_flag = flag
         /\ s.num = r.num /\ s.current = r.current /\ s.offset = r.offset
BY DEF Racp

(* The next measurement, and the context of the last one.                  *)
LEMMA NotifySays ==
  ASSUME NEW D, NEW H, HeardOf(D, H), NEW r \in Racp, NEW K, NEW at, Layout(D, K, r.num, at),
         Remaining(r, K), NEW c \in 0 .. r.num - 1, NEW index,
         Row(db, index) = K[c]
  PROVE  /\ c = r.current /\ Len(H) = at[c] =>
              \A o \in Notify(r, index, 1, "measurement") : SaysOrFails(o, D, H)
         /\ r.current = c + 1 /\ K[c].ctxt_info_follows /\ Len(H) = at[c] + 1 =>
              \A o \in Notify(r, index, 2, "context") : SaysOrFails(o, D, H)
<1> DEFINE record == db.records[(db.head + index) % SIZE]
           first == [r EXCEPT !.send_data_flag = 1]
           second == [r EXCEPT !.send_data_flag = 2]
<1>1. Data(Measurement(record)) /\ Data(Context(record))
  BY DEF Measurement, Context, Data
<1>2. /\ \A o \in Notify(r, index, 1, "measurement") :
           o \in NotSent(first, FALSE) \/ o \in Sent(first, Measurement(record))
      /\ \A o \in Notify(r, index, 2, "context") :
           o \in NotSent(second, FALSE) \/ o \in Sent(second, Context(record))
  BY Zenon DEF Notify, Measurement, Context
<1>3. record = K[c]
  BY DEF Row
<1>4. /\ first.send_data_flag = 1 /\ second.send_data_flag = 2
      /\ first.num = r.num /\ first.current = r.current /\ first.offset = r.offset
      /\ second.num = r.num /\ second.current = r.current /\ second.offset = r.offset
  BY Flagged
<1> HIDE DEF record, first, second
<1>5. Remaining(first, K) /\ Remaining(second, K)
  BY <1>4 DEF Remaining
<1>6. r.num \in Int /\ r.current \in Int
  BY RacpFields DEF Racp
<1>7. ASSUME c = r.current, Len(H) = at[c], NEW o \in Notify(r, index, 1, "measurement")
      PROVE  SaysOrFails(o, D, H)
  <2>1. CASE o \in NotSent(first, FALSE)
    BY <2>1, FailureSays, Zenon
  <2>2. CASE o \in Sent(first, Measurement(record))
    <3>1. OnAir(first, <<Measurement(record)>>, K, at, H)
      BY <1>3, <1>4, <1>6, <1>7 DEF OnAir
    <3>2. Underway(first, <<Measurement(record)>>, D, H)
      BY <1>4, <1>5, <3>1, Zenon DEF Underway
    <3> QED
      BY <1>1, <2>2, <3>2, PacketSays, Zenon
  <2> QED
    BY <1>2, <1>7, <2>1, <2>2, Zenon
<1>8. ASSUME r.current = c + 1, K[c].ctxt_info_follows, Len(H) = at[c] + 1,
             NEW o \in Notify(r, index, 2, "context")
      PROVE  SaysOrFails(o, D, H)
  <2>1. CASE o \in NotSent(second, FALSE)
    BY <2>1, FailureSays, Zenon
  <2>2. CASE o \in Sent(second, Context(record))
    <3>1. OnAir(second, <<Context(record)>>, K, at, H)
      <4>1. second.current - 1 = c /\ 1 <= second.current
        BY <1>4, <1>8
      <4> QED
        BY <1>3, <1>4, <1>8, <4>1 DEF OnAir
    <3>2. Underway(second, <<Context(record)>>, D, H)
      BY <1>4, <1>5, <3>1, Zenon DEF Underway
    <3> QED
      BY <1>1, <2>2, <3>2, PacketSays, Zenon
  <2> QED
    BY <1>2, <1>8, <2>1, <2>2, Zenon
<1> QED
  BY <1>7, <1>8, Zenon

(* The next record, or the response when there is none left.               *)
LEMMA NextSays ==
  ASSUME NEW D, NEW H, HeardOf(D, H), NEW s \in Racp, NEW K, NEW at, Layout(D, K, s.num, at),
         Remaining(s, K), s.current <= s.num, Len(H) = at[s.current],
         NEW o \in IF s.current < s.num THEN Notify(s, s.offset + s.current, 1, "measurement")
                   ELSE gls_racp_response(s, "SUCCESS")
  PROVE  SaysOrFails(o, D, H)
<1>1. s.num \in Nat /\ s.current \in Nat
  BY RacpCounts, Zenon
<1>2. CASE s.current < s.num
  <2> DEFINE c == s.current
  <2>1. c \in 0 .. s.num - 1 /\ c \in s.current .. s.num - 1
    BY <1>1, <1>2
  <2>2. Row(db, s.offset + c) = K[c]
    BY <2>1 DEF Remaining
  <2>3. o \in Notify(s, s.offset + s.current, 1, "measurement")
    BY <1>2
  <2> QED
    BY <2>1, <2>2, <2>3, NotifySays
<1>3. CASE ~(s.current < s.num)
  <2>1. s.current = s.num
    BY <1>1, <1>3
  <2>2. Len(H) = Len(D)
    BY <2>1 DEF Layout
  <2>3. H = D
    BY <2>2, HeardAll
  <2> QED
    BY <1>3, <2>3, ResponseSays
<1> QED
  BY <1>2, <1>3

(* A control point that goes on to the next record.                        *)
LEMMA Advanced ==
  ASSUME NEW r \in Racp, NEW K, NEW n, n = r.num, r.current < n, Remaining(r, K),
         NEW s, s = [r EXCEPT !.current = @ + 1]
  PROVE  /\ s \in Racp /\ s.current = r.current + 1 /\ s.num = n /\ s.offset = r.offset
         /\ s.send_data_flag = r.send_data_flag
         /\ s.op_code = r.op_code /\ Remaining(s, K)
<1>1. r.num \in Nat /\ r.current \in Nat /\ r.num <= 255
  BY RacpCounts, RacpFields
<1>2. /\ s.current = r.current + 1 /\ s.num = r.num /\ s.offset = r.offset
      /\ s.send_data_flag = r.send_data_flag /\ s.op_code = r.op_code
  BY DEF Racp
<1>3. s \in Racp
  <2>1. r.current + 1 \in 0 .. 255
    BY <1>1
  <2>2. s = [r EXCEPT !.current = r.current + 1]
    OBVIOUS
  <2> QED
    BY <2>1, <2>2, Changed, Zenon
<1>4. \A c \in s.current .. s.num - 1 : c \in r.current .. r.num - 1
  BY <1>1, <1>2
<1>5. Remaining(s, K)
  BY <1>2, <1>4 DEF Remaining
<1> QED
  BY <1>2, <1>3, <1>5

(* The packet on the air goes out, and the report continues.               *)
LEMMA PacketHeard ==
  ASSUME NEW D, NEW H, HeardOf(D, H), NEW r \in Racp, r.current <= r.num, NEW packet, NEW K, NEW at,
         Layout(D, K, r.num, at), OnAir(r, <<packet>>, K, at, H)
  PROVE  /\ HeardOf(D, Append(H, packet))
         /\ r.send_data_flag = 1 =>
              IF K[r.current].ctxt_info_follows
              THEN Len(Append(H, packet)) = at[r.current] + 1
              ELSE Len(Append(H, packet)) = at[r.current + 1]
         /\ r.send_data_flag = 2 => Len(Append(H, packet)) = at[r.current]
<1>1. r.num \in Nat /\ r.current \in Nat /\ Len(H) \in Nat /\ H \in Seq(Packet)
  BY RacpCounts DEF HeardOf
<1>2. \A p : <<packet>> = <<p>> => p = packet
  OBVIOUS
<1>3. CASE r.send_data_flag = 1
  <2> DEFINE c == r.current
  <2>1. c \in 0 .. r.num - 1 /\ packet = Measurement(K[c]) /\ Len(H) = at[c]
    BY <1>1, <1>2, <1>3 DEF OnAir
  <2> HIDE DEF c
  <2>2. /\ Len(D) \in Nat /\ at[c] \in Nat
        /\ at[c] + 1 <= Len(D) /\ D[at[c] + 1] = Measurement(K[c])
        /\ ~K[c].ctxt_info_follows => at[c + 1] = at[c] + 1
    <3>1. PlacesOf(D, K, at, c)
      BY <1>1, <2>1, LayoutPlaces, Zenon
    <3> QED
      BY <3>1 DEF PlacesOf
  <2>3. HeardOf(D, Append(H, packet)) /\ Len(Append(H, packet)) = Len(H) + 1
    BY <2>1, <2>2, HeardMore
  <2> QED
    BY <1>3, <2>1, <2>2, <2>3 DEF c
<1>4. CASE r.send_data_flag = 2
  <2> DEFINE c == r.current - 1
  <2>1. /\ c \in 0 .. r.num - 1 /\ packet = Context(K[c]) /\ K[c].ctxt_info_follows
        /\ Len(H) = at[c] + 1 /\ c + 1 = r.current
    BY <1>1, <1>2, <1>4 DEF OnAir
  <2> HIDE DEF c
  <2>2. /\ Len(D) \in Nat /\ at[c] \in Nat
        /\ at[c + 1] = at[c] + 2 /\ at[c] + 2 <= Len(D) /\ D[at[c] + 2] = Context(K[c])
    <3>1. PlacesOf(D, K, at, c)
      BY <1>1, <2>1, LayoutPlaces, Zenon
    <3> QED
      BY <2>1, <3>1 DEF PlacesOf
  <2>3. Len(H) + 1 = at[c] + 2
    BY <2>1, <2>2
  <2>4. HeardOf(D, Append(H, packet)) /\ Len(Append(H, packet)) = Len(H) + 1
    BY <2>1, <2>2, <2>3, HeardMore
  <2>5. at[r.current] = at[c] + 2
    BY <2>1, <2>2
  <2> QED
    BY <1>4, <2>3, <2>4, <2>5
<1> QED
  BY <1>3, <1>4 DEF OnAir

LEMMA ContinueSays ==
  ASSUME db \in Database, NEW D, NEW H, HeardOf(D, H), NEW r \in Racp, r.current <= r.num,
         NEW packet, Underway(r, <<packet>>, D, H), NEW o \in Continue(r)
  PROVE  SaysOrFails(o, D, Append(H, packet))
<1> DEFINE G == Append(H, packet)
<1>1. PICK K, at : Layout(D, K, r.num, at) /\ Remaining(r, K) /\ OnAir(r, <<packet>>, K, at, H)
  BY DEF Underway
<1>2. /\ HeardOf(D, G)
      /\ r.send_data_flag = 1 =>
           IF K[r.current].ctxt_info_follows THEN Len(G) = at[r.current] + 1
           ELSE Len(G) = at[r.current + 1]
      /\ r.send_data_flag = 2 => Len(G) = at[r.current]
  BY <1>1, PacketHeard
<1>3. r.num \in Nat /\ r.current \in Nat
  BY RacpCounts, Zenon
<1> HIDE DEF G
<1>4. CASE r.send_data_flag = 1
  <2> DEFINE s == [r EXCEPT !.current = @ + 1]
  <2>1. r.current < r.num
    BY <1>1, <1>4 DEF OnAir
  <2>2. /\ s \in Racp /\ s.current = r.current + 1 /\ s.num = r.num /\ s.offset = r.offset
        /\ s.send_data_flag = r.send_data_flag /\ Remaining(s, K)
    BY <1>1, <2>1, Advanced
  <2>3. /\ r.current \in 0 .. r.num - 1 /\ r.current \in r.current .. r.num - 1
        /\ s.current <= s.num
    BY <1>3, <2>1, <2>2
  <2>4. Row(db, r.offset + r.current) = K[r.current]
    BY <1>1, <2>3 DEF Remaining
  <2>5. Reported(r) = K[r.current]
    <3>1. db.head + (r.offset + r.current) = db.head + r.offset + r.current
      <4>1. db.head \in Nat
        BY Places, Size
      <4>2. r.offset \in Nat
        BY RacpCounts, Zenon
      <4> QED
        BY <1>3, <4>1, <4>2
    <3> QED
      BY <2>4, <3>1 DEF Reported, Row
  <2>6. Layout(D, K, s.num, at)
    BY <1>1, <2>2
  <2>7. CASE K[r.current].ctxt_info_follows
    <3>1. o \in Notify(s, r.offset + r.current, 2, "context")
      BY <1>4, <2>5, <2>7 DEF Continue
    <3> HIDE DEF s
    <3>2. Len(G) = at[r.current] + 1
      BY <1>2, <1>4, <2>7
    <3>3. r.current \in 0 .. s.num - 1
      BY <2>2, <2>3
    <3> QED
      BY <1>2, <2>2, <2>4, <2>6, <2>7, <3>1, <3>2, <3>3, NotifySays DEF G
  <2>8. CASE ~K[r.current].ctxt_info_follows
    <3>1. o \in IF s.current < s.num THEN Notify(s, s.offset + s.current, 1, "measurement")
                ELSE gls_racp_response(s, "SUCCESS")
      <4>1. s.send_data_flag # 3
        BY <1>4, <2>2
      <4> QED
        BY <1>4, <2>5, <2>8, <4>1 DEF Continue
    <3> HIDE DEF s
    <3>2. Len(G) = at[s.current]
      BY <1>2, <1>4, <2>2, <2>8
    <3> QED
      BY <1>2, <2>2, <2>3, <2>6, <3>1, <3>2, NextSays DEF G
  <2> QED
    BY <2>7, <2>8
<1>5. CASE r.send_data_flag = 2
  <2>1. o \in IF r.current < r.num THEN Notify(r, r.offset + r.current, 1, "measurement")
              ELSE gls_racp_response(r, "SUCCESS")
    BY <1>5 DEF Continue
  <2> QED
    BY <1>1, <1>2, <1>5, <2>1, NextSays DEF G
<1> QED
  BY <1>1, <1>4, <1>5 DEF OnAir

(* The report that is under way, aborts included.                          *)
LEMMA TaskSays ==
  ASSUME db \in Database, NEW D, NEW H, HeardOf(D, H), NEW r \in Racp, r.current <= r.num,
         NEW packet, Underway(r, <<packet>>, D, H), NEW o \in gls_report_records_task(r)
  PROVE  SaysOrFails(o, D, Append(H, packet))
<1> DEFINE G == Append(H, packet)
<1>1. HeardOf(D, G)
  BY PacketHeard DEF Underway
<1>2. r.abort_flag \in BOOLEAN /\ r.abort_by_app_flag \in BOOLEAN
  BY Zenon DEF Racp
<1>3. Stopped(r) \in Racp
  BY Zenon DEF Racp, Stopped
<1>4. CASE r.abort_flag = TRUE
  <2> DEFINE s == [[Stopped(r) EXCEPT !.abort_flag = FALSE] EXCEPT !.op_code = "ABORT_OPERATION"]
  <2>1. s.op_code = "ABORT_OPERATION"
    BY DEF Racp, Stopped
  <2>2. s \in Racp
    <3>1. "ABORT_OPERATION" \in OpCode
      BY DEF OpCode
    <3> QED
      BY <3>1, Zenon DEF Racp, Stopped
  <2>3. o \in gls_racp_response(s, "SUCCESS")
    BY <1>4, Zenon DEF gls_report_records_task, gls_abort_success_response
  <2> HIDE DEF s, G
  <2>4. s.op_code # "REPORT_RECS"
    BY <2>1
  <2> QED
    BY <1>1, <2>2, <2>3, <2>4, ResponseSays, Zenon DEF G
<1>5. CASE r.abort_flag = FALSE /\ r.abort_by_app_flag = TRUE
  <2> DEFINE s == Stopped(r)
             code == "PROC_NOT_COMPLETED"
  <2>1. o \in gls_racp_response(s, code)
    BY <1>5 DEF gls_report_records_task
  <2>2. code # "SUCCESS"
    OBVIOUS
  <2> HIDE DEF s, G, code
  <2> QED
    BY <1>1, <1>3, <2>1, <2>2, ResponseSays, Zenon DEF G, s
<1>6. CASE r.abort_flag = FALSE /\ r.abort_by_app_flag = FALSE
  <2>1. o \in Continue(r)
    BY <1>6 DEF gls_report_records_task
  <2> QED
    BY <2>1, ContinueSays
<1> QED
  BY <1>2, <1>4, <1>5, <1>6

LEMMA NothingHeard ==
  ASSUME NEW D \in Seq(Packet)
  PROVE  HeardOf(D, <<>>)
<1>1. <<>> \in Seq(Packet) /\ Len(<<>>) = 0 /\ Len(D) \in Nat
  OBVIOUS
<1>2. \A i : i \notin 1 .. 0
  OBVIOUS
<1> QED
  BY <1>1, <1>2 DEF HeardOf

(* What a request selects is a sequence of packets.                        *)
LEMMA PacketsType ==
  ASSUME Counted, Ordered(db, Used(db)), NEW q, ~Gap(q), q.x \in Int, q.y \in Int
  PROVE  Packets(q) \in Seq(Packet)
<1>1. CASE gls_racp_check(q) = "SUCCESS"
  BY <1>1, PacketsFound DEF Layout
<1>2. CASE gls_racp_check(q) # "SUCCESS"
  <2>1. Packets(q) = <<>>
    BY <1>2 DEF Packets
  <2> QED
    BY <2>1
<1> QED
  BY <1>1, <1>2

(* The report that begins.                                                 *)
LEMMA ReportSays ==
  ASSUME Counted, Ordered(db, Used(db)), NEW q, ~Gap(q), q.x \in Int, q.y \in Int,
         NEW r, r = [Cleared EXCEPT !.op_code = "REPORT_RECS"],
         NEW o \in gls_report_records(r, q)
  PROVE  Says(o.racp, Wire(o), Packets(q), <<>>)
<1> DEFINE f == gls_find_records(db, q)
           D == Packets(q)
           s == [r EXCEPT !.offset = Offset(f), !.num = f.num, !.current = 0]
<1>1. HeardOf(D, <<>>)
  BY PacketsType, NothingHeard
<1>2. r \in Racp /\ r.send_data_flag = 0 /\ r.abort_flag = FALSE /\ r.abort_by_app_flag = FALSE
  <2>1. "REPORT_RECS" \in OpCode
    BY DEF OpCode
  <2> QED
    BY <2>1, TakenUp
<1>3. ASSUME NEW code, code # "SUCCESS", o \in gls_racp_response(r, code)
      PROVE  Says(o.racp, Wire(o), D, <<>>)
  BY <1>1, <1>2, <1>3, ResponseSays, Zenon
<1>4. CASE gls_racp_check(q) # "SUCCESS"
  BY <1>3, <1>4 DEF gls_report_records
<1>5. CASE gls_racp_check(q) = "SUCCESS" /\ f.num = 0
  <2>1. o \in gls_racp_response(r, "NO_RECS_FOUND")
    BY <1>5 DEF gls_report_records
  <2> QED
    BY <1>3, <2>1
<1>6. CASE gls_racp_check(q) = "SUCCESS" /\ f.num # 0
  <2>1. o \in OrClear(gls_report_records_task(s))
    BY <1>6, Zenon DEF gls_report_records, Offset
  <2>2. PICK at : Layout(D, RowsFrom(db, Offset(f), f.num), f.num, at)
    BY <1>6, PacketsFound
  <2>3. f.num \in 0 .. Used(db) /\ Run(q, f, Offset(f))
    BY <1>6, RunFound
  <2>4. Used(db) \in 0 .. SIZE - 1
    BY Places DEF Counted
  <2> DEFINE K == RowsFrom(db, Offset(f), f.num)
             n == f.num
             off == Offset(f)
  <2>5. s = [[[r EXCEPT !.offset = off] EXCEPT !.num = n] EXCEPT !.current = 0]
    OBVIOUS
  <2>6. /\ n \in 1 .. Used(db) /\ off \in 0 .. SIZE - 1 /\ off + n <= Used(db)
        /\ Layout(D, K, n, at)
        /\ \A c \in 0 .. n - 1 : K[c] = Row(db, off + c)
    <3>1. K = [c \in 0 .. n - 1 |-> Row(db, off + c)]
      BY DEF RowsFrom
    <3> HIDE DEF K, f
    <3>2. n \in 0 .. Used(db) /\ n # 0 /\ Run(q, f, off)
      BY <1>6, <2>3
    <3> HIDE DEF n, off
    <3>3. n \in 1 .. Used(db)
      BY <2>4, <3>2
    <3>4. \A c \in 0 .. n - 1 : K[c] = Row(db, off + c)
      BY <3>1
    <3>5. off \in 0 .. SIZE - 1 /\ off + n <= Used(db)
      BY <3>2, <3>3, <2>4 DEF Run, n
    <3> QED
      BY <2>2, <3>3, <3>4, <3>5 DEF K, f, n, off
  <2> HIDE DEF K, n, off, s, D, f
  <2>7. s \in Racp
    <3>1. n \in 0 .. 255 /\ 0 \in 0 .. 255 /\ off \in Position
      <4>1. n \in 0 .. SIZE - 1 /\ 0 \in 0 .. SIZE - 1
        BY <2>4, <2>6, Size
      <4>2. off \in Position
        BY <2>6 DEF Position
      <4> QED
        BY <4>1, <4>2, Byte, Zenon
    <3> DEFINE a == [r EXCEPT !.offset = off]
               b == [a EXCEPT !.num = n]
    <3>2. a \in Racp
      BY <1>2, <3>1, Changed, Zenon
    <3> HIDE DEF a
    <3>3. b \in Racp
      BY <3>1, <3>2, Changed, Zenon
    <3> HIDE DEF b
    <3>4. [b EXCEPT !.current = 0] \in Racp
      BY <3>1, <3>3, Changed, Zenon
    <3> QED
      BY <2>5, <3>4 DEF a, b
  <2>8. /\ s.num = n /\ s.current = 0 /\ s.offset = off /\ s.send_data_flag = 0
        /\ s.abort_flag = FALSE /\ s.abort_by_app_flag = FALSE
    BY <1>2, <2>5 DEF Racp
  <2>9. Remaining(s, K) /\ s.current <= s.num /\ Layout(D, K, s.num, at) /\ Len(<<>>) = at[s.current]
    <3>1. at[0] = 0 /\ Len(<<>>) = 0
      BY <2>6 DEF Layout
    <3>2. \A c \in 0 .. n - 1 : off + c < Used(db) /\ K[c] = Row(db, off + c)
      BY <2>4, <2>6
    <3>3. Remaining(s, K)
      BY <2>8, <3>2 DEF Remaining
    <3> QED
      BY <2>4, <2>6, <2>8, <3>1, <3>3
  <2>10. ASSUME NEW p \in gls_report_records_task(s)
         PROVE  SaysOrFails(p, D, <<>>)
    <3>1. p \in Continue(s)
      BY <2>8, <2>10 DEF gls_report_records_task
    <3>2. p \in IF s.current < s.num THEN Notify(s, s.offset + s.current, 1, "measurement")
                ELSE gls_racp_response(s, "SUCCESS")
      BY <2>8, <3>1 DEF Continue
    <3> QED
      BY <1>1, <2>7, <2>9, <3>2, NextSays DEF D
  <2> QED
    BY <1>1, <2>1, <2>10, ClearSays DEF D
<1> QED
  BY <1>4, <1>5, <1>6

(* What every request is answered with, or the report it begins.           *)
LEMMA HandledSays ==
  ASSUME Counted, Ordered(db, Used(db)), NEW q \in Request, ~Gap(q), ~Outside(q), racp = Cleared,
         NEW o \in Handled(q)
  PROVE  Says(o.racp, Wire(o), Packets(q), <<>>)
<1> DEFINE r == [racp EXCEPT !.op_code = q.op_code]
           D == Packets(q)
<1>1. q.op_code \in Operations /\ q.x \in Int /\ q.y \in Int
  BY RequestType
<1>2. q.op_code \in {"REPORT_RECS", "DELETE_RECS", "REPORT_NBR_OF_RECS", "OTHER"}
  BY <1>1, GlsAssumption DEF GlsAssumption
<1>3. r \in Racp /\ r.op_code = q.op_code
  <2>1. q.op_code \in OpCode
    BY <1>2 DEF OpCode
  <2> QED
    BY <2>1, TakenUp, Zenon
<1>4. HeardOf(D, <<>>)
  BY <1>1, PacketsType, NothingHeard
<1>5. CASE q.op_code = "REPORT_RECS"
  <2>1. r = [Cleared EXCEPT !.op_code = "REPORT_RECS"]
    BY <1>5
  <2>2. o \in gls_report_records(r, q)
    BY <1>5 DEF Handled
  <2> HIDE DEF r
  <2> QED
    BY <1>1, <2>1, <2>2, ReportSays, Zenon
<1> SUFFICES Says(o.racp, Wire(o), D, <<>>)
  OBVIOUS
<1> HIDE DEF r, D
<1>6. ASSUME NEW code, r.op_code # "REPORT_RECS", o \in gls_racp_response(r, code)
      PROVE  Says(o.racp, Wire(o), D, <<>>)
  BY <1>3, <1>4, <1>6, ResponseSays, Zenon
<1>7. CASE q.op_code = "REPORT_NBR_OF_RECS"
  <2>1. o \in gls_report_num_of_records(r, q) /\ r.op_code # "REPORT_RECS"
    BY <1>3, <1>7 DEF Handled, r
  <2>2. CASE gls_racp_check(q) # "SUCCESS"
    BY <1>6, <2>1, <2>2 DEF gls_report_num_of_records
  <2>3. CASE gls_racp_check(q) = "SUCCESS"
    <3> DEFINE n == gls_find_records(db, q).num
    <3>1. o \in gls_racp_num_response(r, n)
      BY <2>1, <2>3 DEF gls_report_num_of_records
    <3>2. n = Cardinality(Measured(D))
      BY <1>1, <2>3, PacketsFound DEF Layout, D
    <3> HIDE DEF n
    <3> QED
      BY <1>3, <1>4, <3>1, <3>2, NumberSays, Zenon
  <2> QED
    BY <2>2, <2>3
<1>8. CASE q.op_code = "DELETE_RECS"
  <2>1. o \in gls_delete_records(r, q) /\ r.op_code # "REPORT_RECS"
    BY <1>3, <1>8 DEF Handled, r
  <2> DEFINE code == IF gls_racp_check(q) # "SUCCESS" THEN gls_racp_check(q)
                     ELSE IF Deletes(q) THEN "SUCCESS" ELSE "NO_RECS_FOUND"
  <2>2. o \in UNION {gls_racp_response([r EXCEPT !.op_code = c], code) : c \in {r.op_code}}
    BY <2>1, Zenon DEF gls_delete_records
  <2>3. [r EXCEPT !.op_code = r.op_code] = r
    BY <1>3 DEF Racp
  <2> HIDE DEF code
  <2>4. o \in gls_racp_response(r, code)
    BY <2>2, <2>3
  <2> QED
    BY <1>6, <2>1, <2>4
<1>9. CASE q.op_code = "OTHER"
  <2>1. o \in gls_racp_response(r, "OPCODE_NOT_SUPPORTED") /\ r.op_code # "REPORT_RECS"
    BY <1>3, <1>9 DEF Handled, r
  <2> QED
    BY <1>6, <2>1
<1> QED
  BY <1>2, <1>5, <1>7, <1>8, <1>9 DEF D

-----------------------------------------------------------------------------
(* The invariant.                                                          *)

ReportInv == GlsInv /\ Chain /\ Says(racp, air, due, heard)

LEMMA ReportInit == Init => ReportInv
<1> SUFFICES ASSUME Init PROVE ReportInv
  OBVIOUS
<1>1. racp = Cleared /\ air = <<>> /\ due = <<>> /\ heard = <<>>
  BY DEF Init
<1>2. <<>> \in Seq(Packet)
  OBVIOUS
<1>3. HeardOf(<<>>, <<>>)
  BY <1>2, NothingHeard, Zenon
<1>4. Cleared.op_code # "REPORT_RECS"
  BY DEF Cleared
<1>5. \A packet : <<>> # <<packet>>
  OBVIOUS
<1>6. Says(racp, air, due, heard)
  BY <1>1, <1>3, <1>4, <1>5 DEF Says
<1> QED
  BY <1>6, InitInv, ChainInit DEF ReportInv

(* The database of a report under way may change behind its records.       *)
LEMMA SaysKept ==
  ASSUME NEW r, NEW D, NEW H, NEW w, Says(r, w, D, H),
         racp'.op_code = r.op_code, racp'.num = r.num, racp'.current = r.current,
         racp'.send_data_flag = r.send_data_flag,
         air' = w, due' = D, heard' = H,
         r.op_code = "REPORT_RECS" => \A K : Remaining(r, K) => Remaining(racp, K)'
  PROVE  Says(racp, air, due, heard)'
<1>1. HeardOf(due, heard)'
  BY DEF Says, HeardOf
<1>2. \A packet : air' = <<packet>> => Truthful(packet, due', heard')
  BY DEF Says
<1>3. ASSUME racp'.op_code = "REPORT_RECS" PROVE Underway(racp, air, due, heard)'
  <2>1. PICK K, at : Layout(D, K, r.num, at) /\ Remaining(r, K) /\ OnAir(r, w, K, at, H)
    BY <1>3 DEF Says, Underway
  <2>2. Layout(due, K, racp.num, at)'
    BY <2>1 DEF Layout
  <2>3. OnAir(racp, air, K, at, heard)'
    BY <2>1 DEF OnAir
  <2>4. Remaining(racp, K)'
    BY <1>3, <2>1
  <2> QED
    BY <2>2, <2>3, <2>4, Zenon DEF Underway
<1> QED
  BY <1>1, <1>2, <1>3 DEF Says, Truthful

LEMMA SameRemaining ==
  ASSUME NEW r, racp'.num = r.num, racp'.current = r.current, racp'.offset = r.offset, db' = db
  PROVE  \A K : Remaining(r, K) => Remaining(racp, K)'
BY DEF Remaining, Used, Row

LEMMA WriteRequestSays ==
  ASSUME ReportInv, Strict, NEW q \in Request, WriteRequest(q)
  PROVE  Says(racp, air, due, heard)'
<1>1. ~Gap(q) /\ ~Outside(q)
  BY DEF WriteRequest, Allowed, Strict
<1>2. racp = Cleared /\ air = <<>>
  <2>1. racp.op_code = "RESERVED"
    BY DEF WriteRequest, Free
  <2> QED
    BY <2>1 DEF ReportInv, GlsInv, Control, Idle, Reporting, AnswerGiven
<1>3. Counted /\ Ordered(db, Used(db))
  BY BaseOrder DEF ReportInv, GlsInv, Bounds
<1>4. PICK o \in Handled(q) : Hand(o) /\ air' = IF o.packet = None THEN air ELSE Append(air, o.packet)
  BY DEF WriteRequest
<1>5. air' = Wire(o) /\ racp' = o.racp
  BY <1>2, <1>4 DEF Wire, Hand
<1>6. due' = Packets(q) /\ heard' = <<>>
  BY DEF WriteRequest
<1>7. Says(o.racp, Wire(o), due', heard')
  BY <1>1, <1>2, <1>3, <1>4, <1>6, HandledSays, Zenon
<1>8. racp'.op_code = "REPORT_RECS" => db' = db
  <2> SUFFICES ASSUME Deletes(q) PROVE racp'.op_code # "REPORT_RECS"
    BY DEF WriteRequest, DatabaseAfter
  <2>1. q.op_code = "DELETE_RECS"
    BY DEF Deletes
  <2>2. "DELETE_RECS" \in OpCode
    BY DEF OpCode
  <2> DEFINE r == [racp EXCEPT !.op_code = q.op_code]
  <2>3. r \in Racp
    BY <1>2, <2>1, <2>2, TakenUp
  <2>4. o \in gls_delete_records(r, q)
    BY <1>4, <2>1 DEF Handled
  <2>5. PICK c, code : o \in gls_racp_response([r EXCEPT !.op_code = c], code)
    BY <2>4, Zenon DEF gls_delete_records
  <2> DEFINE s == [[r EXCEPT !.op_code = c] EXCEPT !.send_data_flag = 3, !.op_code = "RESP_CODE"]
  <2>6. PICK packet : o \in Sent(s, packet)
    BY <2>5 DEF gls_racp_response
  <2>7. o.racp = s
    BY <2>6 DEF Sent
  <2>8. s.op_code = "RESP_CODE"
    BY <2>3 DEF Racp
  <2> QED
    BY <1>5, <2>7, <2>8
<1> QED
  BY <1>5, <1>7, <1>8, SaysKept, SameRemaining

LEMMA WriteAbortSays ==
  ASSUME ReportInv, Strict, WriteAbort
  PROVE  Says(racp, air, due, heard)'
<1>1. /\ db' = db /\ due' = due /\ heard' = heard /\ racp \in Racp
      /\ HeardOf(due, heard) /\ Says(racp, air, due, heard)
  BY DEF WriteAbort, ReportInv, GlsInv, Control, Says
<1>2. CASE UnderWay
  <2>1. racp' = [racp EXCEPT !.abort_flag = TRUE] /\ air' = air
    BY <1>2 DEF WriteAbort
  <2>2. /\ racp'.op_code = racp.op_code /\ racp'.send_data_flag = racp.send_data_flag
        /\ racp'.current = racp.current /\ racp'.num = racp.num /\ racp'.offset = racp.offset
    BY <1>1, <2>1 DEF Racp
  <2> QED
    BY <1>1, <2>1, <2>2, SaysKept, SameRemaining
<1>3. CASE ~UnderWay
  <2>1. air = <<>>
    <3>1. CASE AnswerGiven(racp, air, asked, refusals)
      <4>1. ~Answering
        BY DEF WriteAbort, Allowed, Strict
      <4>2. ASSUME NEW packet, air = <<packet>>, Answered(packet, asked) PROVE FALSE
        <5>1. 1 \in DOMAIN air /\ air[1] = packet
          BY <4>2
        <5>2. packet.kind \in {"response", "number"}
          BY <4>2 DEF Answered
        <5> QED
          BY <4>1, <5>1, <5>2 DEF Answering
      <4> QED
        BY <3>1, <4>2 DEF AnswerGiven
    <3>2. ~Reporting(racp, air, asked)
      BY <1>3 DEF Reporting, UnderWay
    <3> QED
      BY <3>1, <3>2 DEF ReportInv, GlsInv, Control, Idle
  <2>2. PICK o \in gls_abort_success_response(racp) :
          Hand(o) /\ air' = IF o.packet = None THEN air ELSE Append(air, o.packet)
    BY <1>3 DEF WriteAbort
  <2>3. air' = Wire(o) /\ racp' = o.racp
    BY <2>1, <2>2 DEF Wire, Hand
  <2> DEFINE s == [racp EXCEPT !.op_code = "ABORT_OPERATION"]
  <2>4. s \in Racp
    <3>1. "ABORT_OPERATION" \in OpCode
      BY DEF OpCode
    <3> QED
      BY <1>1, <3>1, Zenon DEF Racp
  <2>5. s.op_code # "REPORT_RECS"
    BY <1>1 DEF Racp
  <2>6. o \in gls_racp_response(s, "SUCCESS")
    BY <2>2 DEF gls_abort_success_response
  <2> HIDE DEF s
  <2>7. Says(o.racp, Wire(o), due, heard)
    BY <1>1, <2>4, <2>5, <2>6, ResponseSays, Zenon
  <2> QED
    BY <1>1, <2>3, <2>7, SaysKept, SameRemaining
<1> QED
  BY <1>2, <1>3

(* New records come behind those of a report.  A full database loses its   *)
(* oldest record, when no report needs it.                                 *)
LEMMA ApplicationSays ==
  ASSUME ReportInv, Strict,
         \/ \E sample \in Samples : Prepare(sample)
         \/ Push \/ gls_abort_racp_procedure
  PROVE  Says(racp, air, due, heard)'
<1>1. /\ db \in Database /\ racp \in Racp /\ Says(racp, air, due, heard) /\ Used(db) \in Nat
  BY Places, Size DEF ReportInv, GlsInv, Counted, Control
<1>2. racp.num \in Nat /\ racp.current \in Nat /\ racp.offset \in Nat
  BY <1>1, RacpCounts, Zenon
<1>3. ASSUME NEW e, db' = e, racp' = racp, air' = air, due' = due, heard' = heard,
             Used(e) \in Nat, Used(db) <= Used(e),
             \A k \in 0 .. Used(db) - 1 : Row(e, k) = Row(db, k)
      PROVE  Says(racp, air, due, heard)'
  <2>1. \A K : Remaining(racp, K) => Remaining(racp, K)'
    <3> SUFFICES ASSUME NEW K, Remaining(racp, K), NEW c \in racp.current .. racp.num - 1
                 PROVE  racp.offset + c < Used(e) /\ Row(e, racp.offset + c) = K[c]
      BY <1>3 DEF Remaining, Used, Row
    <3>1. racp.offset + c < Used(db) /\ Row(db, racp.offset + c) = K[c]
      BY DEF Remaining
    <3>2. racp.offset + c \in 0 .. Used(db) - 1 /\ racp.offset + c < Used(e)
      BY <1>1, <1>2, <1>3, <3>1
    <3> QED
      BY <1>3, <3>1, <3>2
  <2> QED
    BY <1>1, <1>3, <2>1, SaysKept
<1>4. ASSUME NEW sample \in Samples, Prepare(sample)
      PROVE  Says(racp, air, due, heard)'
  <2> DEFINE e == gls_prepare_new_record(db, sample.time, sample.ctxt)
  <2>1. db' = e /\ racp' = racp /\ air' = air /\ due' = due /\ heard' = heard
    BY <1>4 DEF Prepare, clientVars
  <2>2. Used(e) = Used(db) /\ \A k \in 0 .. Used(db) - 1 : Row(e, k) = Row(db, k)
    BY <1>1, PrepareRows
  <2> HIDE DEF e
  <2> QED
    BY <1>1, <1>3, <2>1, <2>2
<1>5. CASE Push
  <2> DEFINE e == gls_push_new_record(db)
  <2>1. db' = e /\ racp' = racp /\ air' = air /\ due' = due /\ heard' = heard
    BY <1>5 DEF Push, clientVars
  <2>2. ~Full(db) => Used(e) = Used(db) + 1 /\ \A k \in 0 .. Used(db) : Row(e, k) = Row(db, k)
    BY <1>1, PushRows
  <2>3. ~(Full(db) /\ racp.current < racp.num)
    BY <1>5 DEF Push, Allowed, Strict
  <2> HIDE DEF e
  <2>4. CASE ~Full(db)
    BY <1>1, <1>3, <2>1, <2>2, <2>4
  <2>5. CASE ~(racp.current < racp.num)
    <3>1. \A K : Remaining(racp, K)'
      BY <1>2, <2>1, <2>5 DEF Remaining
    <3> QED
      BY <1>1, <2>1, <3>1, SaysKept
  <2> QED
    BY <2>3, <2>4, <2>5
<1>6. CASE gls_abort_racp_procedure
  <2>1. /\ racp' = [racp EXCEPT !.abort_by_app_flag = TRUE]
        /\ db' = db /\ air' = air /\ due' = due /\ heard' = heard
    BY <1>6 DEF gls_abort_racp_procedure, clientVars
  <2>2. /\ racp'.op_code = racp.op_code /\ racp'.send_data_flag = racp.send_data_flag
        /\ racp'.current = racp.current /\ racp'.num = racp.num /\ racp'.offset = racp.offset
    BY <1>1, <2>1 DEF Racp
  <2> QED
    BY <1>1, <2>1, <2>2, SaysKept, SameRemaining
<1> QED
  BY <1>4, <1>5, <1>6

(* The client hears the packet that is due, and the next one goes out.     *)
LEMMA SendCompleteSays ==
  ASSUME ReportInv, SendComplete
  PROVE  Says(racp, air, due, heard)'
<1>1. PICK o \in OrClear(gls_report_records_task(racp)) :
        Hand(o) /\ air' = IF o.packet = None THEN Tail(air) ELSE Append(Tail(air), o.packet)
  BY DEF SendComplete
<1>2. /\ air # <<>> /\ asked' = AskedAfter(Head(air)) /\ db' = db /\ racp \in Racp
      /\ db \in Database /\ Says(racp, air, due, heard) /\ HeardOf(due, heard)
  BY DEF SendComplete, ReportInv, GlsInv, Counted, Control, Says
<1>3. CASE Reporting(racp, air, asked)
  <2>1. PICK packet : air = <<packet>> /\ Data(packet)
    BY <1>3 DEF Reporting
  <2>2. Head(air) = packet /\ Tail(air) = <<>>
    BY <2>1
  <2>3. asked' = asked /\ asked' # {}
    BY <1>2, <1>3, <2>1, <2>2 DEF AskedAfter, Data, Reporting
  <2>4. heard' = Append(heard, packet) /\ due' = due
    BY <2>1, <2>2, <2>3 DEF SendComplete, Data
  <2>5. Underway(racp, <<packet>>, due, heard) /\ racp.current <= racp.num
    BY <1>2, <1>3, <2>1 DEF Says, Reporting
  <2>6. \A p \in gls_report_records_task(racp) : SaysOrFails(p, due, Append(heard, packet))
    BY <1>2, <2>5, TaskSays
  <2>7. HeardOf(due, Append(heard, packet))
    BY <1>2, <2>5, PacketHeard DEF Underway
  <2>8. Says(o.racp, Wire(o), due, Append(heard, packet))
    BY <1>1, <2>6, <2>7, ClearSays, Zenon
  <2>9. air' = Wire(o) /\ racp' = o.racp
    <3>1. Append(<<>>, o.packet) = <<o.packet>>
      OBVIOUS
    <3> QED
      BY <1>1, <2>2, <3>1, Zenon DEF Wire, Hand
  <2> QED
    BY <1>2, <2>4, <2>8, <2>9, SaysKept, SameRemaining
<1>4. CASE AnswerGiven(racp, air, asked, refusals)
  <2>1. PICK packet : air = <<packet>> /\ Answered(packet, asked)
    BY <1>2, <1>4 DEF AnswerGiven
  <2>2. Head(air) = packet /\ Tail(air) = <<>>
    BY <2>1
  <2>3. HeardOf(due', heard')
    <3>1. CASE asked' = {}
      <4>1. heard' = <<>> /\ due' = <<>>
        BY <3>1 DEF SendComplete
      <4>2. <<>> \in Seq(Packet)
        OBVIOUS
      <4> QED
        BY <4>1, <4>2, NothingHeard, Zenon
    <3>2. CASE asked' # {}
      <4>1. heard' = heard /\ due' = due
        BY <2>1, <2>2, <3>2 DEF SendComplete, Answered
      <4> QED
        BY <1>2, <4>1
    <3> QED
      BY <3>1, <3>2
  <2>4. o.racp = Cleared /\ o.packet = None
    <3>1. /\ racp.abort_flag = FALSE /\ racp.abort_by_app_flag = FALSE
          /\ racp.send_data_flag = 3 /\ ~(racp.current < racp.num)
      BY <1>2, <1>4, RacpFields DEF AnswerGiven
    <3>2. gls_report_records_task(racp) = Continue(racp)
      BY <3>1 DEF gls_report_records_task
    <3>3. racp.send_data_flag # 1
      BY <3>1
    <3>4. Continue(racp) = NotSent(Cleared, TRUE)
      BY <3>1, <3>3, Zenon DEF Continue
    <3>5. PICK p \in NotSent(Cleared, TRUE) : o = IF p.ok THEN p ELSE [p EXCEPT !.racp = Cleared]
      BY <1>1, <3>2, <3>4, Zenon DEF OrClear
    <3>6. p = [racp |-> Cleared, packet |-> None, ok |-> TRUE, refused |-> FALSE]
      BY DEF NotSent
    <3> QED
      BY <3>5, <3>6
  <2>5. racp' = Cleared /\ air' = <<>>
    BY <1>1, <2>2, <2>4 DEF Hand
  <2>6. racp'.op_code # "REPORT_RECS" /\ \A p : air' # <<p>>
    BY <2>5 DEF Cleared
  <2>7. HeardOf(due, heard)'
    BY <2>3 DEF HeardOf
  <2> QED
    BY <2>6, <2>7 DEF Says
<1> QED
  BY <1>2, <1>3, <1>4 DEF ReportInv, GlsInv, Control, Idle

LEMMA LinkLostSays ==
  ASSUME LinkLost
  PROVE  Says(racp, air, due, heard)'
<1>1. racp' = Cleared /\ air' = <<>> /\ due' = <<>> /\ heard' = <<>>
  BY DEF LinkLost
<1>2. racp'.op_code # "REPORT_RECS" /\ \A p : air' # <<p>>
  BY <1>1 DEF Cleared
<1>3. <<>> \in Seq(Packet)
  OBVIOUS
<1>4. HeardOf(<<>>, <<>>)
  BY <1>3, NothingHeard, Zenon
<1>5. HeardOf(due, heard)'
  BY <1>1, <1>4 DEF HeardOf
<1> QED
  BY <1>2, <1>5 DEF Says

LEMMA ReportNext ==
  ASSUME Strict, ReportInv, [Next]_vars
  PROVE  ReportInv'
<1>1. Disciplined /\ GlsInv /\ Counted /\ Bounds /\ Chain /\ Says(racp, air, due, heard)
  BY StrictDisciplined DEF ReportInv, GlsInv
<1>2. ASSUME NEW q \in Request, WriteRequest(q) PROVE ReportInv'
  BY <1>1, <1>2, WriteRequestInv, WriteChain, WriteRequestSays DEF ReportInv
<1>3. ASSUME db' = db, drafting' = drafting PROVE Chain'
  BY <1>1, <1>3 DEF Chain, Ordered, Rows, Used, Row
<1>4. CASE WriteAbort
  <2>1. Chain'
    BY <1>3, <1>4 DEF WriteAbort
  <2> QED
    BY <1>1, <1>4, <2>1, WriteAbortInv, WriteAbortSays DEF ReportInv
<1>5. ASSUME NEW c \in Toggled, gls_cccd_update_cb(c) PROVE ReportInv'
  <2>1. Chain'
    BY <1>3, <1>5 DEF gls_cccd_update_cb
  <2>2. db' = db /\ racp' = racp /\ air' = air /\ due' = due /\ heard' = heard
    BY <1>5 DEF gls_cccd_update_cb, clientVars
  <2>3. Says(racp, air, due, heard)'
    BY <1>1, <2>2, SaysKept, SameRemaining
  <2> QED
    BY <1>1, <1>5, <2>1, <2>3, CccdInv DEF ReportInv
<1>6. CASE (\E sample \in Samples : Prepare(sample)) \/ Push \/ gls_abort_racp_procedure
  <2>1. Chain'
    <3>1. CASE gls_abort_racp_procedure
      BY <1>3, <3>1 DEF gls_abort_racp_procedure
    <3> QED
      BY <1>1, <1>6, <3>1, PrepareChain, PushChain
  <2> QED
    BY <1>1, <1>6, <2>1, ApplicationInv, ApplicationSays DEF ReportInv
<1>7. CASE SendComplete
  <2>1. Chain'
    BY <1>3, <1>7 DEF SendComplete
  <2> QED
    BY <1>1, <1>7, <2>1, SendCompleteInv, SendCompleteSays DEF ReportInv
<1>8. CASE LinkLost
  <2>1. Chain'
    BY <1>3, <1>8 DEF LinkLost
  <2> QED
    BY <1>1, <1>8, <2>1, LinkLostInv, LinkLostSays DEF ReportInv
<1>9. CASE UNCHANGED vars
  <2>1. /\ db' = db /\ drafting' = drafting /\ racp' = racp /\ air' = air
        /\ due' = due /\ heard' = heard
    BY <1>9 DEF vars
  <2>2. Chain'
    BY <1>3, <2>1
  <2>3. Says(racp, air, due, heard)'
    BY <1>1, <2>1, SaysKept, SameRemaining
  <2>4. GlsInv'
    BY <1>1, <1>9 DEF vars, clientVars, GlsInv, Counted, Used, Bounds, Counters
  <2> QED
    BY <2>2, <2>3, <2>4 DEF ReportInv
<1> QED
  BY <1>2, <1>4, <1>5, <1>6, <1>7, <1>8, <1>9 DEF Next

(* In every reachable state of an environment that takes no liberties: the *)
(* records of the ring are in the order in which they were made, and a     *)
(* report is at the record its request selected next.                      *)
THEOREM ReportInvariant == Strict => (Spec => []ReportInv)
<1> SUFFICES ASSUME Strict PROVE Spec => []ReportInv
  OBVIOUS
<1>1. ReportInv /\ [Next]_vars => ReportInv'
  BY ReportNext
<1> QED
  BY <1>1, ReportInit, PTL DEF Spec

(* What the client hears from gls.c is what its request selected when it   *)
(* was accepted, in order and complete when the report succeeds, also when *)
(* records are made and pushed behind it; the number is that of the        *)
(* selected records.                                                       *)
THEOREM ReportTheorem == Strict => (Spec => []ReportsWhatIsDue)
<1> SUFFICES ASSUME Strict PROVE Spec => []ReportsWhatIsDue
  OBVIOUS
<1>1. Spec => []ReportInv
  BY ReportInvariant
<1>2. ReportInv => ReportsWhatIsDue
  <2> SUFFICES ASSUME ReportInv PROVE ReportsWhatIsDue
    OBVIOUS
  <2>1. HeardOf(due, heard) /\ \A packet : air = <<packet>> => Truthful(packet, due, heard)
    BY DEF ReportInv, Says
  <2>2. Len(heard) <= Len(due) /\ \A i \in DOMAIN heard : heard[i] = due[i]
    BY <2>1 DEF HeardOf
  <2>3. ASSUME NEW i \in DOMAIN air PROVE Truthful(air[i], due, heard)
    <3>1. air = <<>> \/ \E packet : air = <<packet>>
      BY DEF ReportInv, GlsInv, Control, Idle, Reporting, AnswerGiven
    <3>2. PICK packet : air = <<packet>>
      BY <2>3, <3>1
    <3>3. air[i] = packet
      BY <2>3, <3>2
    <3> QED
      BY <2>1, <3>2, <3>3
  <2> QED
    BY <2>2, <2>3, Zenon DEF ReportsWhatIsDue, Truthful, Measured
<1> QED
  BY <1>1, <1>2, PTL

-----------------------------------------------------------------------------
(* The store of records that the service implements.  First the elements   *)
(* of a sequence at some of its positions, in order.                       *)

Picking(g, s, P, m) ==
  g = [i \in 0 .. m |->
         IF i = 0 THEN <<>> ELSE IF i \in P THEN Append(g[i - 1], s[i]) ELSE g[i - 1]]

LEMMA PickExists ==
  ASSUME NEW n \in Nat, NEW s, NEW P
  PROVE  \E g : Picking(g, s, P, n)
<1> DEFINE T == {m \in 0 .. n : \E g : Picking(g, s, P, m)}
<1>1. 0 \in T
  <2> DEFINE g == [i \in 0 .. 0 |-> <<>>]
  <2>1. Picking(g, s, P, 0)
    BY DEF Picking
  <2> QED
    BY <2>1
<1>2. ASSUME NEW m \in 1 .. n, m - 1 \in T PROVE m \in T
  <2>1. PICK g : Picking(g, s, P, m - 1)
    BY <1>2
  <2> DEFINE next == IF m \in P THEN Append(g[m - 1], s[m]) ELSE g[m - 1]
             h == [i \in 0 .. m |-> IF i = m THEN next ELSE g[i]]
  <2>2. /\ m # 0 /\ m - 1 \in 0 .. m /\ m - 1 # m
        /\ \A i \in 0 .. m : i # m => i \in 0 .. m - 1
        /\ \A i \in 0 .. m : i # m /\ i # 0 => i - 1 \in 0 .. m /\ i - 1 # m
    OBVIOUS
  <2> HIDE DEF next
  <2>3. \A i \in 0 .. m :
          h[i] = IF i = 0 THEN <<>> ELSE IF i \in P THEN Append(h[i - 1], s[i]) ELSE h[i - 1]
    <3> TAKE i \in 0 .. m
    <3>1. CASE i = m
      <4>1. h[i] = next /\ h[i - 1] = g[m - 1]
        BY <2>2, <3>1
      <4> QED
        BY <2>2, <3>1, <4>1 DEF next
    <3>2. CASE i # m
      <4>1. h[i] = g[i] /\ i \in 0 .. m - 1
        BY <2>2, <3>2
      <4>2. g[i] = IF i = 0 THEN <<>> ELSE IF i \in P THEN Append(g[i - 1], s[i]) ELSE g[i - 1]
        BY <2>1, <4>1 DEF Picking
      <4>3. i # 0 => h[i - 1] = g[i - 1]
        BY <2>2, <3>2
      <4> QED
        BY <4>1, <4>2, <4>3
    <3> QED
      BY <3>1, <3>2
  <2>4. Picking(h, s, P, m)
    BY <2>3 DEF Picking
  <2> QED
    BY <2>4
<1>3. T = 0 .. n
  <2>1. T \in SUBSET (0 .. n)
    OBVIOUS
  <2> HIDE DEF T
  <2> QED
    BY <1>1, <1>2, <2>1, CountUp
<1>4. n \in T
  BY <1>3
<1> QED
  BY <1>4

LEMMA AtIs ==
  ASSUME NEW s, Len(s) \in Nat, NEW P
  PROVE  \E g : Picking(g, s, P, Len(s)) /\ At(s, P) = g[Len(s)]
<1> DEFINE g == CHOOSE h : Picking(h, s, P, Len(s))
<1>1. Picking(g, s, P, Len(s))
  BY PickExists
<1>2. At(s, P) = g[Len(s)]
  BY DEF At, Picking
<1> HIDE DEF g
<1> QED
  BY <1>1, <1>2

(* Positions that are given in order.                                      *)
Placed(s, P, n, pos) ==
  /\ pos \in [1 .. n -> 1 .. Len(s)]
  /\ \A j, k \in 1 .. n : j < k => pos[j] < pos[k]
  /\ \A i : i \in P <=> \E j \in 1 .. n : pos[j] = i
LEMMA AtPositions ==
  ASSUME NEW S, NEW s \in Seq(S), NEW n \in Nat, NEW pos, NEW P, Placed(s, P, n, pos)
  PROVE  At(s, P) = [j \in 1 .. n |-> s[pos[j]]]
<1> USE DEF Placed
<1> DEFINE m == Len(s)
<1>1. m \in Nat
  OBVIOUS
<1>2. PICK g : Picking(g, s, P, m) /\ At(s, P) = g[m]
  BY <1>1, AtIs
<1> DEFINE Upto(i, c) == \A j \in 1 .. n : pos[j] <= i <=> j <= c
           First(x, c) == x \in Seq(S) /\ Len(x) = c /\ \A j \in 1 .. c : x[j] = s[pos[j]]
           T == {i \in 0 .. m : \E c \in 0 .. n : Upto(i, c) /\ First(g[i], c)}
<1>3. \A j \in 1 .. n : pos[j] \in 1 .. m /\ s[pos[j]] \in S
  OBVIOUS
<1>4. 0 \in T
  <2>1. Upto(0, 0)
    BY <1>3
  <2>2. g[0] = <<>>
    BY <1>1, <1>2 DEF Picking
  <2>3. First(g[0], 0)
    BY <2>2
  <2> HIDE DEF Upto, First
  <2> QED
    BY <1>1, <2>1, <2>3
<1>5. ASSUME NEW i \in 1 .. m, i - 1 \in T PROVE i \in T
  <2>1. PICK c \in 0 .. n : Upto(i - 1, c) /\ First(g[i - 1], c)
    BY <1>5
  <2>2. g[i] = IF i \in P THEN Append(g[i - 1], s[i]) ELSE g[i - 1]
    <3>1. i \in 0 .. m /\ i # 0
      BY <1>1
    <3> QED
      BY <1>2, <3>1 DEF Picking
  <2>3. CASE i \notin P
    <3>1. \A j \in 1 .. n : pos[j] # i
      BY <2>3
    <3>2. Upto(i, c)
      BY <1>1, <1>3, <2>1, <3>1
    <3>3. First(g[i], c)
      BY <2>1, <2>2, <2>3
    <3> HIDE DEF Upto, First
    <3> QED
      BY <1>1, <3>2, <3>3
  <2>4. CASE i \in P
    <3>1. PICK k \in 1 .. n : pos[k] = i
      BY <2>4
    <3>2. k = c + 1
      <4>1. k > c
        BY <1>1, <2>1, <3>1
      <4>2. ASSUME c + 1 < k PROVE FALSE
        <5>1. c + 1 \in 1 .. n
          BY <4>2
        <5>2. pos[c + 1] < i /\ pos[c + 1] \in 1 .. m
          BY <1>3, <3>1, <4>2, <5>1
        <5>3. pos[c + 1] <= i - 1
          BY <1>1, <5>2
        <5> QED
          BY <2>1, <5>1, <5>3
      <4> QED
        BY <4>1, <4>2
    <3>3. Upto(i, k)
      <4> SUFFICES ASSUME NEW j \in 1 .. n PROVE pos[j] <= i <=> j <= k
        OBVIOUS
      <4>1. CASE j < k
        BY <1>3, <3>1, <4>1
      <4>2. CASE j = k
        BY <1>1, <3>1, <4>2
      <4>3. CASE k < j
        BY <1>3, <3>1, <4>3
      <4> QED
        BY <4>1, <4>2, <4>3
    <3>4. First(g[i], k)
      <4>1. s[i] \in S /\ g[i - 1] \in Seq(S) /\ Len(g[i - 1]) = c
        BY <1>3, <2>1, <3>1
      <4>2. /\ Append(g[i - 1], s[i]) \in Seq(S)
            /\ Len(Append(g[i - 1], s[i])) = Len(g[i - 1]) + 1
            /\ \A j \in 1 .. Len(g[i - 1]) : Append(g[i - 1], s[i])[j] = g[i - 1][j]
            /\ Append(g[i - 1], s[i])[Len(g[i - 1]) + 1] = s[i]
        BY <4>1, AppendProperties
      <4>3. \A j \in 1 .. k : j \in 1 .. c \/ j = k
        BY <3>2
      <4> QED
        BY <2>1, <2>2, <2>4, <3>1, <3>2, <4>1, <4>2, <4>3
    <3> HIDE DEF Upto, First
    <3> QED
      BY <1>1, <3>3, <3>4
  <2> QED
    BY <2>3, <2>4
<1>6. m \in T
  <2>1. T \in SUBSET (0 .. m)
    OBVIOUS
  <2> HIDE DEF T
  <2>2. T = 0 .. m
    BY <1>1, <1>4, <1>5, <2>1, CountUp
  <2> QED
    BY <1>1, <2>2
<1>7. PICK c \in 0 .. n : Upto(m, c) /\ First(g[m], c)
  BY <1>6
<1>8. c = n
  <2>1. CASE n = 0
    BY <2>1
  <2>2. CASE n # 0
    <3>1. n \in 1 .. n
      BY <2>2
    <3>2. pos[n] <= m
      BY <1>1, <1>3, <3>1
    <3> QED
      BY <1>7, <3>1, <3>2
  <2> QED
    BY <2>1, <2>2
<1>9. [j \in 1 .. n |-> s[pos[j]]] \in Seq(S) /\ Len([j \in 1 .. n |-> s[pos[j]]]) = n
  BY <1>3
<1>10. g[m] \in Seq(S) /\ Len(g[m]) = n /\ \A j \in 1 .. n : g[m][j] = s[pos[j]]
  BY <1>7, <1>8
<1> QED
  BY <1>2, <1>9, <1>10, SeqEqual

(* A run of positions, and what it leaves.                                 *)
Cut(s, off, num) ==
  /\ At(s, off + 1 .. off + num) = [j \in 1 .. num |-> s[off + j]]
  /\ At(s, DOMAIN s \ (off + 1 .. off + num)) =
       [j \in 1 .. Len(s) - num |-> s[IF j <= off THEN j ELSE j + num]]

LEMMA RunAt ==
  ASSUME NEW S, NEW s \in Seq(S), NEW off \in Nat, NEW num \in Nat, off + num <= Len(s)
  PROVE  Cut(s, off, num)
<1> DEFINE m == Len(s)
<1>1. m \in Nat /\ DOMAIN s = 1 .. m
  OBVIOUS
<1>2. At(s, off + 1 .. off + num) = [j \in 1 .. num |-> s[off + j]]
  <2> DEFINE pos == [j \in 1 .. num |-> off + j]
             P == off + 1 .. off + num
  <2>1. pos \in [1 .. num -> 1 .. m] /\ \A j, k \in 1 .. num : j < k => pos[j] < pos[k]
    BY <1>1
  <2>2. \A i : i \in P <=> \E j \in 1 .. num : pos[j] = i
    <3>1. ASSUME NEW i \in P PROVE \E j \in 1 .. num : pos[j] = i
      <4>1. i - off \in 1 .. num /\ pos[i - off] = i
        OBVIOUS
      <4> QED
        BY <4>1
    <3>2. \A j \in 1 .. num : pos[j] \in P
      OBVIOUS
    <3> HIDE DEF P, pos
    <3> QED
      BY <3>1, <3>2
  <2>3. \A j \in 1 .. num : pos[j] = off + j
    OBVIOUS
  <2>4. Placed(s, P, num, pos)
    <3> HIDE DEF P, pos
    <3> QED
      BY <2>1, <2>2 DEF Placed
  <2> HIDE DEF P, pos
  <2>5. At(s, P) = [j \in 1 .. num |-> s[pos[j]]]
    BY <2>4, AtPositions
  <2>6. [j \in 1 .. num |-> s[pos[j]]] = [j \in 1 .. num |-> s[off + j]]
    BY <2>3
  <2> QED
    BY <2>5, <2>6 DEF P
<1>3. At(s, DOMAIN s \ (off + 1 .. off + num)) =
        [j \in 1 .. m - num |-> s[IF j <= off THEN j ELSE j + num]]
  <2> DEFINE g(j) == IF j <= off THEN j ELSE j + num
             n == m - num
             pos == [j \in 1 .. n |-> g(j)]
             P == (1 .. m) \ (off + 1 .. off + num)
  <2>1. n \in Nat /\ pos \in [1 .. n -> 1 .. m] /\ \A j, k \in 1 .. n : j < k => pos[j] < pos[k]
    BY <1>1
  <2>2. \A i : i \in P <=> \E j \in 1 .. n : pos[j] = i
    <3>1. ASSUME NEW i \in P PROVE \E j \in 1 .. n : pos[j] = i
      <4>1. CASE i <= off
        <5>1. i \in 1 .. n /\ pos[i] = i
          BY <1>1, <4>1
        <5> QED
          BY <5>1
      <4>2. CASE ~(i <= off)
        <5>1. i - num \in 1 .. n /\ pos[i - num] = i
          BY <1>1, <4>2
        <5> QED
          BY <5>1
      <4> QED
        BY <4>1, <4>2
    <3>2. \A j \in 1 .. n : pos[j] \in P
      BY <1>1
    <3> HIDE DEF P, pos, n
    <3> QED
      BY <3>1, <3>2
  <2>3. \A j \in 1 .. n : pos[j] = g(j)
    OBVIOUS
  <2>4. Placed(s, P, n, pos)
    <3> HIDE DEF P, pos, n
    <3> QED
      BY <2>1, <2>2 DEF Placed
  <2> HIDE DEF P, pos, n, g
  <2>5. At(s, P) = [j \in 1 .. n |-> s[pos[j]]]
    BY <2>1, <2>4, AtPositions
  <2>6. [j \in 1 .. n |-> s[pos[j]]] = [j \in 1 .. n |-> s[g(j)]]
    BY <2>3
  <2> QED
    BY <1>1, <2>5, <2>6 DEF P, n, g
<1> QED
  BY <1>2, <1>3 DEF Cut

(* The records that the packets of a report report.                        *)
LEMMA RecordsOfLayout ==
  ASSUME NEW D, NEW K, NEW n \in Nat, NEW at, Layout(D, K, n, at)
  PROVE  RecordsOf(D) = [j \in 1 .. n |-> K[j - 1]]
<1>1. /\ D \in Seq(Packet) /\ Len(D) \in Nat /\ DOMAIN D = 1 .. Len(D) /\ at \in [0 .. n -> Nat]
      /\ at[0] = 0 /\ at[n] = Len(D)
  BY DEF Layout
<1>2. \A c \in 0 .. n - 1 : PlacesOf(D, K, at, c)
  BY LayoutPlaces
<1>3. \A c \in 0 .. n - 1 : at[c] + 1 <= at[c + 1] /\ D[at[c] + 1] = Measurement(K[c])
  <2> TAKE c \in 0 .. n - 1
  <2>1. PlacesOf(D, K, at, c)
    BY <1>2
  <2>2. CASE K[c].ctxt_info_follows
    BY <2>1, <2>2 DEF PlacesOf
  <2>3. CASE ~K[c].ctxt_info_follows
    BY <2>1, <2>3 DEF PlacesOf
  <2> QED
    BY <2>2, <2>3
<1> DEFINE pos == [j \in 1 .. n |-> at[j - 1] + 1]
           P == {k \in DOMAIN D : D[k].kind = "measurement"}
<1>4. \A c, e \in 0 .. n : c <= e => at[c] <= at[e]
  <2> SUFFICES ASSUME NEW c \in 0 .. n
               PROVE  \A e \in 0 .. n : c <= e => at[c] <= at[e]
    OBVIOUS
  <2> DEFINE T == {e \in 0 .. n : c <= e => at[c] <= at[e]}
  <2>1. 0 \in T
    BY <1>1
  <2>2. ASSUME NEW i \in 1 .. n, i - 1 \in T PROVE i \in T
    <3>1. i - 1 \in 0 .. n - 1 /\ at[i - 1] \in Nat /\ at[i] \in Nat /\ at[c] \in Nat /\ (i - 1) + 1 = i
      BY <1>1
    <3>2. at[i - 1] + 1 <= at[i]
      BY <1>3, <3>1
    <3> QED
      BY <2>2, <3>1, <3>2
  <2>3. T \in SUBSET (0 .. n)
    OBVIOUS
  <2> HIDE DEF T
  <2>4. T = 0 .. n
    BY <2>1, <2>2, <2>3, CountUp
  <2> QED
    BY <2>4 DEF T
<1>5. \A j \in 1 .. n : j - 1 \in 0 .. n - 1 /\ j - 1 \in 0 .. n /\ (j - 1) + 1 = j /\ j \in 0 .. n
  OBVIOUS
<1>6. pos \in [1 .. n -> 1 .. Len(D)]
  <2> SUFFICES ASSUME NEW j \in 1 .. n PROVE at[j - 1] + 1 \in 1 .. Len(D)
    OBVIOUS
  <2>1. at[j - 1] \in Nat /\ at[j - 1] + 1 <= at[j] /\ at[j] <= at[n] /\ at[j] \in Nat
    BY <1>1, <1>3, <1>4, <1>5
  <2> QED
    BY <1>1, <2>1
<1>7. \A j, k \in 1 .. n : j < k => pos[j] < pos[k]
  <2> TAKE j, k \in 1 .. n
  <2>1. j < k => j <= k - 1
    OBVIOUS
  <2>2. /\ at[j - 1] \in Nat /\ at[j] \in Nat /\ at[k - 1] \in Nat /\ at[j - 1] + 1 <= at[j]
        /\ j < k => at[j] <= at[k - 1]
    BY <1>1, <1>3, <1>4, <1>5, <2>1
  <2> QED
    BY <2>2
<1>8. \A j \in 1 .. n : D[pos[j]] = Measurement(K[j - 1])
  BY <1>3, <1>5
<1>9. \A j \in 1 .. n : pos[j] \in P
  <2>1. \A k : Measurement(k).kind = "measurement" /\ Measurement(k).record = k
    BY DEF Measurement
  <2> HIDE DEF pos
  <2> QED
    BY <1>1, <1>6, <1>8, <2>1
<1> HIDE DEF pos
<1>10. \A i : i \in P <=> \E j \in 1 .. n : pos[j] = i
  <2>1. P = Measured(D) /\ P \in SUBSET (1 .. Len(D)) /\ Cardinality(P) = n
    BY <1>1 DEF Measured, Layout
  <2> HIDE DEF P
  <2>2. IsFiniteSet(P)
    <3>1. IsFiniteSet(1 .. Len(D))
      BY <1>1, FS_Interval
    <3> QED
      BY <2>1, <3>1, FS_Subset
  <2>3. pos \in Injection(1 .. n, P)
    <3>1. \A j, k \in 1 .. n : pos[j] = pos[k] => j = k
      <4> TAKE j, k \in 1 .. n
      <4>1. pos[j] \in Nat /\ pos[k] \in Nat
        BY <1>1, <1>6
      <4>2. (j < k => pos[j] < pos[k]) /\ (k < j => pos[k] < pos[j])
        BY <1>7
      <4> QED
        BY <4>1, <4>2
    <3>2. pos \in [1 .. n -> P]
      BY <1>6, <1>9
    <3> QED
      BY <3>1, <3>2 DEF Injection, IsInjective
  <2>4. Cardinality(1 .. n) = n
    BY FS_Interval
  <2>5. pos \in Surjection(1 .. n, P)
    BY <2>1, <2>2, <2>3, <2>4, FS_Injection
  <2> QED
    BY <1>9, <2>5 DEF Surjection
<1>11. Placed(D, P, n, pos)
  <2> HIDE DEF P
  <2> QED
    BY <1>6, <1>7, <1>10 DEF Placed
<1>12. At(D, P) = [j \in 1 .. n |-> D[pos[j]]]
  <2> HIDE DEF P
  <2> QED
    BY <1>1, <1>11, AtPositions
<1>13. At(D, P) = [j \in 1 .. n |-> Measurement(K[j - 1])]
  BY <1>8, <1>12
<1> DEFINE m == At(D, P)
<1>14. RecordsOf(D) = [i \in DOMAIN m |-> m[i].record]
  BY DEF RecordsOf
<1> HIDE DEF m, P
<1>15. m = [j \in 1 .. n |-> Measurement(K[j - 1])]
  BY <1>13 DEF m
<1>16. DOMAIN m = 1 .. n /\ \A i \in 1 .. n : m[i].record = K[i - 1]
  <2>1. \A k : Measurement(k).record = k
    BY DEF Measurement
  <2> QED
    BY <1>15, <2>1
<1> QED
  BY <1>14, <1>16

-----------------------------------------------------------------------------
(* The store of records.                                                   *)

(* The records a database stores, by their places in the ring, and the     *)
(* place behind them.                                                      *)
LEMMA StoredRows ==
  ASSUME NEW d, CountedIn(d)
  PROVE  /\ Used(d) \in 0 .. SIZE - 1 /\ Stored(d) \in Seq(Record) /\ Len(Stored(d)) = Used(d)
         /\ Stored(d) = [i \in 1 .. Used(d) |-> Row(d, i - 1)]
         /\ Row(d, Used(d)) = d.records[d.tail] /\ Row(d, Used(d)) \in Record
<1> DEFINE n == Used(d)
<1>1. /\ d \in Database /\ d.record_num = n /\ n \in 0 .. SIZE - 1 /\ n = Minus(d.tail, d.head)
      /\ d.head \in 0 .. SIZE - 1 /\ d.tail \in 0 .. SIZE - 1
  BY Places DEF CountedIn
<1>2. Stored(d) = [i \in 1 .. n |-> d.records[(d.head + i - 1) % SIZE]]
  BY <1>1 DEF Stored
<1> HIDE DEF n
<1>3. \A k \in 0 .. n : k \in 0 .. SIZE - 1
  BY <1>1, Size
<1>4. \A k \in 0 .. n : Row(d, k) \in Record
  BY <1>1, <1>3, RowPlace
<1>5. \A i \in 1 .. n : d.head + i - 1 = d.head + (i - 1) /\ i - 1 \in 0 .. n
  BY <1>1, Size
<1>6. \A i \in 1 .. n : d.records[(d.head + i - 1) % SIZE] = Row(d, i - 1)
  BY <1>5 DEF Row
<1>7. Stored(d) = [i \in 1 .. n |-> Row(d, i - 1)]
  BY <1>2, <1>6
<1>8. n \in Nat /\ n \in 0 .. n
  BY <1>1, Size
<1>9. Stored(d) \in Seq(Record) /\ Len(Stored(d)) = n
  BY <1>4, <1>5, <1>7, <1>8
<1>10. Row(d, n) = d.records[d.tail]
  <2> DEFINE t == d.tail
             h == d.head
  <2>1. t \in 0 .. SIZE - 1 /\ h \in 0 .. SIZE - 1 /\ n = Minus(t, h)
    BY <1>1
  <2> HIDE DEF t, h
  <2>2. Plus(h, n) = t
    BY <2>1, Size DEF Plus, Minus
  <2>3. Row(d, n) = d.records[Plus(h, n)]
    BY <1>1, RowPlace DEF h
  <2> QED
    BY <2>2, <2>3 DEF t
<1> QED
  BY <1>1, <1>4, <1>7, <1>8, <1>9, <1>10 DEF n

LEMMA StoreAt == \A s, P : Store!At(s, P) = At(s, P)
BY DEF At, Store!At

(* No record is selected by no packet.                                     *)
LEMMA NothingRecorded ==
  /\ RecordsOf(<<>>) = <<>>
  /\ \A K : [j \in 1 .. 0 |-> K[j - 1]] = <<>>
<1>1. \A K : [j \in 1 .. 0 |-> K[j - 1]] = <<>>
  OBVIOUS
<1> DEFINE D == <<>>
           P == {k \in DOMAIN D : D[k].kind = "measurement"}
           m == At(D, P)
           pos == [j \in 1 .. 0 |-> 1]
<1>2. P = {}
  OBVIOUS
<1>3. D \in Seq({}) /\ 0 \in Nat
  OBVIOUS
<1>4. RecordsOf(D) = [i \in DOMAIN m |-> m[i].record]
  BY DEF RecordsOf
<1> HIDE DEF P, D
<1>5. Placed(D, P, 0, pos)
  BY <1>2 DEF Placed
<1> HIDE DEF pos
<1>6. At(D, P) = [j \in 1 .. 0 |-> D[pos[j]]]
  BY <1>3, <1>5, AtPositions
<1>7. DOMAIN m = {}
  BY <1>6
<1> HIDE DEF m
<1> QED
  BY <1>1, <1>4, <1>7 DEF D

(* The record being prepared lies behind the records stored, and has a     *)
(* number.                                                                 *)
DraftInv ==
  drafting => p_new_record = db.tail /\ Row(db, Used(db)).seq_num # 0

StoreDraft == IF drafting THEN db.records[p_new_record] ELSE ZeroRecord
StoreCut == IF "DELETE_RECS" \in asked THEN RecordsOf(due) ELSE <<>>

LEMMA DraftRow ==
  ASSUME Counted, DraftInv, drafting = TRUE
  PROVE  StoreDraft = Row(db, Used(db)) /\ StoreDraft # ZeroRecord /\ StoreDraft \in Record
<1>1. CountedIn(db)
  BY DEF Counted, CountedIn
<1>2. p_new_record = db.tail /\ Row(db, Used(db)).seq_num # 0
  BY DEF DraftInv
<1>3. StoreDraft = Row(db, Used(db)) /\ Row(db, Used(db)) \in Record
  BY <1>1, <1>2, StoredRows DEF StoreDraft
<1>4. ZeroRecord.seq_num = 0
  BY DEF ZeroRecord
<1> QED
  BY <1>2, <1>3, <1>4

LEMMA DraftPrepared ==
  ASSUME Counted, Chain, NEW sample \in Samples, Prepare(sample)
  PROVE  DraftInv' /\ Store!Prepare
<1> DEFINE e == gls_prepare_new_record(db, sample.time, sample.ctxt)
           n == Used(db)
           row == [seq_num |-> (db.seq_num + 1) % WordSize, base_time |-> sample.time,
                   ctxt_info_follows |-> sample.ctxt]
<1>1. /\ db \in Database /\ CountedIn(db) /\ db' = e /\ p_new_record' = db.tail
      /\ drafting = FALSE /\ drafting' = TRUE /\ asked' = asked /\ due' = due
  BY DEF Counted, CountedIn, Prepare, clientVars
<1>2. sample.time \in 0 .. MaxTime /\ sample.ctxt \in BOOLEAN
  BY GlsAssumption DEF GlsAssumption
<1>3. CountedIn(e)
  BY <1>1, <1>2, PrepareCounted
<1>4. /\ Used(e) = n /\ e.tail = db.tail /\ Row(e, n) = row
      /\ \A k \in 0 .. n - 1 : Row(e, k) = Row(db, k)
  BY <1>1, PrepareRows
<1>5. row.seq_num # 0
  <2>1. db.seq_num \in Nat /\ db.seq_num < MaxRecords
    BY <1>1 DEF Database, Word, Prepare
  <2>2. MaxRecords \in 0 .. WordSize - 1
    BY GlsAssumption DEF GlsAssumption
  <2>3. (db.seq_num + 1) % WordSize = db.seq_num + 1
    <3>1. db.seq_num + 1 \in 0 .. WordSize - 1
      BY <2>1, <2>2, WordSizeType
    <3> QED
      BY <3>1, WordSizeType
  <2> QED
    BY <2>1, <2>3
<1>6. n \in Nat /\ Used(e) \in Nat /\ Row(e, n) = e.records[e.tail] /\ Row(e, n) \in Record
      /\ Stored(e) = [i \in 1 .. n |-> Row(e, i - 1)]
      /\ Stored(db) = [i \in 1 .. n |-> Row(db, i - 1)]
  BY <1>1, <1>3, <1>4, Size, StoredRows
<1> HIDE DEF e, n, row
<1>7. Stored(e) = Stored(db)
  BY <1>4, <1>6
<1>8. DraftInv'
  <2>1. Row(db', Used(db')).seq_num # 0
    BY <1>1, <1>4, <1>5
  <2> QED
    BY <1>1, <1>4, <2>1 DEF DraftInv
<1>9. StoreDraft = ZeroRecord /\ StoreDraft' \in Record /\ Stored(db)' = Stored(db) /\ StoreCut' = StoreCut
  BY <1>1, <1>4, <1>6, <1>7 DEF StoreDraft, StoreCut
<1> QED
  BY <1>8, <1>9 DEF Store!Prepare, StoreDraft, StoreCut

(* A sequence that ends with x and otherwise is s, or s without its first. *)
LEMMA Grown ==
  ASSUME NEW S, NEW s \in Seq(S), NEW t \in Seq(S), NEW x \in S, NEW n \in Nat, Len(s) = n,
         Len(t) = n + 1, \A i \in 1 .. n : t[i] = s[i], t[n + 1] = x
  PROVE  t = Append(s, x)
<1>1. Append(s, x) \in Seq(S) /\ Len(Append(s, x)) = n + 1
  OBVIOUS
<1>2. \A i \in 1 .. n + 1 : t[i] = Append(s, x)[i]
  OBVIOUS
<1> QED
  BY <1>1, <1>2, SeqEqual

LEMMA Shifted ==
  ASSUME NEW S, NEW s \in Seq(S), NEW t \in Seq(S), NEW x \in S, NEW n \in Nat, Len(s) = n,
         n > 0, Len(t) = n, \A i \in 1 .. n - 1 : t[i] = s[i + 1], t[n] = x
  PROVE  t = Append(Tail(s), x)
<1>1. Tail(s) \in Seq(S) /\ Len(Tail(s)) = n - 1 /\ \A i \in 1 .. n - 1 : Tail(s)[i] = s[i + 1]
  OBVIOUS
<1>2. Append(Tail(s), x) \in Seq(S) /\ Len(Append(Tail(s), x)) = n
  BY <1>1
<1>3. \A i \in 1 .. n : t[i] = Append(Tail(s), x)[i]
  BY <1>1
<1> QED
  BY <1>2, <1>3, SeqEqual

LEMMA DraftPushed ==
  ASSUME Counted, DraftInv, Push
  PROVE  DraftInv' /\ Store!Push
<1> DEFINE e == gls_push_new_record(db)
           n == Used(db)
           row == Row(db, n)
           s == Stored(db)
           t == Stored(e)
<1>1. /\ db \in Database /\ CountedIn(db) /\ db' = e /\ drafting = TRUE /\ drafting' = FALSE
      /\ asked' = asked /\ due' = due
  BY DEF Counted, CountedIn, Push, clientVars
<1>2. CountedIn(e)
  BY <1>1, PushCounted
<1>3. StoreDraft = row /\ StoreDraft # ZeroRecord /\ row \in Record
  BY <1>1, DraftRow
<1>4. /\ Full(db) => /\ Used(e) = n
                     /\ \A k \in 0 .. n - 1 : Row(e, k) = Row(db, k + 1)
      /\ ~Full(db) => /\ Used(e) = n + 1
                      /\ \A k \in 0 .. n : Row(e, k) = Row(db, k)
  BY <1>1, PushRows
<1>5. /\ n \in 0 .. SIZE - 1 /\ s \in Seq(Record) /\ Len(s) = n
      /\ s = [i \in 1 .. n |-> Row(db, i - 1)]
      /\ t \in Seq(Record) /\ Len(t) = Used(e) /\ t = [i \in 1 .. Used(e) |-> Row(e, i - 1)]
  BY <1>1, <1>2, StoredRows
<1>6. Full(db) <=> n = SIZE - 1
  <2> DEFINE h == db.head
             p == db.tail
  <2>1. h \in 0 .. SIZE - 1 /\ p \in 0 .. SIZE - 1 /\ n = Minus(p, h)
    BY <1>1, Places
  <2>2. (h - p + SIZE) % SIZE = Minus(h, p)
    <3>1. h \in -1 .. SIZE - 1
      BY <2>1
    <3> HIDE DEF h, p
    <3> QED
      BY <2>1, <3>1, RoundDifference, Zenon
  <2>3. Full(db) <=> Minus(h, p) = 1
    BY <2>2 DEF Full
  <2> HIDE DEF h, p, n
  <2> QED
    BY <2>1, <2>3, Size DEF Minus
<1> HIDE DEF e, n, row, s, t
<1>7. n \in Nat /\ SIZE - 1 \in Nat /\ SIZE - 1 > 0
  BY <1>5, Size
<1>8. t = Append(IF Len(s) = SIZE - 1 THEN Tail(s) ELSE s, row)
  <2>1. CASE Full(db)
    <3>1. Len(t) = n /\ n > 0
      BY <1>4, <1>5, <1>6, <1>7, <2>1
    <3>2. \A i \in 1 .. n : i - 1 \in 0 .. n - 1 /\ (i - 1) + 1 = i /\ t[i] = Row(e, i - 1)
      BY <1>4, <1>5, <1>7, <2>1
    <3>3. \A i \in 1 .. n : t[i] = Row(db, i)
      BY <1>4, <2>1, <3>2
    <3>4. \A i \in 1 .. n - 1 : s[i + 1] = Row(db, i)
      BY <1>5, <1>7
    <3>5. t[n] = row
      BY <1>7, <3>1, <3>3 DEF row
    <3>6. \A i \in 1 .. n - 1 : t[i] = s[i + 1]
      BY <1>7, <3>3, <3>4
    <3>7. s \in Seq(Record) /\ t \in Seq(Record) /\ row \in Record /\ n \in Nat /\ Len(s) = n
      BY <1>3, <1>5, <1>7
    <3>8. t = Append(Tail(s), row)
      BY <3>1, <3>5, <3>6, <3>7, Shifted
    <3> QED
      BY <1>5, <1>6, <2>1, <3>8
  <2>2. CASE ~Full(db)
    <3>1. Len(t) = n + 1
      BY <1>4, <1>5, <2>2
    <3>2. \A i \in 1 .. n + 1 : i - 1 \in 0 .. n /\ t[i] = Row(e, i - 1)
      BY <1>4, <1>5, <1>7, <2>2
    <3>3. \A i \in 1 .. n + 1 : t[i] = Row(db, i - 1)
      BY <1>4, <2>2, <3>2
    <3>4. \A i \in 1 .. n : s[i] = Row(db, i - 1)
      BY <1>5, <1>7
    <3>5. t[n + 1] = row
      <4>1. n + 1 \in 1 .. n + 1 /\ (n + 1) - 1 = n
        BY <1>7
      <4> QED
        BY <3>3, <4>1 DEF row
    <3>6. \A i \in 1 .. n : t[i] = s[i]
      BY <1>7, <3>3, <3>4
    <3>7. s \in Seq(Record) /\ t \in Seq(Record) /\ row \in Record /\ n \in Nat /\ Len(s) = n
      BY <1>3, <1>5, <1>7
    <3>8. t = Append(s, row)
      BY <3>1, <3>5, <3>6, <3>7, Grown
    <3> QED
      BY <1>5, <1>6, <2>2, <3>8
  <2> QED
    BY <2>1, <2>2
<1>9. DraftInv'
  BY <1>1 DEF DraftInv
<1>10. /\ Stored(db)' = Append(IF Len(Stored(db)) = SIZE - 1 THEN Tail(Stored(db)) ELSE Stored(db),
                              StoreDraft)
       /\ StoreDraft' = ZeroRecord /\ StoreCut' = StoreCut
  BY <1>1, <1>3, <1>8 DEF StoreDraft, StoreCut, s, t
<1> QED
  BY <1>3, <1>9, <1>10 DEF Store!Push, StoreDraft, StoreCut

(* A deletion of the service is the deletion of the store: what it removes *)
(* is what the client is told, and the record being prepared stays.        *)
LEMMA WriteDeletes ==
  ASSUME ReportInv, DraftInv, Strict, NEW q \in Request, WriteRequest(q), Deletes(q)
  PROVE  DraftInv' /\ Store!Delete(q)
<1> DEFINE f == gls_find_records(db, q)
           e == DeleteFound(db, q.op, f)
           off == Offset(f)
           num == f.num
           n == Used(db)
           s == Stored(db)
<1>1. /\ ~Gap(q) /\ ~Outside(q) /\ ~(drafting /\ DatabaseAfter(q).tail # db.tail)
      /\ db' = DatabaseAfter(q) /\ drafting' = drafting /\ p_new_record' = p_new_record
      /\ asked' = {q.op_code} /\ due' = Packets(q)
  BY DEF WriteRequest, Allowed, Strict
<1>2. q.x \in Int /\ q.y \in Int
  BY RequestType
<1>3. Counted /\ CountedIn(db) /\ Ordered(db, n) /\ drafting \in BOOLEAN
  BY BaseOrder DEF ReportInv, GlsInv, Bounds, Counted, CountedIn
<1>4. /\ db' = e /\ gls_racp_check(q) = "SUCCESS" /\ f.num > 0
      /\ ~(q.op = "RANGE" /\ WritesOutside(db, f)) /\ q.op_code = "DELETE_RECS"
  BY <1>1 DEF DatabaseAfter, Deletes, Outside
<1>5. /\ off \in Nat /\ num \in Nat /\ Used(e) = n - num
      /\ \A k \in 0 .. n - num :
           k < n - num \/ e.tail = db.tail => Moved(db, e, off, num, k)
  BY <1>1, <1>2, <1>3, <1>4, DeletedRows
<1>6. CountedIn(e)
  BY <1>1, <1>2, <1>3, <1>4, DeleteCounted
<1>7. off + num <= n /\ Store!Selected(q, s) = off + 1 .. off + num
  BY <1>1, <1>2, <1>3, <1>4, SelectedPlaces
<1>8. PICK at : Layout(Packets(q), RowsFrom(db, off, num), num, at)
  BY <1>1, <1>2, <1>3, <1>4, PacketsFound
<1>9. RecordsOf(Packets(q)) = [j \in 1 .. num |-> RowsFrom(db, off, num)[j - 1]]
  <2> HIDE DEF f, off
  <2> QED
    BY <1>5, <1>8, RecordsOfLayout
<1>10. /\ n \in Nat /\ s \in Seq(Record) /\ Len(s) = n /\ DOMAIN s = 1 .. n
       /\ s = [i \in 1 .. n |-> Row(db, i - 1)]
       /\ Row(db, n) = db.records[db.tail]
       /\ Stored(e) = [i \in 1 .. n - num |-> Row(e, i - 1)]
       /\ Row(e, n - num) = e.records[e.tail]
  <2>1. /\ n \in 0 .. SIZE - 1 /\ s \in Seq(Record) /\ Len(s) = n
        /\ s = [i \in 1 .. n |-> Row(db, i - 1)] /\ Row(db, n) = db.records[db.tail]
    BY <1>3, StoredRows
  <2>2. /\ Stored(e) = [i \in 1 .. n - num |-> Row(e, i - 1)]
        /\ Row(e, n - num) = e.records[e.tail]
    BY <1>5, <1>6, StoredRows
  <2> HIDE DEF n, s, e, num
  <2> QED
    BY <2>1, <2>2, Size
<1> HIDE DEF f, e, off, num, n, s
<1>11. Cut(s, off, num)
  <2>1. s \in Seq(Record) /\ off \in Nat /\ num \in Nat /\ off + num <= Len(s)
    BY <1>5, <1>7, <1>10
  <2> QED
    BY <2>1, RunAt
<1>12. /\ At(s, Store!Selected(q, s)) = [j \in 1 .. num |-> s[off + j]]
       /\ At(s, DOMAIN s \ Store!Selected(q, s)) =
            [j \in 1 .. n - num |-> s[IF j <= off THEN j ELSE j + num]]
  <2>1. Len(s) = n /\ Store!Selected(q, s) = off + 1 .. off + num
    BY <1>7, <1>10
  <2> QED
    BY <1>11, <2>1 DEF Cut
<1>13. RecordsOf(Packets(q)) = At(s, Store!Selected(q, s))
  <2>1. \A j \in 1 .. num : off + j \in 1 .. n /\ j - 1 \in 0 .. num - 1 /\ (off + j) - 1 = off + (j - 1)
    BY <1>5, <1>7, <1>10
  <2>2. \A j \in 1 .. num : RowsFrom(db, off, num)[j - 1] = Row(db, off + (j - 1))
    BY <2>1 DEF RowsFrom
  <2>3. \A j \in 1 .. num : s[off + j] = Row(db, (off + j) - 1)
    BY <1>10, <2>1
  <2>4. \A j \in 1 .. num : RowsFrom(db, off, num)[j - 1] = s[off + j]
    BY <2>1, <2>2, <2>3
  <2> QED
    BY <1>9, <1>12, <2>4
<1>14. Stored(e) = At(s, DOMAIN s \ Store!Selected(q, s))
  <2> DEFINE g(j) == IF j <= off THEN j ELSE j + num
             h(k) == IF k < off THEN k ELSE k + num
  <2>1. \A j \in 1 .. n - num : /\ j - 1 \in 0 .. n - num /\ j - 1 < n - num
                                /\ g(j) \in 1 .. n /\ g(j) - 1 = h(j - 1)
    BY <1>5, <1>7, <1>10
  <2>2. \A j \in 1 .. n - num : Row(e, j - 1) = Row(db, h(j - 1))
    BY <1>5, <2>1 DEF Moved
  <2> HIDE DEF g, h
  <2>3. \A j \in 1 .. n - num : s[g(j)] = Row(db, g(j) - 1)
    BY <1>10, <2>1
  <2>4. \A j \in 1 .. n - num : Row(e, j - 1) = s[g(j)]
    BY <2>1, <2>2, <2>3
  <2>5. [j \in 1 .. n - num |-> Row(e, j - 1)] = [j \in 1 .. n - num |-> s[g(j)]]
    BY <2>4
  <2> QED
    BY <1>10, <1>12, <2>5 DEF g
<1>15. DraftInv' /\ StoreDraft' = StoreDraft
  <2>1. CASE drafting = TRUE
    <3>1. e.tail = db.tail /\ p_new_record = db.tail /\ Row(db, n).seq_num # 0
      BY <1>1, <1>4, <2>1 DEF DraftInv, n
    <3>2. n - num \in 0 .. n - num /\ ~(n - num < off) /\ (n - num) + num = n
      BY <1>5, <1>7, <1>10
    <3>3. Row(e, n - num) = Row(db, n)
      BY <1>5, <3>1, <3>2 DEF Moved
    <3>4. StoreDraft' = StoreDraft
      BY <1>1, <1>4, <1>10, <2>1, <3>1, <3>3 DEF StoreDraft
    <3>5. Row(db', Used(db')).seq_num # 0
      BY <1>4, <1>5, <3>1, <3>3
    <3> QED
      BY <1>1, <1>4, <3>1, <3>4, <3>5 DEF DraftInv
  <2>2. CASE drafting = FALSE
    BY <1>1, <2>2 DEF DraftInv, StoreDraft
  <2> QED
    BY <1>3, <2>1, <2>2
<1>16. StoreCut' = RecordsOf(Packets(q))
  BY <1>1, <1>4 DEF StoreCut
<1>17. /\ StoreCut' = Store!At(s, Store!Selected(q, s))
       /\ Stored(db)' = Store!At(s, DOMAIN s \ Store!Selected(q, s))
  BY <1>4, <1>13, <1>14, <1>16, StoreAt
<1> QED
  BY <1>15, <1>17 DEF Store!Delete, StoreDraft, StoreCut, s

(* Any other request leaves the records alone, and deletes nothing.        *)
LEMMA WriteAnswers ==
  ASSUME ReportInv, DraftInv, Strict, NEW q \in Request, WriteRequest(q), ~Deletes(q)
  PROVE  DraftInv' /\ Store!Answer
<1>1. /\ ~Gap(q) /\ db' = db /\ drafting' = drafting /\ p_new_record' = p_new_record
      /\ asked' = {q.op_code} /\ due' = Packets(q)
  BY DEF WriteRequest, Allowed, Strict, DatabaseAfter
<1>2. DraftInv' /\ StoreDraft' = StoreDraft /\ Stored(db)' = Stored(db)
  BY <1>1 DEF DraftInv, StoreDraft
<1>3. StoreCut' = <<>>
  <2>1. CASE q.op_code # "DELETE_RECS"
    BY <1>1, <2>1 DEF StoreCut
  <2>2. CASE gls_racp_check(q) # "SUCCESS"
    <3>1. Packets(q) = <<>>
      BY <2>2 DEF Packets
    <3> QED
      BY <1>1, <3>1, NothingRecorded DEF StoreCut
  <2>3. CASE q.op_code = "DELETE_RECS" /\ gls_racp_check(q) = "SUCCESS"
    <3> DEFINE f == gls_find_records(db, q)
               K == RowsFrom(db, Offset(f), f.num)
    <3>1. q.x \in Int /\ q.y \in Int
      BY RequestType
    <3>2. Counted /\ Ordered(db, Used(db))
      BY BaseOrder DEF ReportInv, GlsInv, Bounds
    <3>3. f.num \in Nat
      BY <1>1, <2>3, <3>1, <3>2, SelectedPlaces
    <3>4. f.num = 0
      BY <2>3, <3>3 DEF Deletes
    <3>5. PICK at : Layout(Packets(q), K, f.num, at)
      BY <1>1, <2>3, <3>1, <3>2, PacketsFound
    <3> HIDE DEF f, K
    <3>6. RecordsOf(Packets(q)) = [j \in 1 .. f.num |-> K[j - 1]]
      BY <3>3, <3>5, RecordsOfLayout
    <3> QED
      BY <1>1, <3>4, <3>6, NothingRecorded DEF StoreCut
  <2> QED
    BY <2>1, <2>2, <2>3
<1> QED
  BY <1>2, <1>3 DEF Store!Answer, StoreDraft, StoreCut

(* A packet that goes out, or the loss of the link, ends the deletion or   *)
(* changes nothing.                                                        *)
LEMMA PacketAnswers ==
  ASSUME DraftInv, SendComplete \/ LinkLost
  PROVE  /\ DraftInv'
         /\ Store!Answer \/ UNCHANGED <<Stored(db), StoreDraft, StoreCut>>
<1>1. db' = db /\ drafting' = drafting /\ p_new_record' = p_new_record
  BY DEF SendComplete, LinkLost
<1>2. DraftInv' /\ StoreDraft' = StoreDraft /\ Stored(db)' = Stored(db)
  BY <1>1 DEF DraftInv, StoreDraft
<1>3. "DELETE_RECS" \in asked' => "DELETE_RECS" \in asked /\ due' = due
  <2>1. CASE LinkLost
    BY <2>1 DEF LinkLost
  <2>2. CASE SendComplete
    <3>1. asked' = AskedAfter(Head(air)) /\ (asked' # {} => due' = due)
      BY <2>2 DEF SendComplete
    <3>2. AskedAfter(Head(air)) \subseteq asked
      BY DEF AskedAfter
    <3> QED
      BY <3>1, <3>2
  <2> QED
    BY <2>1, <2>2
<1>4. StoreCut' = <<>> \/ StoreCut' = StoreCut
  BY <1>3 DEF StoreCut
<1> QED
  BY <1>2, <1>4 DEF Store!Answer, StoreDraft, StoreCut

LEMMA StoreInit ==
  ASSUME Init
  PROVE  DraftInv /\ Store!Init
<1>1. CountedIn(db) /\ drafting = FALSE /\ asked = {} /\ db.record_num = 0
  BY InitCounted DEF Init, gls_add_service
<1>2. Used(db) = 0
  BY <1>1 DEF CountedIn
<1>3. Stored(db) = [i \in 1 .. 0 |-> Row(db, i - 1)]
  BY <1>1, <1>2, StoredRows
<1>4. Stored(db) = <<>>
  BY <1>3
<1> QED
  BY <1>1, <1>4 DEF DraftInv, Store!Init

LEMMA StoreNext ==
  ASSUME Strict, ReportInv, DraftInv, [Next]_vars
  PROVE  DraftInv' /\ (Store!Next \/ UNCHANGED <<Stored(db), StoreDraft, StoreCut>>)
<1>1. Counted /\ Chain
  BY DEF ReportInv, GlsInv
<1>2. ASSUME NEW q \in Request, WriteRequest(q) PROVE DraftInv' /\ Store!Next
  <2>1. CASE Deletes(q)
    <3>1. DraftInv' /\ Store!Delete(q)
      BY <1>2, <2>1, WriteDeletes
    <3> QED
      BY <3>1 DEF Store!Next
  <2>2. CASE ~Deletes(q)
    <3>1. DraftInv' /\ Store!Answer
      BY <1>2, <2>2, WriteAnswers
    <3> QED
      BY <3>1 DEF Store!Next
  <2> QED
    BY <2>1, <2>2
<1>3. ASSUME db' = db, drafting' = drafting, p_new_record' = p_new_record, due' = due,
             asked' = asked \/ asked' = asked \cup {"ABORT_OPERATION"}
      PROVE  DraftInv' /\ UNCHANGED <<Stored(db), StoreDraft, StoreCut>>
  <2>1. DraftInv' /\ StoreDraft' = StoreDraft /\ Stored(db)' = Stored(db)
    BY <1>3 DEF DraftInv, StoreDraft
  <2>2. "DELETE_RECS" \in asked' <=> "DELETE_RECS" \in asked
    BY <1>3
  <2>3. StoreCut' = StoreCut
    BY <1>3, <2>2 DEF StoreCut
  <2> QED
    BY <2>1, <2>3
<1>4. CASE WriteAbort
  BY <1>3, <1>4 DEF WriteAbort
<1>5. ASSUME NEW c \in Toggled, gls_cccd_update_cb(c)
      PROVE  DraftInv' /\ UNCHANGED <<Stored(db), StoreDraft, StoreCut>>
  BY <1>3, <1>5 DEF gls_cccd_update_cb, clientVars
<1>6. ASSUME NEW sample \in Samples, Prepare(sample) PROVE DraftInv' /\ Store!Next
  <2>1. DraftInv' /\ Store!Prepare
    BY <1>1, <1>6, DraftPrepared
  <2> QED
    BY <2>1 DEF Store!Next
<1>7. CASE Push
  <2>1. DraftInv' /\ Store!Push
    BY <1>1, <1>7, DraftPushed
  <2> QED
    BY <2>1 DEF Store!Next
<1>8. CASE gls_abort_racp_procedure
  BY <1>3, <1>8 DEF gls_abort_racp_procedure, clientVars
<1>9. CASE SendComplete \/ LinkLost
  <2>1. DraftInv' /\ (Store!Answer \/ UNCHANGED <<Stored(db), StoreDraft, StoreCut>>)
    BY <1>9, PacketAnswers
  <2> QED
    BY <2>1 DEF Store!Next
<1>10. CASE UNCHANGED vars
  BY <1>3, <1>10 DEF vars, clientVars
<1> QED
  BY <1>2, <1>4, <1>5, <1>6, <1>7, <1>8, <1>9, <1>10 DEF Next

(* The ring of gls.c implements the store of records: what a client is     *)
(* told was deleted is what the filter selects, the other records stay in  *)
(* their order, and a push drops the oldest record only when the store is  *)
(* full.                                                                   *)
THEOREM StoreTheorem == Strict => (Spec => ImplementsStore)
<1> SUFFICES ASSUME Strict PROVE Spec => ImplementsStore
  OBVIOUS
<1>1. Init => ReportInv /\ DraftInv /\ Store!Init
  BY ReportInit, StoreInit
<1>2. ReportInv /\ DraftInv /\ [Next]_vars => ReportInv' /\ DraftInv'
  BY ReportNext, StoreNext
<1>3. ReportInv /\ DraftInv /\ [Next]_vars =>
        [Store!Next]_<<Stored(db), IF drafting THEN db.records[p_new_record] ELSE ZeroRecord,
                       IF "DELETE_RECS" \in asked THEN RecordsOf(due) ELSE <<>>>>
  BY StoreNext DEF StoreDraft, StoreCut
<1> QED
  BY <1>1, <1>2, <1>3, PTL DEF Spec, ImplementsStore, Store!Spec
=============================================================================
