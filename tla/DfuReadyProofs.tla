---------------------------- MODULE DfuReadyProofs ----------------------------
(***************************************************************************)
(* Proof that a header which the boot loader accepts heads a complete      *)
(* image, when the banks are apart and no session leaves validated images  *)
(* behind for a session with another package; and that the update with two *)
(* banks implements BankUpdate.                                            *)
(*                                                                         *)
(* What is marked ready becomes so in dfu_service_handle_active_image,     *)
(* from valid_bitmap alone.  So the proofs follow valid_bitmap from the    *)
(* check that sets a bit to the activation: the image checked is whole     *)
(* (PrefixIntact and the check of the sum), nothing writes to its bank     *)
(* between, and writes to other banks stay there.                          *)
(***************************************************************************)
EXTENDS DfuTransferProofs

-----------------------------------------------------------------------------
(* The banks.                                                              *)

(* Every image has a bank of its own, and fits it.                         *)
Apart(i, k) ==
  BankBase[i] + BankSize[i] <= BankBase[k] \/ BankBase[k] + BankSize[k] <= BankBase[i]

BanksApart ==
  /\ \A i \in Images : Length[i] <= BankSize[i]
  /\ \A i, j \in Images : i # j =>
       BankBase[i] + BankSize[i] <= BankBase[j] \/ BankBase[j] + BankSize[j] <= BankBase[i]

(* The sectors of the bank of image i.                                     *)
Region(i) == {a \in Addr : BankBase[i] <= a /\ SectorFirst(a) < BankBase[i] + BankSize[i]}

(* A header that names image i heads the whole file of i.                  *)
Whole(f, i) == f.cells[BankBase[i]] = <<i, 0>> => HoldsFile(f, BankBase[i], i)

PlanImages(p) == {p[n] : n \in 1 .. Len(p)}

(* All packages are made of the same images.                               *)
PackagesAlike == \A p, q \in Plans : PlanImages(p) = PlanImages(q)

(* The sessions that leave nothing behind for another package.             *)
SessionsClean == PackagesAlike \/ LinkLossReset

(* The header at the start of a bank is the one of its image.              *)
HeadersPlaced(f) == \A i, j \in Images : f.cells[BankBase[j]] = <<i, 0>> => i = j

(* Only starts of banks are marked ready, and whole images if no session   *)
(* leaves bits behind.                                                     *)
ReadyWhole(f) ==
  /\ f.ready \subseteq {BankBase[i] : i \in Images}
  /\ SessionsClean => \A i \in Images : BankBase[i] \in f.ready => Whole(f, i)

(* What a write to the bank of image k, whole or failed, does to a flash:  *)
(* it stays in the bank, marks nothing ready, and leaves no header there   *)
(* that is still marked ready, unless nothing changed.                     *)
Within(f, g, k) ==
  /\ g \in Flash /\ g.ready \subseteq f.ready
  /\ \A a \in Addr \ Region(k) : g.cells[a] = f.cells[a]
  /\ \/ g.cells[BankBase[k]] \in {f.cells[BankBase[k]], Blank, Junk}
     \/ g.cells[BankBase[k]] \in {k, Noise} \X Nat
Rewrites(f, g, k) ==
  Within(f, g, k) /\ (BankBase[k] \in g.ready => g.cells = f.cells)

LEMMA WithinItself ==
  ASSUME NEW f \in Flash, NEW g \in Flash, g.cells = f.cells, g.ready = f.ready, NEW k
  PROVE  Within(f, g, k) /\ Rewrites(f, g, k)
BY DEF Within, Rewrites

LEMMA WithinThen ==
  ASSUME NEW f, NEW g, NEW h, NEW k, Within(f, g, k), Within(g, h, k)
  PROVE  Within(f, h, k)
<1>1. h \in Flash /\ h.ready \subseteq f.ready BY DEF Within
<1>2. \A a \in Addr \ Region(k) : h.cells[a] = f.cells[a] BY DEF Within
<1>3. \/ h.cells[BankBase[k]] \in {f.cells[BankBase[k]], Blank, Junk}
      \/ h.cells[BankBase[k]] \in {k, Noise} \X Nat
  BY DEF Within
<1> QED BY <1>1, <1>2, <1>3 DEF Within

LEMMA RewritesThen ==
  ASSUME NEW f, NEW g, NEW h, NEW k, Rewrites(f, g, k), Rewrites(g, h, k)
  PROVE  Rewrites(f, h, k)
<1>1. Within(f, h, k) BY WithinThen DEF Rewrites
<1>2. h.ready \subseteq g.ready BY DEF Rewrites, Within
<1> QED BY <1>1, <1>2 DEF Rewrites

LEMMA BankTyped ==
  ASSUME NEW i \in Images
  PROVE  /\ BankBase[i] \in Addr /\ BankBase[i] \in Nat
         /\ BankSize[i] \in Nat /\ BankBase[i] + BankSize[i] <= FlashSize
         /\ Length[i] \in Nat /\ Length[i] > 0
<1>1. Length[i] \in Nat \ {0} BY LayoutAssumption
<1> QED BY <1>1, LayoutAssumption

LEMMA BankAligned ==
  ASSUME NEW i \in Images
  PROVE  BankBase[i] % SectorSize = 0
BY LayoutAssumption

(* A multiple of the sector size is not inside a sector.                   *)
LEMMA FirstAbove ==
  ASSUME NEW a \in Nat, NEW b \in Nat, b % SectorSize = 0, b <= a
  PROVE  b <= SectorFirst(a) /\ SectorFirst(a) <= a
<1>1. /\ a = SectorSize * (a \div SectorSize) + (a % SectorSize)
      /\ a \div SectorSize \in Nat /\ a % SectorSize \in 0 .. SectorSize - 1
  BY Remainder
<1>2. b = SectorSize * (b \div SectorSize) /\ b \div SectorSize \in Nat
  <2>1. b = SectorSize * (b \div SectorSize) + (b % SectorSize) /\ b \div SectorSize \in Nat
    BY Remainder
  <2>2. SectorSize * (b \div SectorSize) \in Nat BY <2>1, LayoutAssumption
  <2> QED BY <2>1, <2>2
<1>3. SectorFirst(a) = SectorSize * (a \div SectorSize)
  <2>1. SectorSize * (a \div SectorSize) \in Nat BY <1>1, LayoutAssumption
  <2> DEFINE m == SectorSize * (a \div SectorSize)
             r == a % SectorSize
  <2>2. a = m + r /\ m \in Nat /\ r \in 0 .. SectorSize - 1 /\ SectorFirst(a) = a - r
    BY <1>1, <2>1 DEF SectorFirst
  <2> HIDE DEF m, r
  <2>3. SectorFirst(a) = m BY <2>2, LayoutAssumption
  <2> QED BY <2>3 DEF m
<1>4. CASE a \div SectorSize < b \div SectorSize
  <2>1. SectorSize * (a \div SectorSize) + SectorSize <= SectorSize * (b \div SectorSize)
    BY <1>1, <1>2, <1>4, SectorGap
  <2> QED BY <1>1, <1>2, <2>1, LayoutAssumption
<1>5. CASE a \div SectorSize = b \div SectorSize BY <1>1, <1>2, <1>3, <1>5
<1>6. CASE b \div SectorSize < a \div SectorSize
  <2>1. SectorSize * (b \div SectorSize) + SectorSize <= SectorSize * (a \div SectorSize)
    BY <1>1, <1>2, <1>6, SectorGap
  <2> QED BY <1>1, <1>2, <1>3, <2>1, LayoutAssumption
<1> QED BY <1>1, <1>2, <1>4, <1>5, <1>6

LEMMA SectorOf ==
  ASSUME NEW a \in Nat, NEW b \in Sector(a)
  PROVE  b >= SectorFirst(a) /\ SectorFirst(b) = SectorFirst(a)
<1> DEFINE q == a \div SectorSize
           r == b - SectorSize * q
<1>1. /\ a = SectorSize * q + (a % SectorSize) /\ q \in Nat
      /\ a % SectorSize \in 0 .. SectorSize - 1
  BY Remainder
<1>2. SectorSize * q \in Nat BY <1>1, LayoutAssumption
<1>3. SectorFirst(a) = SectorSize * q BY <1>1, <1>2 DEF SectorFirst
<1>4. /\ b \in Nat /\ b >= SectorFirst(a) /\ r \in 0 .. SectorSize - 1
      /\ b = SectorSize * q + r
  BY <1>2, <1>3, LayoutAssumption DEF Sector
<1> HIDE DEF q, r
<1>5. b % SectorSize = r BY <1>1, <1>4, QuotientUnique
<1> QED BY <1>2, <1>3, <1>4, <1>5 DEF SectorFirst

(* The sectors of a bank hold nothing of another bank.                     *)
LEMMA RegionApart ==
  ASSUME NEW i \in Images, NEW k \in Images, Apart(i, k),
         NEW n \in 0 .. BankSize[i] - 1
  PROVE  BankBase[i] + n \in Addr \ Region(k)
<1>1. /\ BankBase[i] \in Nat /\ BankSize[i] \in Nat /\ BankBase[k] \in Nat
      /\ BankSize[k] \in Nat /\ BankBase[i] + BankSize[i] <= FlashSize
  BY BankTyped
<1>2. BankBase[i] + n \in Addr /\ BankBase[i] + n \in Nat
  BY <1>1, LayoutAssumption DEF Addr
<1>3. SUFFICES ASSUME BankBase[k] <= BankBase[i] + n,
                      SectorFirst(BankBase[i] + n) < BankBase[k] + BankSize[k]
               PROVE  FALSE
  BY <1>2 DEF Region
<1>4. BankBase[i] + BankSize[i] <= BankBase[k] \/ BankBase[k] + BankSize[k] <= BankBase[i]
  BY DEF Apart
<1>5. BankBase[i] <= SectorFirst(BankBase[i] + n)
  <2>1. BankBase[i] <= BankBase[i] + n BY <1>1
  <2> QED BY <1>1, <1>2, <2>1, BankAligned, FirstAbove
<1>6. SectorFirst(BankBase[i] + n) \in Int BY <1>2, FirstTyped
<1> QED BY <1>1, <1>3, <1>4, <1>5, <1>6

(* A write to one bank leaves the others.                                  *)
LEMMA ApartBank ==
  ASSUME NEW f, NEW g, NEW k \in Images, Within(f, g, k),
         NEW i \in Images, Apart(i, k), Length[i] <= BankSize[i]
  PROVE  /\ g.cells[BankBase[i]] = f.cells[BankBase[i]]
         /\ HoldsFile(g, BankBase[i], i) <=> HoldsFile(f, BankBase[i], i)
         /\ Whole(f, i) => Whole(g, i)
<1>1. Length[i] \in Nat /\ Length[i] > 0 /\ BankSize[i] \in Nat BY BankTyped
<1>2. ASSUME NEW n \in 0 .. Length[i] - 1
      PROVE  g.cells[BankBase[i] + n] = f.cells[BankBase[i] + n]
  <2>1. n \in 0 .. BankSize[i] - 1 BY <1>1
  <2> QED BY <2>1, RegionApart DEF Within
<1>3. g.cells[BankBase[i]] = f.cells[BankBase[i]]
  <2>1. 0 \in 0 .. Length[i] - 1 BY <1>1
  <2>2. BankBase[i] + 0 = BankBase[i] BY BankTyped
  <2> QED BY <1>2, <2>1, <2>2
<1>4. HoldsFile(g, BankBase[i], i) <=> HoldsFile(f, BankBase[i], i)
  BY <1>2 DEF HoldsFile
<1> QED BY <1>3, <1>4 DEF Whole

LEMMA OtherBank ==
  ASSUME BanksApart, NEW f, NEW g, NEW k \in Images, Within(f, g, k),
         NEW i \in Images, i # k
  PROVE  /\ g.cells[BankBase[i]] = f.cells[BankBase[i]]
         /\ HoldsFile(g, BankBase[i], i) <=> HoldsFile(f, BankBase[i], i)
         /\ Whole(f, i) => Whole(g, i)
<1>1. Apart(i, k) /\ Length[i] <= BankSize[i] BY DEF BanksApart, Apart
<1> QED BY <1>1, ApartBank

LEMMA Tags ==
  ASSUME NEW i \in Images
  PROVE  <<i, 0>> \in Payload /\ Blank # <<i, 0>> /\ Junk # <<i, 0>> /\ OldFw # <<i, 0>>
         /\ i # Noise
<1>1. <<i, 0>> \in Payload BY DEF Payload
<1> QED BY <1>1, TagsAssumption

(* Whatever becomes of a write, what is marked ready stays whole.          *)
LEMMA RewriteKeepsReady ==
  ASSUME BanksApart, NEW f, NEW g, NEW k \in Images, Rewrites(f, g, k),
         HeadersPlaced(f), ReadyWhole(f)
  PROVE  HeadersPlaced(g) /\ ReadyWhole(g)
<1>1. Within(f, g, k) BY DEF Rewrites
<1>2. HeadersPlaced(g)
  <2> SUFFICES ASSUME NEW i \in Images, NEW j \in Images, g.cells[BankBase[j]] = <<i, 0>>
               PROVE  i = j
    BY DEF HeadersPlaced
  <2>1. CASE j # k
    <3>1. f.cells[BankBase[j]] = <<i, 0>> BY <1>1, <2>1, OtherBank
    <3> QED BY <3>1 DEF HeadersPlaced
  <2>2. CASE j = k
    <3>1. CASE g.cells[BankBase[k]] \in {f.cells[BankBase[k]], Blank, Junk}
      BY <2>2, <3>1, Tags DEF HeadersPlaced
    <3>2. CASE g.cells[BankBase[k]] \in {k, Noise} \X Nat BY <2>2, <3>2, Tags
    <3> QED BY <1>1, <3>1, <3>2 DEF Within
  <2> QED BY <2>1, <2>2
<1>3. g.ready \subseteq f.ready BY <1>1 DEF Within
<1>4. ASSUME SessionsClean, NEW i \in Images, BankBase[i] \in g.ready PROVE Whole(g, i)
  <2>1. Whole(f, i) BY <1>3, <1>4 DEF ReadyWhole
  <2>2. CASE i # k BY <1>1, <2>1, <2>2, OtherBank
  <2>3. CASE i = k
    <3>1. g.cells = f.cells BY <1>4, <2>3 DEF Rewrites
    <3> QED BY <2>1, <3>1 DEF Whole, HoldsFile
  <2> QED BY <2>2, <2>3
<1> QED BY <1>2, <1>3, <1>4 DEF ReadyWhole

-----------------------------------------------------------------------------
(* Erase, program and update stay in the bank.                             *)

LEMMA EraseWithin ==
  ASSUME NEW f \in Flash, NEW k \in Images, NEW a \in Nat, BankBase[k] <= a,
         SectorFirst(a) < BankBase[k] + BankSize[k],
         NEW mayFail, NEW e \in flash_erase_sector(f, a, mayFail)
  PROVE  /\ Within(f, e.fl, k)
         /\ BankBase[k] \in Sector(a) =>
              /\ BankBase[k] \in e.fl.ready => e.fl.cells = f.cells
              /\ e.ok => BankBase[k] \notin e.fl.ready
<1>1. e.fl \in Flash BY EraseTyped DEF Outcome
<1>2. BankBase[k] \in Nat /\ BankBase[k] \in Addr BY BankTyped
<1>3. ASSUME NEW c \in {Blank, Junk}, e.fl = Overwritten(f, a, c)
      PROVE  /\ Within(f, e.fl, k)
             /\ BankBase[k] \in Sector(a) => BankBase[k] \notin e.fl.ready
  <2>1. /\ e.fl.ready = f.ready \ Sector(a)
        /\ \A b \in Addr : e.fl.cells[b] = IF b \in Sector(a) THEN c ELSE f.cells[b]
    BY <1>3 DEF Overwritten, Flash
  <2>2. ASSUME NEW b \in Addr, b \in Sector(a) PROVE b \in Region(k)
    <3>1. BankBase[k] <= SectorFirst(a) BY <1>2, BankAligned, FirstAbove
    <3>2. b >= SectorFirst(a) /\ SectorFirst(b) = SectorFirst(a) BY <2>2, SectorOf
    <3>3. BankBase[k] <= b /\ SectorFirst(a) \in Int /\ b \in Int
      BY <1>2, <3>1, <3>2, FirstTyped DEF Addr
    <3> QED BY <3>2, <3>3 DEF Region
  <2>3. \A b \in Addr \ Region(k) : e.fl.cells[b] = f.cells[b] BY <2>1, <2>2
  <2>4. e.fl.cells[BankBase[k]] \in {f.cells[BankBase[k]], Blank, Junk} BY <1>2, <2>1
  <2> QED BY <1>1, <2>1, <2>3, <2>4 DEF Within
<1>4. \/ e.fl = Overwritten(f, a, Blank)
      \/ e.fl = f /\ ~e.ok
      \/ e.fl = Overwritten(f, a, Junk)
  BY DEF flash_erase_sector
<1>5. CASE e.fl = f /\ ~e.ok BY <1>5, WithinItself
<1> QED BY <1>3, <1>4, <1>5

(* Data for image k: its own cells, or damaged ones.                       *)
DataOf(d, k) == d \in Seq(Payload) /\ \A n \in 1 .. Len(d) : d[n] \in {k, Noise} \X Nat

LEMMA Between ==
  ASSUME NEW a \in Nat, NEW n \in Nat, NEW low \in Nat, NEW high \in Nat,
         low <= a, a + n <= high
  PROVE  /\ a + n \in Nat /\ low <= a + n /\ a + n <= high
         /\ \A j \in Nat : j < n => a + j \in Nat /\ low <= a + j /\ a + j < high
OBVIOUS

LEMMA InBank ==
  ASSUME NEW base \in Nat, NEW size \in Nat, NEW offset \in Nat, NEW n \in Nat,
         offset < size, offset + n <= size
  PROVE  base + offset < base + size /\ base + offset + n <= base + size
OBVIOUS

LEMMA ProgramWithin ==
  ASSUME NEW f \in Flash, NEW k \in Images, NEW a \in Nat, NEW d, DataOf(d, k),
         BankBase[k] <= a, a + Len(d) <= BankBase[k] + BankSize[k]
  PROVE  Within(f, Programmed(f, a, d), k) /\ Programmed(f, a, d).ready = f.ready
<1> DEFINE g == Programmed(f, a, d)
<1>1. d \in Seq(Payload) /\ Len(d) \in Nat BY DEF DataOf
<1>2. g \in Flash BY <1>1, ProgramTyped
<1>3. /\ g.ready = f.ready
      /\ \A b \in Addr : g.cells[b] =
           IF b \in a .. a + Len(d) - 1
             THEN IF f.cells[b] \in {Blank, d[b - a + 1]} THEN d[b - a + 1] ELSE Junk
             ELSE f.cells[b]
  BY DEF Programmed, Flash
<1> HIDE DEF g
<1>4. BankBase[k] \in Nat /\ BankBase[k] \in Addr /\ BankSize[k] \in Nat
  BY BankTyped
<1>5. ASSUME NEW b \in Addr, b \in a .. a + Len(d) - 1
      PROVE  b \in Region(k) /\ d[b - a + 1] \in {k, Noise} \X Nat
  <2>1. b \in Nat BY DEF Addr
  <2>2. b - a + 1 \in 1 .. Len(d) BY <1>1, <1>5, <2>1
  <2>3. BankBase[k] <= b /\ b < BankBase[k] + BankSize[k] BY <1>1, <1>4, <1>5, <2>1
  <2>4. SectorFirst(b) <= b /\ SectorFirst(b) \in Int
    BY <1>4, <2>1, <2>3, BankAligned, FirstAbove, FirstTyped
  <2>5. SectorFirst(b) < BankBase[k] + BankSize[k] BY <1>4, <2>1, <2>3, <2>4
  <2> QED BY <2>2, <2>3, <2>5 DEF Region, DataOf
<1>6. \A b \in Addr \ Region(k) : g.cells[b] = f.cells[b] BY <1>3, <1>5
<1>7. \/ g.cells[BankBase[k]] \in {f.cells[BankBase[k]], Blank, Junk}
      \/ g.cells[BankBase[k]] \in {k, Noise} \X Nat
  BY <1>3, <1>4, <1>5
<1> QED BY <1>2, <1>3, <1>6, <1>7 DEF Within, g

LEMMA WriteWithin ==
  ASSUME NEW f \in Flash, NEW k \in Images, NEW a \in Nat, NEW d, DataOf(d, k),
         BankBase[k] <= a, a + Len(d) <= BankBase[k] + BankSize[k],
         NEW mayFail, NEW w \in dfu_write(f, a, d, mayFail)
  PROVE  Within(f, w.fl, k) /\ w.fl.ready = f.ready
<1>1. d \in Seq(Payload) /\ Len(d) \in Nat BY DEF DataOf
<1>2. CASE w = [fl |-> Programmed(f, a, d), ok |-> ReadsBack(Programmed(f, a, d), a, d)]
  BY <1>2, ProgramWithin
<1>3. ASSUME NEW j \in 0 .. Len(d) - 1,
             w = [fl |-> [Programmed(f, a, SubSeq(d, 1, j)) EXCEPT !.cells[a + j] = Junk],
                  ok |-> FALSE]
      PROVE  Within(f, w.fl, k) /\ w.fl.ready = f.ready
  <2> DEFINE s == SubSeq(d, 1, j)
             g == Programmed(f, a, s)
             h == [g EXCEPT !.cells[a + j] = Junk]
  <2>0. j \in Nat /\ j < Len(d) BY <1>1
  <2>1. s \in Seq(Payload) /\ Len(s) = j /\ \A n \in 1 .. j : s[n] = d[n]
    BY <1>1, <1>3
  <2>2. DataOf(s, k)
    <3>1. \A n \in 1 .. j : n \in 1 .. Len(d) BY <1>1, <1>3
    <3> HIDE DEF s
    <3> QED BY <2>1, <3>1 DEF DataOf
  <2>3. BankBase[k] \in Nat /\ BankBase[k] \in Addr /\ BankSize[k] \in Nat
        /\ BankBase[k] + BankSize[k] <= FlashSize
    BY BankTyped
  <2>4. Within(f, g, k) /\ g.ready = f.ready
    <3>1. a + Len(s) <= BankBase[k] + BankSize[k]
      <4> HIDE DEF s
      <4> QED BY <1>1, <2>0, <2>1, <2>3
    <3> HIDE DEF s
    <3> QED BY <2>2, <3>1, ProgramWithin
  <2>5. g \in Flash BY <2>4 DEF Within
  <2> HIDE DEF g
  <2>6. a + j \in Region(k)
    <3>1. a + j \in Nat /\ BankBase[k] <= a + j /\ a + j < BankBase[k] + BankSize[k]
      <4>1. Len(d) \in Nat BY <1>1
      <4>2. BankBase[k] + BankSize[k] \in Nat BY <2>3
      <4> QED BY <2>0, <2>3, <4>1, <4>2, Between
    <3>2. a + j \in Addr BY <2>3, <3>1, LayoutAssumption DEF Addr
    <3>3. SectorFirst(a + j) <= a + j /\ SectorFirst(a + j) \in Int
      BY <2>3, <3>1, BankAligned, FirstAbove, FirstTyped
    <3>4. SectorFirst(a + j) < BankBase[k] + BankSize[k] BY <2>3, <3>1, <3>3
    <3> QED BY <3>1, <3>2, <3>4 DEF Region
  <2>7. /\ h.ready = g.ready
        /\ \A b \in Addr : h.cells[b] = IF b = a + j THEN Junk ELSE g.cells[b]
    BY <2>5, FlashRecord DEF Flash
  <2>8. h \in Flash
    <3>1. w.fl = h BY <1>3 DEF g
    <3>2. w \in Outcome BY <1>1, WriteTyped
    <3> QED BY <3>1, <3>2 DEF Outcome
  <2> HIDE DEF h
  <2>9. Within(g, h, k) BY <2>3, <2>6, <2>7, <2>8 DEF Within
  <2>10. w.fl = h BY <1>3 DEF g, h
  <2> QED BY <2>4, <2>7, <2>9, <2>10, WithinThen
<1> QED BY <1>2, <1>3 DEF dfu_write

LEMMA BpCells ==
  ASSUME NEW f \in Flash
  PROVE  /\ unlock_flash_bp_all(f).cells = f.cells /\ unlock_flash_bp_all(f).ready = f.ready
         /\ lock_flash_bp(f).cells = f.cells /\ lock_flash_bp(f).ready = f.ready
BY DEF unlock_flash_bp_all, lock_flash_bp, Flash

(* A write belongs to a transfer that has not filled the bank; once it has *)
(* left the start of the bank the header is no longer marked ready.        *)
Continues(f, k, offset, d) ==
  /\ d # << >> \/ offset < BankSize[k]
  /\ offset > 0 => BankBase[k] \notin f.ready

LEMMA NotAbove ==
  ASSUME NEW a \in Nat, NEW n \in Nat, NEW size \in Nat, ~(a + n > size)
  PROVE  a + n <= size /\ (n > 0 => a < size)
OBVIOUS

LEMMA UpdateRewrites ==
  ASSUME NEW f \in Flash, NEW k \in Images, NEW offset \in Nat, NEW total \in Nat,
         NEW place, place = offset + total, NEW d, DataOf(d, k), Continues(f, k, place, d),
         NEW mayFail, NEW u \in dfu_update(f, k, offset, total, d, mayFail)
  PROVE  /\ Rewrites(f, u.fl, k)
         /\ u.ok => BankBase[k] \notin u.fl.ready
<1> DEFINE start == BankBase[k] + offset + total
           open == unlock_flash_bp_all(f)
           erased == IF SectorToErase(start, Len(d)) = {}
                       THEN {[fl |-> open, ok |-> TRUE]}
                       ELSE UNION {flash_erase_sector(open, a, mayFail)
                                     : a \in SectorToErase(start, Len(d))}
           checks == check_dfu_update_image_length(k, offset + total, d)
           Spent(fl) == BankBase[k] \in fl.ready => fl.cells = f.cells
<1>1. /\ start \in Nat /\ start = BankBase[k] + place /\ place \in Nat /\ BankBase[k] \in Nat
      /\ BankBase[k] <= start /\ BankBase[k] + BankSize[k] \in Nat
      /\ BankSize[k] \in Nat /\ BankBase[k] \in Addr
  <2>1. BankBase[k] \in Nat /\ BankSize[k] \in Nat BY BankTyped
  <2> QED BY <2>1, BankTyped
<1>2. d \in Seq(Payload) /\ Len(d) \in Nat /\ (d # << >> => Len(d) > 0) BY DEF DataOf
<1>3. open \in Flash /\ open.cells = f.cells /\ open.ready = f.ready BY BpTyped, BpCells
<1>4. ASSUME TRUE \in checks
      PROVE  start < BankBase[k] + BankSize[k] /\ start + Len(d) <= BankBase[k] + BankSize[k]
  <2>1. offset + total = place OBVIOUS
  <2>2. ~(place + Len(d) > BankSize[k])
    BY <1>4, <2>1 DEF checks, check_dfu_update_image_length
  <2> HIDE DEF start
  <2>3. place + Len(d) <= BankSize[k] /\ (Len(d) > 0 => place < BankSize[k])
    <3>1. place \in Nat /\ Len(d) \in Nat /\ BankSize[k] \in Nat BY <1>1, <1>2
    <3> QED BY <2>2, <3>1, NotAbove
  <2>4. place < BankSize[k]
    <3>1. CASE d # << >> BY <1>2, <2>3, <3>1
    <3> QED BY <3>1 DEF Continues
  <2>5. Len(d) \in Nat BY <1>2
  <2>6. /\ BankBase[k] + place < BankBase[k] + BankSize[k]
        /\ BankBase[k] + place + Len(d) <= BankBase[k] + BankSize[k]
    BY <1>1, <2>3, <2>4, <2>5, InBank
  <2> QED BY <1>1, <2>6
<1> HIDE DEF checks
<1>5. ASSUME NEW a \in SectorToErase(start, Len(d)), TRUE \in checks
      PROVE  /\ a \in Nat /\ BankBase[k] <= a /\ SectorFirst(a) < BankBase[k] + BankSize[k]
             /\ place = 0 => BankBase[k] \in Sector(a)
  <2> HIDE DEF start
  <2>1. CASE a = start /\ start % SectorSize = 0
    <3>1. SectorFirst(a) = a BY <1>1, <2>1, AlignedFirst
    <3>2. place = 0 => BankBase[k] \in Sector(a)
      <4>1. SectorSize \in Nat \ {0} BY LayoutAssumption
      <4>2. place = 0 => a = BankBase[k] BY <1>1, <2>1
      <4>3. ASSUME NEW b \in Nat PROVE b \in b .. b + SectorSize - 1 BY <4>1
      <4> QED BY <1>1, <3>1, <4>2, <4>3 DEF Sector
    <3>3. start < BankBase[k] + BankSize[k] /\ BankBase[k] <= start BY <1>1, <1>4, <1>5
    <3> QED BY <1>1, <2>1, <3>1, <3>2, <3>3
  <2>2. CASE a = start + Len(d) /\ start % SectorSize # 0 /\ a % SectorSize # 0
    <3>1. a \in Nat /\ BankBase[k] <= a /\ a <= BankBase[k] + BankSize[k]
      <4>1. start + Len(d) <= BankBase[k] + BankSize[k] BY <1>4, <1>5
      <4>2. a = start + Len(d) BY <2>2
      <4>3. Len(d) \in Nat BY <1>2
      <4>4. /\ start + Len(d) \in Nat /\ BankBase[k] <= start + Len(d)
            /\ start + Len(d) <= BankBase[k] + BankSize[k]
        BY <1>1, <4>1, <4>3, Between
      <4> QED BY <4>2, <4>4
    <3>2. SectorFirst(a) < a
      <4>1. a % SectorSize \in 0 .. SectorSize - 1 BY <3>1, Remainder
      <4>2. a % SectorSize > 0 BY <2>2, <4>1, LayoutAssumption
      <4> DEFINE r == a % SectorSize
      <4>3. r \in Int /\ r > 0 /\ SectorFirst(a) = a - r
        BY <4>1, <4>2, LayoutAssumption DEF SectorFirst
      <4> HIDE DEF r
      <4> QED BY <3>1, <4>3
    <3>3. SectorFirst(a) \in Int BY <3>1, FirstTyped
    <3>4. place # 0 BY <1>1, <2>2, BankAligned
    <3> QED BY <1>1, <3>1, <3>2, <3>3, <3>4
  <2> QED BY <1>5, <2>1, <2>2 DEF SectorToErase
<1>6. place = 0 => SectorToErase(start, Len(d)) # {}
  <2>1. place = 0 => start % SectorSize = 0 BY <1>1, BankAligned
  <2> HIDE DEF start
  <2> QED BY <2>1 DEF SectorToErase
<1> HIDE DEF start
<1>7. ASSUME NEW e \in erased, TRUE \in checks
      PROVE  /\ Within(f, e.fl, k) /\ Spent(e.fl)
             /\ e.ok => BankBase[k] \notin e.fl.ready
  <2>1. CASE e = [fl |-> open, ok |-> TRUE] /\ SectorToErase(start, Len(d)) = {}
    <3>1. BankBase[k] \notin f.ready BY <1>6, <2>1 DEF Continues
    <3> QED BY <1>3, <2>1, <3>1, WithinItself
  <2>2. ASSUME NEW a \in SectorToErase(start, Len(d)), e \in flash_erase_sector(open, a, mayFail)
        PROVE  /\ Within(f, e.fl, k) /\ Spent(e.fl)
               /\ e.ok => BankBase[k] \notin e.fl.ready
    <3> HIDE DEF open
    <3>1. /\ Within(open, e.fl, k)
          /\ BankBase[k] \in Sector(a) =>
               /\ BankBase[k] \in e.fl.ready => e.fl.cells = open.cells
               /\ e.ok => BankBase[k] \notin e.fl.ready
      BY <1>3, <1>5, <1>7, <2>2, EraseWithin
    <3>2. Within(f, e.fl, k) BY <1>3, <3>1 DEF Within
    <3>3. CASE place = 0
      <4>1. BankBase[k] \in Sector(a) BY <1>5, <1>7, <3>3
      <4> QED BY <1>3, <3>1, <3>2, <4>1
    <3>4. CASE place > 0
      <4>1. BankBase[k] \notin e.fl.ready BY <3>2, <3>4 DEF Within, Continues
      <4> QED BY <3>2, <4>1
    <3> QED BY <3>3, <3>4
  <2> QED BY <1>7, <2>1, <2>2
<1>8. u \in {[fl |-> f, ok |-> FALSE] : c \in checks \ {TRUE}}
             \cup IF TRUE \notin checks THEN {}
                  ELSE {e \in erased : ~e.ok}
                         \cup {[fl |-> lock_flash_bp(w.fl), ok |-> w.ok]
                                 : w \in UNION {dfu_write(e.fl, start, d, mayFail)
                                                  : e \in {x \in erased : x.ok}}}
  BY DEF dfu_update, start, checks
<1> HIDE DEF erased, open
<1>12. \/ u = [fl |-> f, ok |-> FALSE]
       \/ TRUE \in checks /\ u \in {x \in erased : ~x.ok}
       \/ /\ TRUE \in checks
          /\ \E e \in {x \in erased : x.ok} : \E w \in dfu_write(e.fl, start, d, mayFail) :
               u = [fl |-> lock_flash_bp(w.fl), ok |-> w.ok]
  BY <1>8
<1>9. CASE u = [fl |-> f, ok |-> FALSE] BY <1>9, WithinItself
<1>10. CASE TRUE \in checks /\ u \in {x \in erased : ~x.ok} BY <1>7, <1>10 DEF Rewrites
<1>11. ASSUME TRUE \in checks, NEW e \in erased, e.ok,
              NEW w \in dfu_write(e.fl, start, d, mayFail),
              u = [fl |-> lock_flash_bp(w.fl), ok |-> w.ok]
       PROVE  Rewrites(f, u.fl, k) /\ BankBase[k] \notin u.fl.ready
  <2>1. Within(f, e.fl, k) /\ BankBase[k] \notin e.fl.ready /\ e.fl \in Flash
    BY <1>7, <1>11 DEF Within
  <2>2. start + Len(d) <= BankBase[k] + BankSize[k] /\ BankBase[k] <= start
    BY <1>1, <1>4, <1>11
  <2>3. Within(e.fl, w.fl, k) /\ w.fl.ready = e.fl.ready /\ w.fl \in Flash
    <3>1. Within(e.fl, w.fl, k) /\ w.fl.ready = e.fl.ready
      BY <1>1, <1>11, <2>1, <2>2, WriteWithin
    <3> QED BY <3>1 DEF Within
  <2>4. u.fl = lock_flash_bp(w.fl) /\ u.fl \in Flash /\ u.fl.cells = w.fl.cells
        /\ u.fl.ready = w.fl.ready
    BY <1>11, <2>3, BpTyped, BpCells
  <2>5. Within(f, u.fl, k)
    <3>1. Within(w.fl, u.fl, k) BY <2>3, <2>4, WithinItself
    <3> QED BY <2>1, <2>3, <3>1, WithinThen
  <2> QED BY <2>1, <2>3, <2>4, <2>5 DEF Rewrites
<1> QED BY <1>9, <1>10, <1>11, <1>12

LEMMA EraseRetryRewrites ==
  ASSUME NEW f \in Flash, NEW k \in Images, NEW offset \in Nat, offset % SectorSize = 0,
         offset < BankSize[k], offset > 0 => BankBase[k] \notin f.ready,
         NEW mayFail, NEW e \in dfu_flash_erase_sector_with_retry(f, k, offset, mayFail)
  PROVE  Rewrites(f, e.fl, k)
<1> DEFINE open == unlock_flash_bp_all(f)
           a == BankBase[k] + offset
<1>1. PICK g \in flash_erase_sector(open, a, mayFail) : e.fl = lock_flash_bp(g.fl)
  BY DEF dfu_flash_erase_sector_with_retry
<1>2. open \in Flash /\ open.cells = f.cells /\ open.ready = f.ready BY BpTyped, BpCells
<1>3. BankBase[k] \in Nat /\ BankSize[k] \in Nat BY BankTyped
<1>4. a \in Nat /\ SectorFirst(a) = a /\ BankBase[k] <= a /\ a < BankBase[k] + BankSize[k]
  BY <1>3, BankAligned, AlignedSum, AlignedFirst
<1>5. offset = 0 => BankBase[k] \in Sector(a) BY <1>3, <1>4, LayoutAssumption DEF Sector
<1> HIDE DEF a, open
<1>6. /\ Within(open, g.fl, k)
      /\ BankBase[k] \in Sector(a) => (BankBase[k] \in g.fl.ready => g.fl.cells = open.cells)
  BY <1>1, <1>2, <1>4, EraseWithin
<1>7. Within(f, g.fl, k) BY <1>2, <1>6 DEF Within
<1>8. BankBase[k] \in g.fl.ready => g.fl.cells = f.cells
  <2>1. CASE offset = 0 BY <1>2, <1>5, <1>6, <2>1
  <2>2. CASE offset > 0 BY <1>7, <2>2 DEF Within
  <2> QED BY <2>1, <2>2
<1>9. g.fl \in Flash /\ e.fl \in Flash /\ e.fl.cells = g.fl.cells /\ e.fl.ready = g.fl.ready
  BY <1>1, <1>7, BpTyped, BpCells DEF Within
<1>10. Rewrites(f, g.fl, k) /\ Rewrites(g.fl, e.fl, k)
  BY <1>7, <1>8, <1>9, WithinItself DEF Rewrites
<1> QED BY <1>10, RewritesThen

(* The erase after a failed write, within the window of the transfer.      *)
LEMMA EraseBackRewrites ==
  ASSUME DeviceTypeOK, image_id \in Images, dfu_resend_offset % SectorSize = 0,
         dfu_resend_offset <= cur_offset, cur_offset < dfu_resend_offset + SectorSize,
         cur_offset < BankSize[image_id],
         NEW fl \in Flash, cur_offset > 0 => BankBase[image_id] \notin fl.ready,
         NEW mayFail, NEW e \in EraseBack(fl, mayFail)
  PROVE  Rewrites(fl, e.fl, image_id)
<1>1. cur_offset \in Nat /\ dfu_resend_offset \in Nat /\ SectorSize \in Nat
      /\ BankSize[image_id] \in Nat
  BY BankTyped, LayoutAssumption DEF DeviceTypeOK
<1>2. ~BeyondResend(cur_offset, SectorSize + 1) BY <1>1 DEF BeyondResend
<1>3. e \in dfu_flash_erase_sector_with_retry(fl, image_id, dfu_resend_offset, mayFail)
  BY <1>2 DEF EraseBack
<1>4. /\ dfu_resend_offset < BankSize[image_id]
      /\ dfu_resend_offset > 0 => BankBase[image_id] \notin fl.ready
  BY <1>1
<1> QED BY <1>1, <1>3, <1>4, EraseRetryRewrites

-----------------------------------------------------------------------------
(* The invariant.                                                          *)

(* A transfer that left the start of its bank has erased the header there. *)
HeaderOpen ==
  cst = "send" /\ wait # "VALID_FW" /\ cur_offset > 0 => BankBase[image_id] \notin flash.ready

(* The same wherever in the bank the transfer began.                       *)
WriteOpen ==
  cst = "send" /\ wait # "VALID_FW" /\ CurrentImageOffset + cur_offset > 0
    => BankBase[image_id] \notin flash.ready

ImagesFit == \A i \in Images : Length[i] <= BankSize[i]

(* What waits in the receive buffer belongs to the image that is sent.     *)
BufferOfImage == cst = "send" => DataOf(tmp_buf, image_id)

(* An image whose bit is set is whole, or will be sent and checked again   *)
(* before the client activates.                                            *)
CheckedKept ==
  SessionsClean /\ cst # "off" =>
    \A i \in valid_bitmap : i \in PlanImages(plan) \/ Whole(flash, i)

(* The check is about the image that is sent, where its bank begins.       *)
CheckOfImage ==
  (BankSwitch \/ image_id \in UserImages) /\ Running /\ link = "up" =>
    \A c \in checking : c = [img |-> image_id, off |-> 0]

(* A good answer that the client has not yet seen is still true.           *)
AnswerWhole ==
  Running => \A n \in 1 .. Len(notif) :
    notif[n].op = "VALID_FW" /\ notif[n].status = "SUCCESS" => Whole(flash, img)

(* With ota_link_loss_reset a session starts with no bit set.              *)
BootFresh ==
  /\ \A n \in 1 .. Len(ioQueue) : ioQueue[n] = "STACK_READY" => n = 1 /\ checking = {}
  /\ advertising \/ Queued({"STACK_READY"}) => valid_bitmap = {}

(* No image is named that the next package does not replace.               *)
NamedOnly ==
  \A p \in Plans :
    /\ PlanImages(plan) \subseteq PlanImages(p)
    /\ valid_bitmap \subseteq PlanImages(p)
    /\ image_id \in PlanImages(p) \cup {NoImage}
    /\ \A c \in checking : c.img \in PlanImages(p) \cup {NoImage}

ReadyInv ==
  /\ HeadersPlaced(flash) /\ ReadyWhole(flash)
  /\ HeaderOpen /\ BufferOfImage /\ CheckedKept /\ CheckOfImage /\ AnswerWhole

-----------------------------------------------------------------------------
(* What no package leaves behind.                                          *)

LEMMA HeadNamed ==
  ASSUME TypeInv, cst \in {"hello", "pick", "start", "info", "send"}
  PROVE  /\ img \in PlanImages(plan) /\ img \in Images
         /\ PlanImages(Tail(plan)) \subseteq PlanImages(plan)
         /\ \A i \in PlanImages(plan) : i = img \/ i \in PlanImages(Tail(plan))
<1>1. plan \in Seq(Images) /\ plan # << >>
  BY DEF TypeInv, TypeOK, ClientTypeOK, PlanInv
<1>2. /\ Len(plan) \in Nat /\ Len(plan) > 0 /\ img = plan[1]
      /\ Len(Tail(plan)) = Len(plan) - 1
      /\ \A n \in 1 .. Len(plan) - 1 : Tail(plan)[n] = plan[n + 1]
  BY <1>1, QueueTail DEF img
<1>3. 1 \in 1 .. Len(plan) BY <1>2
<1>4. img \in PlanImages(plan) /\ img \in Images BY <1>1, <1>2, <1>3 DEF PlanImages
<1>5. ASSUME NEW i \in PlanImages(Tail(plan)) PROVE i \in PlanImages(plan)
  <2>1. PICK n \in 1 .. Len(Tail(plan)) : i = Tail(plan)[n] BY <1>5 DEF PlanImages
  <2>2. n + 1 \in 1 .. Len(plan) /\ i = plan[n + 1] BY <1>2, <2>1
  <2> QED BY <2>2 DEF PlanImages
<1>6. ASSUME NEW i \in PlanImages(plan), i # img PROVE i \in PlanImages(Tail(plan))
  <2>1. PICK n \in 1 .. Len(plan) : i = plan[n] BY <1>6 DEF PlanImages
  <2>2. n # 1 BY <1>2, <1>6, <2>1
  <2>3. n - 1 \in 1 .. Len(Tail(plan)) /\ n - 1 \in 1 .. Len(plan) - 1 /\ n - 1 + 1 = n
    BY <1>2, <2>2
  <2>4. Tail(plan)[n - 1] = i BY <1>2, <2>1, <2>3
  <2> QED BY <2>3, <2>4 DEF PlanImages
<1> QED BY <1>4, <1>5, <1>6

LEMMA NoImages == PlanImages(<< >>) = {}
BY DEF PlanImages

(* The steps that leave the bits and the check alone.                      *)
LEMMA NamedFrame ==
  ASSUME NamedOnly, valid_bitmap' = valid_bitmap, checking' = checking,
         \A p \in Plans : PlanImages(plan') \subseteq PlanImages(p),
         \A p \in Plans : image_id' \in PlanImages(p) \cup {NoImage}
  PROVE  NamedOnly'
BY DEF NamedOnly

LEMMA NamedStep ==
  ASSUME BankSwitch, PackagesAlike, TypeInv, NamedOnly, [Next]_vars
  PROVE  NamedOnly'
<1> USE DEF serviceVars, headVars, checkVars, clientVars
<1>1. ASSUME UNCHANGED <<valid_bitmap, checking, image_id, plan>> PROVE NamedOnly'
  BY <1>1, NamedFrame DEF NamedOnly
<1>2. CASE Connect
  <2>1. plan' \in Plans /\ UNCHANGED <<valid_bitmap, checking, image_id>>
    BY <1>2 DEF Connect, LinkUp
  <2>2. \A p \in Plans : PlanImages(plan') \subseteq PlanImages(p) BY <2>1 DEF PackagesAlike
  <2> QED BY <2>1, <2>2, NamedFrame DEF NamedOnly
<1>3. ASSUME cst \in {"pick", "start", "info", "send"}, image_id' = img,
             UNCHANGED <<valid_bitmap, checking, plan>>
      PROVE  NamedOnly'
  <2>1. img \in PlanImages(plan) BY <1>3, HeadNamed
  <2> QED BY <1>3, <2>1, NamedFrame DEF NamedOnly
<1>4. CASE SendTargetInfo
  BY <1>3, <1>4 DEF SendTargetInfo, WriteReportTargetInfo, ReportTargetInfo, Ready
<1>5. CASE SendStart BY <1>3, <1>5 DEF SendStart, WriteStartDfu, StartDfu, Ready
<1>6. CASE SendImageInfo
  BY <1>3, <1>6 DEF SendImageInfo, WriteReceiveFwImageInfo, ReceiveFwImageInfo, Ready
<1>7. CASE SendValidFw BY <1>3, <1>7 DEF SendValidFw, WriteValidFw, ValidFw, Ready
<1>8. CASE SendHello
  BY <1>1, <1>8 DEF SendHello, WriteBufferCheckEn, BufferCheckEn, deviceVars
<1>9. CASE SendPacket
  BY <1>1, <1>9 DEF SendPacket, WritePacket, PacketReq, deviceVars
<1>10. CASE SendBufferCrc
  BY <1>1, <1>10 DEF SendBufferCrc, WriteReportBufferCrc, BufferCheckProcess
<1>11. CASE SendActiveImageReset \/ SendSystemReset
  BY <1>1, <1>11 DEF SendActiveImageReset, WriteActiveImageReset, ActiveImageReset,
                     SendSystemReset, WriteSystemReset, SystemReset
<1>12. CASE ReceiveNotification
  <2>1. UNCHANGED <<valid_bitmap, checking, image_id>> BY <1>12 DEF ReceiveNotification
  <2>2. plan' = plan \/ (plan' = Tail(plan) /\ wait = "VALID_FW")
    BY <1>12 DEF ReceiveNotification, Answered
  <2>3. PlanImages(plan') \subseteq PlanImages(plan)
    <3>1. wait = "VALID_FW" => cst = "send" BY DEF TypeInv, PlanInv
    <3> QED BY <2>2, <3>1, HeadNamed
  <2> QED BY <2>1, <2>3, NamedFrame DEF NamedOnly
<1>13. CASE SendConnParaUpdateReq
  BY <1>1, <1>13 DEF SendConnParaUpdateReq, WriteConnParaUpdateReq
<1>14. ASSUME ClientGone, UNCHANGED <<valid_bitmap, checking, image_id>> PROVE NamedOnly'
  BY <1>14, NoImages, NamedFrame DEF NamedOnly, ClientGone
<1>15. CASE LoseLink BY <1>14, <1>15 DEF LoseLink, LinkDown
<1>16. ASSUME NEW f, DeviceRestart(f), ClientGone PROVE NamedOnly'
  <2>1. CASE UNCHANGED serviceVars BY <1>14, <1>16, <2>1
  <2>2. CASE ServiceReset BY <1>16, <2>2, NoImages DEF ServiceReset, ClientGone, NamedOnly
  <2> QED BY <1>16, <2>1, <2>2 DEF DeviceRestart, RestartNew, RestartOld
<1>17. CASE DeviceTask
  <2>1. UNCHANGED <<image_id, plan>>
    BY <1>17 DEF DeviceTask, AppTask, HandleStackReady, HandleConnected, HandleDisconnected,
         HandleParamUpdate, HandleValidFw, CompleteValidFw, BeginValidFw, EndValidFw
  <2>2. CASE HandleValidFw
    <3>1. checking' = {[img |-> image_id, off |-> 0]} /\ valid_bitmap' = valid_bitmap
      BY <2>2 DEF HandleValidFw, BeginValidFw
    <3> QED BY <2>1, <3>1 DEF NamedOnly
  <2>3. CASE CompleteValidFw
    <3>1. PICK c \in checking :
            /\ checking' = {}
            /\ valid_bitmap' = valid_bitmap
                 \/ (c.img \in Images /\ valid_bitmap' = valid_bitmap \cup {c.img})
      BY <2>3 DEF CompleteValidFw, EndValidFw
    <3>2. NoImage \notin Images BY BufferAssumption
    <3> QED BY <2>1, <3>1, <3>2 DEF NamedOnly
  <2>4. CASE UNCHANGED serviceVars BY <1>1, <2>1, <2>4
  <2> QED BY <1>17, <2>2, <2>3, <2>4 DEF DeviceTask, AppTask, HandleStackReady, HandleConnected,
          HandleDisconnected, HandleParamUpdate
<1>18. CASE TimerStep BY <1>1, <1>18, TimerMoves
<1>19. CASE ParamProcedure BY <1>1, <1>19 DEF ParamProcedure, ParamUpdated
<1>20. CASE UNCHANGED vars BY <1>1, <1>20 DEF vars, deviceVars
<1> QED BY <1>2, <1>4, <1>5, <1>6, <1>7, <1>8, <1>9, <1>10, <1>11, <1>12, <1>13, <1>15, <1>16,
           <1>17, <1>18, <1>19, <1>20 DEF Next, ClientStep, RestartAfterReset, PowerLoss

-----------------------------------------------------------------------------
(* With ota_link_loss_reset every session starts afresh.                   *)

LEMMA FreshFrame ==
  ASSUME BootFresh, UNCHANGED <<ioQueue, checking, valid_bitmap>>, advertising' => advertising
  PROVE  BootFresh'
BY DEF BootFresh, Queued

LEMMA FreshPost ==
  ASSUME OrderInv, BootFresh, NEW m \in AppMessage \ {"STACK_READY"}, Post(m),
         UNCHANGED <<checking, valid_bitmap>>, advertising' => advertising
  PROVE  BootFresh'
<1>1. /\ Len(ioQueue) \in Nat /\ Len(ioQueue') = Len(ioQueue) + 1
      /\ \A n \in 1 .. Len(ioQueue) : ioQueue'[n] = ioQueue[n]
      /\ ioQueue'[Len(ioQueue) + 1] = m
  BY QueueAppend DEF OrderInv
<1>2. \A n \in 1 .. Len(ioQueue') : ioQueue'[n] = "STACK_READY" =>
        n \in 1 .. Len(ioQueue) /\ ioQueue[n] = "STACK_READY"
  BY <1>1
<1> QED BY <1>2 DEF BootFresh, Queued

LEMMA FreshTake ==
  ASSUME OrderInv, BootFresh, NEW m, Take(m), valid_bitmap' = valid_bitmap,
         advertising' => advertising \/ m = "STACK_READY"
  PROVE  BootFresh'
<1>1. /\ Len(ioQueue) \in Nat /\ Len(ioQueue) > 0 /\ ioQueue[1] = m
      /\ Len(ioQueue') = Len(ioQueue) - 1
      /\ \A n \in 1 .. Len(ioQueue) - 1 : ioQueue'[n] = ioQueue[n + 1]
  BY Taken
<1>2. \A n \in 1 .. Len(ioQueue') : n + 1 \in 1 .. Len(ioQueue) /\ n + 1 # 1
        /\ ioQueue'[n] = ioQueue[n + 1]
  BY <1>1
<1>3. \A n \in 1 .. Len(ioQueue') : ioQueue'[n] # "STACK_READY" BY <1>2 DEF BootFresh
<1>4. m = "STACK_READY" => Queued({"STACK_READY"}) BY <1>1 DEF Queued
<1> QED BY <1>3, <1>4 DEF BootFresh, Queued

LEMMA FreshStep ==
  ASSUME LinkLossReset, TypeInv, BootFresh, [Next]_vars
  PROVE  BootFresh'
<1> USE DEF serviceVars, checkVars, appVars, stackVars
<1>1. OrderInv BY DEF TypeInv
<1>2. CASE Connect
  BY <1>1, <1>2, FreshPost DEF Connect, LinkUp, AppMessage
<1>3. CASE SendHello
  BY <1>3, FreshFrame DEF SendHello, WriteBufferCheckEn, BufferCheckEn, deviceVars
<1>4. CASE SendTargetInfo
  BY <1>4, FreshFrame DEF SendTargetInfo, WriteReportTargetInfo, ReportTargetInfo
<1>5. CASE SendStart BY <1>5, FreshFrame DEF SendStart, WriteStartDfu, StartDfu
<1>6. CASE SendImageInfo
  BY <1>6, FreshFrame DEF SendImageInfo, WriteReceiveFwImageInfo, ReceiveFwImageInfo
<1>7. CASE SendValidFw
  BY <1>1, <1>7, FreshPost, FreshFrame DEF SendValidFw, WriteValidFw, ValidFw, AppMessage
<1>8. CASE SendPacket
  <2>1. UNCHANGED <<ioQueue, checking, valid_bitmap, advertising>>
    BY <1>8 DEF SendPacket, WritePacket, PacketReq, deviceVars
  <2> QED BY <2>1, FreshFrame
<1>9. CASE SendBufferCrc
  BY <1>9, FreshFrame DEF SendBufferCrc, WriteReportBufferCrc, BufferCheckProcess
<1>10. CASE SendActiveImageReset \/ SendSystemReset
  <2>1. UNCHANGED <<ioQueue, checking, valid_bitmap, advertising>>
    BY <1>10 DEF SendActiveImageReset, WriteActiveImageReset, ActiveImageReset,
                 SendSystemReset, WriteSystemReset, SystemReset
  <2> QED BY <2>1, FreshFrame
<1>11. CASE ReceiveNotification BY <1>11, FreshFrame DEF ReceiveNotification
<1>12. CASE SendConnParaUpdateReq
  BY <1>12, FreshFrame DEF SendConnParaUpdateReq, WriteConnParaUpdateReq
<1>13. CASE LoseLink BY <1>1, <1>13, FreshPost DEF LoseLink, LinkDown, AppMessage
<1>14. ASSUME NEW f, DeviceRestart(f) PROVE BootFresh'
  <2>1. CASE RestartNew(f) BY <2>1, FreshFrame DEF RestartNew
  <2>2. CASE RestartOld(f)
    <3>1. ioQueue' = <<"STACK_READY">> /\ checking' = {} /\ valid_bitmap' = {}
      BY <2>2 DEF RestartOld, ServiceReset
    <3> QED BY <3>1 DEF BootFresh
  <2> QED BY <1>14, <2>1, <2>2 DEF DeviceRestart
<1>15. CASE DeviceTask
  <2>1. CASE CompleteValidFw
    <3>1. checking # {} /\ checking' = {} /\ UNCHANGED <<ioQueue, advertising>>
      BY <2>1 DEF CompleteValidFw, EndValidFw
    <3>2. ~advertising BY <1>1, <3>1 DEF OrderInv, LinkOrder, CheckPending
    <3>3. \A n \in 1 .. Len(ioQueue) : ioQueue[n] # "STACK_READY" BY <3>1 DEF BootFresh
    <3> QED BY <3>1, <3>2, <3>3 DEF BootFresh, Queued
  <2>2. ASSUME NEW m, Take(m), valid_bitmap' = valid_bitmap,
               advertising' => advertising \/ m = "STACK_READY"
        PROVE  BootFresh'
    BY <1>1, <2>2, FreshTake
  <2>3. CASE HandleValidFw BY <2>2, <2>3 DEF HandleValidFw, BeginValidFw
  <2>4. CASE HandleDisconnected
    <3>1. Take("DISCONNECTED") /\ UNCHANGED <<advertising, valid_bitmap>>
      <4>1. LinkLossReset = TRUE BY AppAssumption
      <4> QED BY <2>4, <4>1, AppAssumption DEF HandleDisconnected
    <3> QED BY <2>2, <3>1
  <2> QED BY <1>15, <2>1, <2>2, <2>3, <2>4 DEF DeviceTask, AppTask, HandleStackReady,
          HandleConnected, HandleParamUpdate
<1>16. CASE TimerStep BY <1>16, FreshFrame, TimerMoves
<1>17. CASE ParamProcedure
  BY <1>1, <1>17, FreshPost DEF ParamProcedure, ParamUpdated, AppMessage
<1>18. CASE UNCHANGED vars BY <1>18, FreshFrame DEF vars, deviceVars
<1> QED BY <1>2, <1>3, <1>4, <1>5, <1>6, <1>7, <1>8, <1>9, <1>10, <1>11, <1>12, <1>13, <1>14,
           <1>15, <1>16, <1>17, <1>18 DEF Next, ClientStep, RestartAfterReset, PowerLoss

-----------------------------------------------------------------------------
(* The check and the buffer belong to the image that is sent.              *)

LEMMA CheckFrame ==
  ASSUME CheckOfImage, checking' = checking,
         checking = {} \/ ~Running' \/ link' # "up" \/ UNCHANGED <<image_id, link, reset>>
  PROVE  CheckOfImage'
BY DEF CheckOfImage, Running

(* While a check is pending the client asks for nothing.                   *)
LEMMA NoRequestInCheck ==
  ASSUME TypeInv, Running, link = "up", wait = "none"
  PROVE  checking = {}
BY DEF TypeInv, OrderInv, CheckOrder, CheckPending

LEMMA CheckOfImageStep ==
  ASSUME TypeInv, CheckOfImage, [Next]_vars
  PROVE  CheckOfImage'
<1> USE DEF serviceVars, headVars, checkVars, appVars, stackVars
<1>1. OrderInv BY DEF TypeInv
<1>2. CASE Connect
  <2>1. advertising /\ checking' = checking BY <1>2 DEF Connect, LinkUp
  <2>2. checking = {} BY <1>1, <2>1 DEF OrderInv, LinkOrder, CheckPending
  <2> QED BY <2>1, <2>2, CheckFrame
<1>3. ASSUME Running, link = "up", wait = "none", checking' = checking PROVE CheckOfImage'
  BY <1>3, NoRequestInCheck, CheckFrame
<1>4. CASE SendHello
  <2>1. CASE UNCHANGED deviceVars BY <2>1, CheckFrame DEF deviceVars
  <2>2. CASE WriteBufferCheckEn
    BY <1>3, <1>4, <2>2 DEF SendHello, WriteBufferCheckEn, BufferCheckEn, Ready
  <2> QED BY <1>4, <2>1, <2>2 DEF SendHello
<1>5. CASE SendTargetInfo
  BY <1>3, <1>5 DEF SendTargetInfo, WriteReportTargetInfo, ReportTargetInfo, Ready
<1>6. CASE SendStart BY <1>3, <1>6 DEF SendStart, WriteStartDfu, StartDfu, Ready
<1>7. CASE SendImageInfo
  BY <1>3, <1>7 DEF SendImageInfo, WriteReceiveFwImageInfo, ReceiveFwImageInfo, Ready
<1>8. CASE SendValidFw BY <1>3, <1>8 DEF SendValidFw, WriteValidFw, ValidFw, Ready
<1>9. CASE SendPacket
  <2>1. CASE UNCHANGED deviceVars BY <2>1, CheckFrame DEF deviceVars
  <2>2. ASSUME NEW cell, NEW mayFail, WritePacket(cell, mayFail) PROVE CheckOfImage'
    BY <1>3, <1>9, <2>2 DEF SendPacket, WritePacket, PacketReq, Ready
  <2> QED BY <1>9, <2>1, <2>2 DEF SendPacket
<1>10. CASE SendBufferCrc
  BY <1>3, <1>10 DEF SendBufferCrc, WriteReportBufferCrc, BufferCheckProcess, Ready
<1>11. CASE SendActiveImageReset \/ SendSystemReset
  BY <1>3, <1>11 DEF SendActiveImageReset, WriteActiveImageReset, ActiveImageReset,
                     SendSystemReset, WriteSystemReset, SystemReset, Ready
<1>12. CASE ReceiveNotification BY <1>12, CheckFrame DEF ReceiveNotification
<1>13. CASE SendConnParaUpdateReq
  BY <1>13, CheckFrame DEF SendConnParaUpdateReq, WriteConnParaUpdateReq
<1>14. CASE LoseLink BY <1>14, CheckFrame DEF LoseLink, LinkDown
<1>15. ASSUME NEW f, DeviceRestart(f) PROVE CheckOfImage'
  <2>1. CASE RestartNew(f) BY <2>1, CheckFrame DEF RestartNew, Running
  <2>2. CASE RestartOld(f) BY <2>2 DEF RestartOld, ServiceReset, CheckOfImage
  <2> QED BY <1>15, <2>1, <2>2 DEF DeviceRestart
<1>16. CASE DeviceTask
  <2>1. CASE CompleteValidFw BY <2>1 DEF CompleteValidFw, EndValidFw, CheckOfImage
  <2>2. CASE HandleValidFw
    <3>1. /\ BankSwitch \/ image_id \in UserImages => checking' = {[img |-> image_id, off |-> 0]}
          /\ image_id' = image_id
      BY <2>2 DEF HandleValidFw, BeginValidFw
    <3> QED BY <3>1 DEF CheckOfImage
  <2>3. ASSUME NEW m, Take(m), checking' = checking PROVE CheckOfImage'
    <3>1. checking = {} BY <2>3 DEF Take
    <3> QED BY <2>3, <3>1, CheckFrame
  <2> QED BY <1>16, <2>1, <2>2, <2>3 DEF DeviceTask, AppTask, HandleStackReady,
          HandleConnected, HandleDisconnected, HandleParamUpdate
<1>17. CASE TimerStep
  <2>1. UNCHANGED <<checking, image_id, link>> /\ (~Running' \/ UNCHANGED reset)
    BY <1>17, TimerMoves DEF Running
  <2> QED BY <2>1, CheckFrame
<1>18. CASE ParamProcedure BY <1>18, CheckFrame DEF ParamProcedure, ParamUpdated
<1>19. CASE UNCHANGED vars BY <1>19, CheckFrame DEF vars, deviceVars
<1> QED BY <1>2, <1>4, <1>5, <1>6, <1>7, <1>8, <1>9, <1>10, <1>11, <1>12, <1>13, <1>14,
           <1>15, <1>16, <1>17, <1>18, <1>19 DEF Next, ClientStep, RestartAfterReset, PowerLoss

LEMMA AppendData ==
  ASSUME NEW d, NEW k, DataOf(d, k), NEW cell \in Payload, cell \in {k, Noise} \X Nat
  PROVE  DataOf(Append(d, cell), k) /\ Append(d, cell) # << >>
<1>1. d \in Seq(Payload) /\ Len(d) \in Nat BY DEF DataOf
<1> DEFINE s == Append(d, cell)
<1>2. s \in Seq(Payload) /\ Len(s) = Len(d) + 1 /\ s # << >> /\ s[Len(d) + 1] = cell
      /\ \A n \in 1 .. Len(d) : s[n] = d[n]
  BY <1>1
<1> HIDE DEF s
<1>3. \A n \in 1 .. Len(s) : n \in 1 .. Len(d) \/ n = Len(d) + 1 BY <1>1, <1>2
<1>4. \A n \in 1 .. Len(d) : d[n] \in {k, Noise} \X Nat BY DEF DataOf
<1>5. \A n \in 1 .. Len(s) : s[n] \in {k, Noise} \X Nat BY <1>2, <1>3, <1>4
<1> QED BY <1>2, <1>5 DEF DataOf, s

(* A packet belongs to the image that is sent.                             *)
LEMMA PacketData ==
  ASSUME TypeInv, TransferInv, BufferOfImage, SendPacket,
         NEW cell \in {<<img, coff + chunk>>, <<Noise, coff + chunk>>}
  PROVE  /\ cell \in Payload
         /\ DataOf(Append(tmp_buf, cell), image_id) /\ Append(tmp_buf, cell) # << >>
<1>1. cst = "send" BY DEF SendPacket, Ready
<1>2. image_id = img /\ img \in Images BY <1>1, HeadNamed DEF TransferInv, SameImage
<1>3. coff + chunk \in Nat BY DEF TypeInv, TypeOK, ClientTypeOK
<1>4. cell \in Payload /\ cell \in {image_id, Noise} \X Nat BY <1>2, <1>3 DEF Payload
<1> QED BY <1>1, <1>4, AppendData DEF BufferOfImage

LEMMA NoData == \A k : DataOf(<< >>, k)
BY DEF DataOf

LEMMA PacketCell ==
  ASSUME SendPacket
  PROVE  \/ UNCHANGED deviceVars
         \/ \E cell \in {<<img, coff + chunk>>, <<Noise, coff + chunk>>}, reboot \in BOOLEAN :
            \E mayFail :
              /\ PacketReq(cell, reboot, mayFail) /\ Running /\ link = "up"
              /\ reboot <=> ~Running'
BY DEF SendPacket, WritePacket, dfu_fw_reboot, Running

LEMMA BufferStep ==
  ASSUME TypeInv, WindowInv, TransferInv, BufferOfImage, [Next]_vars
  PROVE  BufferOfImage'
<1> USE DEF serviceVars, headVars, xferVars, clientVars
<1>1. SUFFICES ASSUME cst' = "send" PROVE DataOf(tmp_buf', image_id') BY DEF BufferOfImage
<1>2. ASSUME cst = "send", UNCHANGED <<tmp_buf, image_id>> PROVE DataOf(tmp_buf', image_id')
  BY <1>2 DEF BufferOfImage
<1>3. CASE SendPacket
  <2>1. cst = "send" BY <1>3 DEF SendPacket, Ready
  <2>2. CASE UNCHANGED deviceVars BY <1>2, <2>1, <2>2 DEF deviceVars
  <2>3. ASSUME NEW cell \in {<<img, coff + chunk>>, <<Noise, coff + chunk>>},
               NEW reboot, NEW mayFail, PacketReq(cell, reboot, mayFail)
        PROVE  DataOf(tmp_buf', image_id')
    <3>1. image_id' = image_id BY <2>3 DEF PacketReq
    <3>2. DataOf(Append(tmp_buf, cell), image_id) BY <1>3, PacketData
    <3>3. tmp_buf' \in {tmp_buf, Append(tmp_buf, cell), << >>}
      BY <2>3 DEF PacketReq, PacketIgnored, PacketBuffered, PacketStreamed, StreamWritten
    <3> QED BY <1>2, <2>1, <3>1, <3>2, <3>3, NoData
  <2> QED BY <1>3, <2>2, <2>3, PacketCell
<1>4. CASE SendBufferCrc
  <2>1. PICK crcOk, mayFail : BufferCheckProcess(chunk, crcOk, mayFail) /\ link = "up"
    BY <1>4 DEF SendBufferCrc, WriteReportBufferCrc
  <2>2. tmp_buf' = << >> BY <2>1, BufferCheckEnds
  <2> QED BY <2>2, NoData
<1>5. CASE SendImageInfo
  <2>1. tmp_buf' = << >>
    BY <1>5 DEF SendImageInfo, WriteReceiveFwImageInfo, ReceiveFwImageInfo, Ready, WindowInv,
                StartsAtZero
  <2> QED BY <2>1, NoData
<1>6. CASE SendValidFw
  <2>1. cst = "send" /\ image_id' = img /\ UNCHANGED tmp_buf
    BY <1>6 DEF SendValidFw, WriteValidFw, ValidFw, Ready
  <2>2. image_id' = image_id BY <2>1 DEF TransferInv, SameImage
  <2> QED BY <1>2, <2>1, <2>2
<1>7. CASE ReceiveNotification
  <2>1. UNCHANGED <<tmp_buf, image_id>> BY <1>7 DEF ReceiveNotification
  <2>2. cst' = cst \/ (wait = "BUFFER_CRC")
    BY <1>1, <1>7 DEF ReceiveNotification, Answered
  <2>3. cst = "send" BY <1>1, <2>2 DEF TypeInv, PlanInv
  <2> QED BY <1>2, <2>1, <2>3
<1>8. CASE DeviceTask
  <2>1. UNCHANGED <<tmp_buf, image_id>> /\ cst = "send"
    BY <1>1, <1>8 DEF DeviceTask, AppTask, HandleStackReady, HandleConnected, HandleDisconnected,
         HandleParamUpdate, HandleValidFw, CompleteValidFw, BeginValidFw, EndValidFw
  <2> QED BY <1>2, <2>1
<1>9. CASE TimerStep \/ ParamProcedure \/ SendConnParaUpdateReq \/ UNCHANGED vars
  BY <1>1, <1>2, <1>9, TimerMoves DEF ParamProcedure, ParamUpdated,
        SendConnParaUpdateReq, WriteConnParaUpdateReq, vars, deviceVars
<1>10. ~(Connect \/ SendHello \/ SendTargetInfo \/ SendStart \/ SendActiveImageReset
         \/ SendSystemReset \/ LoseLink \/ RestartAfterReset \/ PowerLoss)
  BY <1>1 DEF Connect, SendHello, SendTargetInfo, SendStart, SendActiveImageReset,
       SendSystemReset, LoseLink, RestartAfterReset, PowerLoss, ClientGone, Ready
<1> QED BY <1>3, <1>4, <1>5, <1>6, <1>7, <1>8, <1>9, <1>10 DEF Next, ClientStep

-----------------------------------------------------------------------------
(* The flash from step to step.                                            *)

LEMMA SameWhole ==
  ASSUME NEW f, NEW g, g.cells = f.cells, g.ready = f.ready
  PROVE  /\ HeadersPlaced(f) => HeadersPlaced(g)
         /\ ReadyWhole(f) => ReadyWhole(g)
         /\ \A i \in Images : Whole(f, i) => Whole(g, i)
BY DEF HeadersPlaced, ReadyWhole, Whole, HoldsFile

LEMMA BootCells ==
  ASSUME NEW f \in Flash
  PROVE  BootFlash(f).cells = f.cells /\ BootFlash(f).ready = f.ready
<1> DEFINE g == [f EXCEPT !.bp = "locked", !.saved = "none"]
<1>1. g \in Flash /\ g.cells = f.cells /\ g.ready = f.ready BY DEF Flash, BpLevel
<1> HIDE DEF g
<1>2. BootFlash(f) \in {g, unlock_flash_bp_all(g)} BY DEF BootFlash, g
<1> QED BY <1>1, <1>2, BpCells

(* Marking headers ready changes no header that is there.                  *)
LEMMA MarkedCells ==
  ASSUME NEW f \in Flash, NEW H \in SUBSET Addr, NEW g, g = dfu_set_images_ready(f, H)
  PROVE  /\ g \in Flash /\ g.ready = f.ready \cup H
         /\ \A a \in Addr : g.cells[a] = f.cells[a] \/ (f.cells[a] = Blank /\ g.cells[a] = Junk)
<1>1. g \in Flash BY ReadyTyped
<1>2. CASE H = {} BY <1>1, <1>2 DEF dfu_set_images_ready
<1>3. CASE H # {}
  <2> DEFINE open == unlock_flash_bp_all(f)
             cells == [a \in Addr |-> IF a \in H /\ f.cells[a] = Blank THEN Junk ELSE f.cells[a]]
             h == [open EXCEPT !.ready = f.ready \cup H, !.cells = cells]
  <2>1. open \in Flash BY BpTyped
  <2>2. cells \in [Addr -> Content] BY FlashRecord DEF Content
  <2>3. f.ready \cup H \in SUBSET Addr BY FlashRecord
  <2>4. g = lock_flash_bp(h) BY <1>3 DEF dfu_set_images_ready
  <2>5. \A a \in Addr : cells[a] = f.cells[a] \/ (f.cells[a] = Blank /\ cells[a] = Junk)
    OBVIOUS
  <2> HIDE DEF open, cells
  <2>6. h \in Flash /\ h.ready = f.ready \cup H /\ h.cells = cells
    BY <2>1, <2>2, <2>3 DEF Flash
  <2> HIDE DEF h
  <2>7. g.ready = f.ready \cup H /\ g.cells = cells BY <2>4, <2>6, BpCells
  <2> QED BY <1>1, <2>5, <2>7
<1> QED BY <1>2, <1>3

LEMMA MarkedHolds ==
  ASSUME NEW f \in Flash, NEW H \in SUBSET Addr, NEW g, g = dfu_set_images_ready(f, H)
  PROVE  /\ \A i, j \in Images : g.cells[BankBase[j]] = <<i, 0>> => f.cells[BankBase[j]] = <<i, 0>>
         /\ \A i \in Images : HoldsFile(f, BankBase[i], i) => HoldsFile(g, BankBase[i], i)
<1>1. \A a \in Addr : g.cells[a] = f.cells[a] \/ (f.cells[a] = Blank /\ g.cells[a] = Junk)
  BY MarkedCells
<1>2. ASSUME NEW i \in Images, NEW j \in Images, g.cells[BankBase[j]] = <<i, 0>>
      PROVE  f.cells[BankBase[j]] = <<i, 0>>
  BY <1>1, <1>2, BankTyped, Tags
<1>3. ASSUME NEW i \in Images, HoldsFile(f, BankBase[i], i) PROVE HoldsFile(g, BankBase[i], i)
  <2> SUFFICES ASSUME NEW k \in 0 .. Length[i] - 1
               PROVE  BankBase[i] + k \in Addr /\ g.cells[BankBase[i] + k] = <<i, k>>
    BY DEF HoldsFile
  <2>1. BankBase[i] + k \in Addr /\ f.cells[BankBase[i] + k] = <<i, k>> BY <1>3 DEF HoldsFile
  <2>2. k \in Nat BY BankTyped
  <2>3. <<i, k>> \in Payload BY <2>2 DEF Payload
  <2>4. <<i, k>> # Blank BY <2>3, TagsAssumption
  <2> QED BY <1>1, <2>1, <2>4
<1> QED BY <1>2, <1>3

LEMMA MarkedWhole ==
  ASSUME NEW f \in Flash, NEW H \in SUBSET Addr, NEW g, g = dfu_set_images_ready(f, H)
  PROVE  /\ HeadersPlaced(f) => HeadersPlaced(g)
         /\ \A i \in Images : Whole(f, i) => Whole(g, i)
BY MarkedHolds DEF HeadersPlaced, Whole

(* A check that passes finds the old firmware, or a whole image.           *)
LEMMA PassedWhole ==
  ASSUME BankSwitch, BanksApart, NEW f, HeadersPlaced(f), NEW i \in Images, NEW offset,
         dfu_check_checksum(f, i, offset)
  PROVE  Whole(f, i)
<1>1. BankBase[i] \in Nat /\ dfu_check_sha256(f, BankBase[i])
  BY BankTyped DEF dfu_check_checksum
<1>2. ASSUME NEW j \in Images, BankBase[i] = BankBase[j],
             \A k \in 0 .. BankSize[j] - 1 : f.cells[BankBase[i] + k] = OldFw
      PROVE  Whole(f, i)
  <2>1. 0 \in 0 .. BankSize[j] - 1 BY BankTyped DEF BanksApart
  <2>2. f.cells[BankBase[i]] = OldFw BY <1>1, <1>2, <2>1
  <2> QED BY <2>2, Tags DEF Whole
<1>3. ASSUME NEW j \in Images, HoldsFile(f, BankBase[i], j) PROVE Whole(f, i)
  <2>1. 0 \in 0 .. Length[j] - 1 BY BankTyped
  <2>2. f.cells[BankBase[i]] = <<j, 0>> BY <1>1, <1>3, <2>1 DEF HoldsFile
  <2>3. j = i BY <2>2 DEF HeadersPlaced
  <2> QED BY <1>3, <2>3 DEF Whole
<1> QED BY <1>1, <1>2, <1>3 DEF dfu_check_sha256, HoldsOldFw

LEMMA SameBank ==
  ASSUME BanksApart, NEW i \in Images, NEW j \in Images, BankBase[i] = BankBase[j]
  PROVE  i = j
<1>1. /\ BankBase[i] \in Nat /\ BankSize[i] \in Nat /\ BankSize[i] > 0
      /\ BankSize[j] \in Nat /\ BankSize[j] > 0
  <2>1. \A k \in Images : BankSize[k] > 0 BY BankTyped DEF BanksApart
  <2> QED BY <2>1, BankTyped
<1> QED BY <1>1 DEF BanksApart

(* Activation marks the images whose bit is set: all of them are whole,    *)
(* because no image of the package is still to come.                       *)
LEMMA ActivationKeepsReady ==
  ASSUME BankSwitch, BanksApart, TypeInv, ReadyInv, cst = "valid", plan = << >>,
         NEW H \in SUBSET ReadyHeaders, NEW g, g = dfu_set_images_ready(flash, H)
  PROVE  /\ g \in Flash /\ HeadersPlaced(g) /\ ReadyWhole(g)
         /\ \A i \in Images : Whole(flash, i) => Whole(g, i)
<1>1. flash \in Flash /\ ReadyHeaders \in SUBSET Addr /\ valid_bitmap \subseteq Images
  BY HeadersInFlash DEF TypeInv, TypeOK, DeviceTypeOK
<1>2. g \in Flash /\ g.ready = flash.ready \cup H BY <1>1, MarkedCells
<1>3. HeadersPlaced(g) /\ \A i \in Images : Whole(flash, i) => Whole(g, i)
  BY <1>1, MarkedWhole DEF ReadyInv
<1>4. H \subseteq {BankBase[i] : i \in valid_bitmap}
  BY DEF ReadyHeaders, BankHeaders, UserHeaders, BankHeader
<1>5. SessionsClean => \A i \in valid_bitmap : Whole(flash, i)
  BY NoImages DEF ReadyInv, CheckedKept
<1>6. ASSUME SessionsClean, NEW i \in Images, BankBase[i] \in g.ready PROVE Whole(flash, i)
  <2>1. CASE BankBase[i] \in flash.ready BY <1>6, <2>1 DEF ReadyInv, ReadyWhole
  <2>2. CASE BankBase[i] \in H
    <3>1. PICK j \in valid_bitmap : BankBase[i] = BankBase[j] BY <1>4, <2>2
    <3>2. i = j BY <1>1, <3>1, SameBank
    <3> QED BY <1>5, <1>6, <3>1, <3>2
  <2> QED BY <1>2, <1>6, <2>1, <2>2
<1>7. g.ready \subseteq {BankBase[i] : i \in Images} BY <1>1, <1>2, <1>4 DEF ReadyInv, ReadyWhole
<1> QED BY <1>2, <1>3, <1>6, <1>7 DEF ReadyWhole

(* Where nothing has a place in the bank the two are one.                  *)
LEMMA OpenWrite ==
  ASSUME BankSwitch, TypeInv, PrefixInv, HeaderOpen
  PROVE  WriteOpen
<1>1. CurrentImageOffset = 0 BY PlaceZero DEF TypeInv, TypeOK, PrefixInv
<1>2. cur_offset \in Nat BY DEF TypeInv, TypeOK, DeviceTypeOK
<1> QED BY <1>1, <1>2 DEF WriteOpen, HeaderOpen

(* A transfer has a place in the bank, and the bytes before it.            *)
LEMMA WritePlace ==
  ASSUME TypeInv, WriteOpen, cst = "send", wait = "none"
  PROVE  /\ flash \in Flash /\ cur_offset \in Nat /\ image_id \in Images
         /\ CurrentImageOffset \in Nat /\ cur_offset + CurrentImageOffset \in Nat
         /\ cur_offset + CurrentImageOffset > 0 => BankBase[image_id] \notin flash.ready
         /\ cur_offset > 0 => cur_offset + CurrentImageOffset > 0
<1>1. flash \in Flash /\ cur_offset \in Nat /\ image_id \in Images /\ CurrentImageOffset \in Nat
  BY PlaceTyped DEF TypeInv, TypeOK, DeviceTypeOK, ImageInv
<1> QED BY <1>1 DEF WriteOpen

(* A buffer check writes to the bank of the image that is sent.            *)
LEMMA BufferCrcMoves ==
  ASSUME ImagesFit, TypeInv, WindowInv, TransferInv, BufferOfImage, WriteOpen, SendBufferCrc
  PROVE  /\ Rewrites(flash, flash', image_id)
         /\ CurrentImageOffset + cur_offset' > 0 => BankBase[image_id] \notin flash'.ready
<1>1. PICK crcOk, mayFail : WriteReportBufferCrc(chunk, crcOk, mayFail) BY DEF SendBufferCrc
<1>2. /\ cst = "send" /\ wait = "none" /\ sendMode = "check" /\ Running /\ link = "up"
      /\ BufferCheckProcess(chunk, crcOk, mayFail) /\ chunk > 0
  BY <1>1 DEF SendBufferCrc, Ready, ChunkFull, WriteReportBufferCrc
<1>3. Checked(chunk, mayFail) BY <1>2, BufferCheckEnds
<1> DEFINE total == CurrentImageOffset
           open(offset, fl) == total + offset > 0 => BankBase[image_id] \notin fl.ready
           Moved == Rewrites(flash, flash', image_id) /\ open(cur_offset', flash')
<1>4. /\ DeviceTypeOK /\ flash \in Flash /\ cur_offset \in Nat /\ image_id \in Images
      /\ total \in Nat
  BY <1>2, WritePlace DEF TypeInv, TypeOK
<1>5. /\ dfu_resend_offset \in Nat /\ dfu_resend_offset % SectorSize = 0
      /\ dfu_resend_offset <= cur_offset /\ cur_offset < dfu_resend_offset + SectorSize
  BY <1>2 DEF TypeInv, TypeOK, DeviceTypeOK, WindowInv, ResendWindow
<1>6. cur_offset < BankSize[image_id]
  <2>1. image_id = img /\ coff = cur_offset /\ coff + chunk <= Length[img]
    BY <1>2 DEF TransferInv, SameImage, BufferSound, WindowInv, OffsetsAgree
  <2>2. chunk \in Nat /\ Length[image_id] \in Nat /\ BankSize[image_id] \in Nat
        /\ Length[image_id] <= BankSize[image_id]
    BY <1>4, BankTyped DEF TypeInv, TypeOK, ClientTypeOK, ImagesFit
  <2> QED BY <1>2, <1>4, <2>1, <2>2
<1>8. DataOf(tmp_buf, image_id) /\ open(cur_offset, flash)
  BY <1>2 DEF BufferOfImage, WriteOpen
<1> SUFFICES Moved OBVIOUS
<1> HIDE DEF total
<1>9. CASE UNCHANGED <<cur_offset, dfu_resend_offset, flash>>
  BY <1>4, <1>8, <1>9, WithinItself
<1>10. ASSUME used = chunk \/ cur_offset + used = image_total_length
       PROVE  Continues(flash, image_id, cur_offset + total, tmp_buf)
  <2>1. /\ used <= chunk /\ cur_offset + chunk <= Length[img]
        /\ image_total_length = Length[img] /\ Length[img] \in Nat
    BY <1>2, <1>4, BankTyped DEF TransferInv, SameImage, BufferSound, WindowInv, OffsetsAgree
  <2>2. used \in Nat /\ chunk \in Nat BY <1>8 DEF DataOf, used, TypeInv, TypeOK, ClientTypeOK
  <2>3. used > 0 BY <1>2, <1>4, <1>10, <2>1, <2>2
  <2>4. tmp_buf # << >> BY <2>3 DEF used
  <2> QED BY <1>4, <1>8, <2>4 DEF Continues
<1>11. ASSUME used = chunk \/ cur_offset + used = image_total_length,
              NEW u \in dfu_update(flash, image_id, cur_offset, total, tmp_buf, mayFail)
       PROVE  /\ Rewrites(flash, u.fl, image_id) /\ u.fl \in Flash
              /\ open(cur_offset, u.fl)
              /\ u.ok => BankBase[image_id] \notin u.fl.ready
  <2>1. /\ Rewrites(flash, u.fl, image_id)
        /\ u.ok => BankBase[image_id] \notin u.fl.ready
    BY <1>4, <1>8, <1>10, <1>11, UpdateRewrites
  <2>2. u.fl \in Flash /\ u.fl.ready \subseteq flash.ready BY <2>1 DEF Rewrites, Within
  <2> QED BY <1>8, <2>1, <2>2
<1>12. ASSUME used = chunk \/ cur_offset + used = image_total_length,
              NEW u \in dfu_update(flash, image_id, cur_offset, total, tmp_buf, mayFail),
              u.ok, BufferWritten(u.fl)
       PROVE  Rewrites(flash, flash', image_id) /\ BankBase[image_id] \notin flash'.ready
  BY <1>11, <1>12 DEF BufferWritten
<1>13. ASSUME used = chunk \/ cur_offset + used = image_total_length,
              NEW u \in dfu_update(flash, image_id, cur_offset, total, tmp_buf, mayFail),
              NEW e \in EraseBack(u.fl, mayFail), flash' = e.fl, cur_offset' = dfu_resend_offset
       PROVE  Rewrites(flash, flash', image_id) /\ open(cur_offset', flash')
  <2>1. cur_offset > 0 => BankBase[image_id] \notin u.fl.ready BY <1>4, <1>11, <1>13
  <2>2. Rewrites(u.fl, e.fl, image_id)
    BY <1>4, <1>5, <1>6, <1>11, <1>13, <2>1, EraseBackRewrites
  <2>3. Rewrites(flash, e.fl, image_id) BY <1>11, <1>13, <2>2, RewritesThen
  <2>4. total + cur_offset' > 0 => total + cur_offset > 0 BY <1>4, <1>5, <1>13
  <2>5. e.fl.ready \subseteq flash.ready BY <2>3 DEF Rewrites, Within
  <2> QED BY <1>8, <1>13, <2>3, <2>4, <2>5
<1>14. Checked(chunk, mayFail) <=>
         \/ UNCHANGED <<cur_offset, dfu_resend_offset, flash>>
         \/ \E u \in dfu_update(flash, image_id, cur_offset, total, tmp_buf, mayFail) :
              /\ used = chunk \/ cur_offset + used = image_total_length
              /\ \/ u.ok /\ BufferWritten(u.fl)
                 \/ ~u.ok /\ \E e \in EraseBack(u.fl, mayFail) :
                      /\ flash' = e.fl /\ cur_offset' = dfu_resend_offset
                      /\ dfu_resend_offset' = dfu_resend_offset
  BY DEF Checked, total
<1> QED BY <1>3, <1>9, <1>12, <1>13, <1>14

LEMMA PacketMoves ==
  ASSUME TypeInv, TransferInv, BufferOfImage, WriteOpen, SendPacket
  PROVE  /\ Rewrites(flash, flash', image_id)
         /\ CurrentImageOffset + cur_offset' > 0 => BankBase[image_id] \notin flash'.ready
<1> DEFINE total == CurrentImageOffset
           Moved == /\ Rewrites(flash, flash', image_id)
                    /\ total + cur_offset' > 0 => BankBase[image_id] \notin flash'.ready
<1>1. cst = "send" /\ wait = "none" BY DEF SendPacket, Ready
<1>2. /\ flash \in Flash /\ cur_offset \in Nat /\ image_id \in Images /\ total \in Nat
      /\ total + cur_offset > 0 => BankBase[image_id] \notin flash.ready
  BY <1>1, WritePlace DEF WriteOpen
<1>3. SUFFICES Moved OBVIOUS
<1>4. ASSUME UNCHANGED <<cur_offset, flash>> PROVE Moved BY <1>2, <1>4, WithinItself
<1>5. CASE UNCHANGED deviceVars BY <1>4, <1>5 DEF deviceVars, serviceVars, xferVars
<1>6. ASSUME NEW cell \in {<<img, coff + chunk>>, <<Noise, coff + chunk>>},
             NEW reboot, NEW mayFail, PacketReq(cell, reboot, mayFail)
      PROVE  Moved
  <2> DEFINE data == Append(tmp_buf, cell)
  <2>1. DataOf(data, image_id) /\ data # << >> BY <1>6, PacketData
  <2>2. CASE StreamWritten(data, reboot, mayFail)
    <3> HIDE DEF data
    <3>1. PICK u \in dfu_update(flash, image_id, cur_offset, total, data, mayFail) :
            flash' = u.fl /\ cur_offset' = IF u.ok THEN cur_offset + Len(data) ELSE cur_offset
      BY <2>2 DEF StreamWritten
    <3> HIDE DEF total
    <3>2. Continues(flash, image_id, cur_offset + total, data) BY <1>2, <2>1 DEF Continues
    <3>3. /\ Rewrites(flash, u.fl, image_id)
          /\ u.ok => BankBase[image_id] \notin u.fl.ready
      BY <1>2, <2>1, <3>2, UpdateRewrites
    <3>4. u.fl.ready \subseteq flash.ready BY <3>3 DEF Rewrites, Within
    <3>5. ~u.ok => cur_offset' = cur_offset BY <3>1
    <3> QED BY <1>2, <3>1, <3>3, <3>4, <3>5
  <2>3. StreamWritten(data, reboot, mayFail) \/ UNCHANGED <<cur_offset, flash>>
    BY <1>6 DEF PacketReq, PacketIgnored, PacketBuffered, PacketStreamed, xferVars
  <2> QED BY <1>4, <2>2, <2>3
<1> QED BY <1>5, <1>6, PacketCell

LEMMA UnderWayMoves ==
  ASSUME TypeInv, BufferOfImage, WriteOpen, NEW f \in WriteUnderWay
  PROVE  cst = "send" /\ Rewrites(flash, f, image_id)
<1> DEFINE total == CurrentImageOffset
           data == IF buffer_check_en THEN tmp_buf
                   ELSE Append(tmp_buf, <<image_id, cur_offset + used>>)
<1>1. /\ cst = "send" /\ wait = "none" /\ data # << >>
      /\ \E u \in dfu_update(flash, image_id, cur_offset, total, data, TRUE) : f = u.fl
  BY DEF WriteUnderWay, Ready
<1>2. /\ flash \in Flash /\ cur_offset \in Nat /\ image_id \in Images /\ total \in Nat
      /\ total + cur_offset > 0 => BankBase[image_id] \notin flash.ready
  BY <1>1, WritePlace DEF WriteOpen
<1>3. DataOf(data, image_id)
  <2>1. DataOf(tmp_buf, image_id) BY <1>1 DEF BufferOfImage
  <2>2. used \in Nat BY DEF TypeInv, TypeOK, DeviceTypeOK, used
  <2>3. cur_offset + used \in Nat BY <1>2, <2>2
  <2>4. <<image_id, cur_offset + used>> \in Payload
        /\ <<image_id, cur_offset + used>> \in {image_id, Noise} \X Nat
    BY <1>2, <2>3 DEF Payload
  <2> QED BY <2>1, <2>4, AppendData
<1> HIDE DEF data, total
<1>4. Continues(flash, image_id, cur_offset + total, data) BY <1>1, <1>2 DEF Continues
<1>5. PICK u \in dfu_update(flash, image_id, cur_offset, total, data, TRUE) : f = u.fl BY <1>1
<1>6. Rewrites(flash, u.fl, image_id) BY <1>2, <1>3, <1>4, UpdateRewrites
<1> QED BY <1>1, <1>5, <1>6

(* SYSTEM_RESET takes the header of the image that is given up.            *)
LEMMA SystemResetMoves ==
  ASSUME ImagesFit, TypeInv, SendSystemReset
  PROVE  \/ flash' = flash
         \/ /\ image_id \in Images /\ Rewrites(flash, flash', image_id)
            /\ flash'.cells[BankBase[image_id]] = Blank
<1>1. SUFFICES ASSUME image_id \in Images, flash' = Overwritten(flash, BankBase[image_id], Blank)
               PROVE  /\ Rewrites(flash, flash', image_id)
                      /\ flash'.cells[BankBase[image_id]] = Blank
  BY DEF SendSystemReset, WriteSystemReset, SystemReset
<1> DEFINE a == BankBase[image_id]
           e == [fl |-> Overwritten(flash, a, Blank), ok |-> TRUE]
<1>2. a \in Nat /\ a \in Addr /\ flash \in Flash /\ SectorFirst(a) = a
      /\ SectorSize \in Nat /\ SectorSize > 0
  BY <1>1, BankTyped, BankAligned, AlignedFirst, LayoutAssumption
     DEF TypeInv, TypeOK, DeviceTypeOK
<1>3. a \in Sector(a) BY <1>2 DEF Sector
<1>4. flash'.cells[a] = Blank /\ flash'.ready = flash.ready \ Sector(a) /\ flash' \in Flash
  <2>1. e \in flash_erase_sector(flash, a, FALSE) BY DEF flash_erase_sector
  <2>2. e \in Outcome BY <1>2, <2>1, EraseTyped
  <2>3. e.fl \in Flash BY <2>2 DEF Outcome
  <2>4. flash' \in Flash BY <1>1, <2>3
  <2> HIDE DEF a
  <2>5. flash' = Overwritten(flash, a, Blank) BY <1>1 DEF a
  <2>6. flash'.cells[a] = Blank /\ flash'.ready = flash.ready \ Sector(a)
    BY <1>2, <1>3, <2>5 DEF Overwritten, Flash
  <2> QED BY <2>4, <2>6
<1>5. \A b \in Addr \ Region(image_id) : flash'.cells[b] = flash.cells[b]
  <2> SUFFICES ASSUME NEW b \in Addr, b \in Sector(a), b \notin Region(image_id) PROVE FALSE
    BY <1>1, <1>2 DEF Overwritten, Flash
  <2>1. b >= a /\ SectorFirst(b) = a BY <1>2, SectorOf
  <2>2. BankSize[image_id] \in Nat /\ BankSize[image_id] > 0 BY <1>1, BankTyped DEF ImagesFit
  <2>3. b \in Int BY DEF Addr
  <2> HIDE DEF a
  <2>4. a <= b /\ a < a + BankSize[image_id] BY <1>2, <2>1, <2>2, <2>3
  <2>5. BankBase[image_id] <= b /\ SectorFirst(b) < BankBase[image_id] + BankSize[image_id]
    BY <2>1, <2>4 DEF a
  <2> QED BY <2>5 DEF Region
<1> QED BY <1>3, <1>4, <1>5 DEF Rewrites, Within

-----------------------------------------------------------------------------
(* The invariant from step to step.                                        *)

FlashInv ==
  HeadersPlaced(flash) /\ ReadyWhole(flash) /\ HeaderOpen /\ CheckedKept /\ AnswerWhole

(* Without an answer of VALID_FW under way there is nothing to be true.    *)
LEMMA NoAnswer ==
  ASSUME TypeInv, wait # "VALID_FW", AnswersOther, Running' => Running
  PROVE  AnswerWhole'
<1>1. SUFFICES ASSUME Running' PROVE \A n \in 1 .. Len(notif') : notif'[n].op # "VALID_FW"
  BY DEF AnswerWhole
<1>2. \A n \in 1 .. Len(notif) : notif[n].op # "VALID_FW"
  BY <1>1 DEF TypeInv, OrderInv, CheckOrder, Notified
<1>3. ASSUME NEW r, r.op # "VALID_FW", notif' = Append(notif, r)
      PROVE  \A n \in 1 .. Len(notif') : notif'[n].op # "VALID_FW"
  <2>1. /\ Len(notif) \in Nat /\ Len(notif') = Len(notif) + 1 /\ notif'[Len(notif) + 1] = r
        /\ \A n \in 1 .. Len(notif) : notif'[n] = notif[n]
    BY <1>3, NotifAppend DEF TypeInv, OrderInv, Queues
  <2>2. \A n \in 1 .. Len(notif') : n \in 1 .. Len(notif) \/ n = Len(notif) + 1 BY <2>1
  <2> QED BY <1>2, <1>3, <2>1, <2>2
<1> QED BY <1>2, <1>3 DEF AnswersOther

(* The flash and the bits stand still.                                     *)
LEMMA FlashFrame ==
  ASSUME ReadyInv, flash'.cells = flash.cells, flash'.ready = flash.ready,
         HeaderOpen', AnswerWhole',
         cst' # "off" => cst # "off" /\ UNCHANGED <<valid_bitmap, plan>>
  PROVE  FlashInv'
<1>1. \A i \in Images : Whole(flash, i) => Whole(flash', i) BY SameWhole
<1>2. \A i : Whole(flash, i) <=> Whole(flash', i) BY DEF Whole, HoldsFile
<1>3. CheckedKept' BY <1>2 DEF ReadyInv, CheckedKept
<1> QED BY <1>3, SameWhole DEF ReadyInv, FlashInv

(* An answer that is not one of VALID_FW leaves those of VALID_FW.         *)
LEMMA OtherAnswers ==
  ASSUME TypeInv, AnswerWhole, AnswersOther, UNCHANGED <<flash, plan>>, Running' => Running
  PROVE  AnswerWhole'
<1>1. img' = img BY DEF img
<1>2. CASE notif' = notif BY <1>1, <1>2 DEF AnswerWhole
<1>3. ASSUME NEW r, r.op # "VALID_FW", notif' = Append(notif, r) PROVE AnswerWhole'
  <2>1. /\ Len(notif) \in Nat /\ Len(notif') = Len(notif) + 1 /\ notif'[Len(notif) + 1] = r
        /\ \A n \in 1 .. Len(notif) : notif'[n] = notif[n]
    BY <1>3, NotifAppend DEF TypeInv, OrderInv, Queues
  <2>2. \A n \in 1 .. Len(notif') :
          (n \in 1 .. Len(notif) /\ notif'[n] = notif[n]) \/ notif'[n].op # "VALID_FW"
    BY <1>3, <2>1
  <2> QED BY <1>1, <2>2 DEF AnswerWhole
<1> QED BY <1>2, <1>3 DEF AnswersOther

(* A write to the bank of the image that is sent.                          *)
LEMMA TransferKeepsReady ==
  ASSUME BanksApart, TypeInv, PrefixInv, ReadyInv, cst = "send", wait = "none",
         Rewrites(flash, flash', image_id),
         cur_offset' > 0 => BankBase[image_id] \notin flash'.ready,
         UNCHANGED <<image_id, valid_bitmap, plan, cst>>, AnswersOther, Running' => Running
  PROVE  FlashInv'
<1>1. image_id \in Images /\ image_id = img
  BY DEF TypeInv, ImageInv, PrefixInv, TransferInv, SameImage
<1>2. HeadersPlaced(flash') /\ ReadyWhole(flash') BY <1>1, RewriteKeepsReady DEF ReadyInv
<1>3. CheckedKept'
  <2>1. image_id \in PlanImages(plan) BY <1>1, HeadNamed
  <2>2. \A i \in Images : i # image_id => (Whole(flash, i) => Whole(flash', i))
    BY <1>1, OtherBank DEF Rewrites
  <2>3. valid_bitmap \subseteq Images BY DEF TypeInv, TypeOK, DeviceTypeOK
  <2> QED BY <2>1, <2>2, <2>3 DEF ReadyInv, CheckedKept
<1>4. AnswerWhole' BY NoAnswer
<1> QED BY <1>2, <1>3, <1>4 DEF FlashInv, HeaderOpen

(* The client is gone: nothing is under way any more.                      *)
LEMMA GoneKeepsReady ==
  ASSUME HeadersPlaced(flash'), ReadyWhole(flash'), ClientGone, notif' = << >> \/ ~Running'
  PROVE  FlashInv'
<1>1. cst' = "off" BY DEF ClientGone
<1>2. AnswerWhole' BY DEF AnswerWhole
<1> QED BY <1>1, <1>2 DEF FlashInv, HeaderOpen, CheckedKept

(* A session begins, and no image is left over that it will not replace.   *)
LEMMA ConnectKeepsReady ==
  ASSUME TypeInv, ReadyInv, LinkLossReset => BootFresh, PackagesAlike => NamedOnly,
         Connect
  PROVE  FlashInv'
<1>1. /\ cst = "off" /\ cst' = "hello" /\ plan' \in Plans /\ advertising
      /\ UNCHANGED <<flash, valid_bitmap, notif, wait, reset>>
  BY DEF Connect, LinkUp, serviceVars, checkVars
<1>2. HeadersPlaced(flash') /\ ReadyWhole(flash') BY <1>1 DEF ReadyInv
<1>3. wait = "none" /\ AnswersOther BY <1>1 DEF TypeInv, PlanInv, AnswersOther
<1>4. AnswerWhole' BY <1>1, <1>3, NoAnswer DEF Running
<1>5. SessionsClean => valid_bitmap' \subseteq PlanImages(plan')
  <2>1. CASE LinkLossReset BY <1>1, <2>1 DEF BootFresh
  <2>2. CASE PackagesAlike BY <1>1, <2>2 DEF NamedOnly
  <2> QED BY <2>1, <2>2 DEF SessionsClean
<1>6. CheckedKept' BY <1>5 DEF CheckedKept
<1> QED BY <1>1, <1>2, <1>4, <1>6 DEF FlashInv, HeaderOpen

LEMMA RequestsKeepReady ==
  ASSUME TypeInv, WindowInv, ReadyInv,
         SendHello \/ SendTargetInfo \/ SendStart \/ SendImageInfo \/ SendValidFw
  PROVE  FlashInv'
<1> USE DEF serviceVars, checkVars
<1>1. ASSUME UNCHANGED <<flash, plan, valid_bitmap>>, cst \notin {"off", "send"}, wait = "none",
             cst' # "send" \/ wait' = "VALID_FW" \/ cur_offset' = 0, AnswersOther,
             Running' => Running
      PROVE  FlashInv'
  <2>1. AnswerWhole' BY <1>1, NoAnswer
  <2>2. HeaderOpen' BY <1>1 DEF HeaderOpen
  <2> QED BY <1>1, <2>1, <2>2, FlashFrame
<1>2. CASE SendHello
  <2>1. /\ UNCHANGED <<flash, plan, valid_bitmap, reset>> /\ cst = "hello" /\ wait = "none"
        /\ cst' # "send"
    BY <1>2 DEF SendHello, WriteBufferCheckEn, BufferCheckEn, Ready, deviceVars, appVars
  <2>2. AnswersOther
    BY <1>2, NotifyOther DEF SendHello, WriteBufferCheckEn, BufferCheckEn, deviceVars, AnswersOther
  <2> QED BY <1>1, <2>1, <2>2 DEF Running
<1>3. CASE SendTargetInfo
  <2>1. /\ UNCHANGED <<flash, plan, valid_bitmap, reset>> /\ cst = "pick" /\ wait = "none"
        /\ cst' # "send"
    BY <1>3 DEF SendTargetInfo, WriteReportTargetInfo, ReportTargetInfo, Ready, appVars
  <2>2. AnswersOther
    BY <1>3, NotifyOther DEF SendTargetInfo, WriteReportTargetInfo, ReportTargetInfo
  <2> QED BY <1>1, <2>1, <2>2 DEF Running
<1>4. CASE SendStart
  <2>1. /\ UNCHANGED <<flash, plan, valid_bitmap, reset>> /\ cst \in {"start", "info"}
        /\ wait = "none" /\ cst' # "send"
    BY <1>4 DEF SendStart, WriteStartDfu, StartDfu, Ready
  <2>2. AnswersOther BY <1>4, StartFrame DEF SendStart, WriteStartDfu
  <2> QED BY <1>1, <2>1, <2>2 DEF Running
<1>5. CASE SendImageInfo
  <2>1. /\ UNCHANGED <<flash, plan, valid_bitmap, notif, reset>> /\ cst = "info" /\ wait = "none"
        /\ cur_offset' = 0
    BY <1>5 DEF SendImageInfo, WriteReceiveFwImageInfo, ReceiveFwImageInfo, Ready, appVars,
                WindowInv, StartsAtZero
  <2> QED BY <1>1, <2>1 DEF Running, AnswersOther
<1>6. CASE SendValidFw
  <2>1. /\ UNCHANGED <<flash, plan, valid_bitmap, notif, reset, cst>> /\ cst = "send"
        /\ wait = "none" /\ wait' = "VALID_FW"
    BY <1>6 DEF SendValidFw, WriteValidFw, ValidFw, Ready
  <2>2. AnswerWhole' BY <2>1, NoAnswer DEF AnswersOther, Running
  <2>3. HeaderOpen' BY <2>1 DEF HeaderOpen
  <2> QED BY <2>1, <2>2, <2>3, FlashFrame
<1> QED BY <1>2, <1>3, <1>4, <1>5, <1>6

LEMMA WriteFrame ==
  ASSUME SendPacket \/ SendBufferCrc
  PROVE  /\ cst = "send" /\ wait = "none" /\ wait' # "VALID_FW"
         /\ UNCHANGED <<plan, cst, sendMode, image_id, valid_bitmap, active_header>>
         /\ AnswersOther /\ (Running' => Running)
<1> USE DEF serviceVars, headVars, checkVars, pendVars, appVars
<1>1. CASE SendPacket
  <2>1. /\ cst = "send" /\ wait = "none" /\ wait' # "VALID_FW"
        /\ UNCHANGED <<plan, cst, sendMode>>
    BY <1>1 DEF SendPacket, Ready
  <2>2. ASSUME NEW mayFail, NEW cell, WritePacket(cell, mayFail)
        PROVE  UNCHANGED <<image_id, valid_bitmap, active_header, notif>> /\ Running
    BY <2>2 DEF WritePacket, PacketReq
  <2>3. ASSUME UNCHANGED deviceVars
        PROVE  UNCHANGED <<image_id, valid_bitmap, active_header, notif>> /\ (Running' => Running)
    BY <2>3 DEF deviceVars, Running
  <2> QED BY <1>1, <2>1, <2>2, <2>3 DEF SendPacket, AnswersOther
<1>2. CASE SendBufferCrc
  <2>1. PICK crcOk, mayFail : BufferCheckProcess(chunk, crcOk, mayFail)
    BY <1>2 DEF SendBufferCrc, WriteReportBufferCrc
  <2>2. /\ cst = "send" /\ wait = "none" /\ wait' # "VALID_FW" /\ Running
        /\ UNCHANGED <<plan, cst, sendMode, image_id, valid_bitmap, active_header>>
    BY <1>2, <2>1 DEF SendBufferCrc, WriteReportBufferCrc, BufferCheckProcess, Ready
  <2>3. AnswersOther BY <2>1, BufferCheckFrame
  <2> QED BY <2>2, <2>3
<1> QED BY <1>1, <1>2

(* What a write of a transfer does to a bank that holds one image.         *)
LEMMA WriteMoved ==
  ASSUME BankSwitch, BanksApart, TypeInv, WindowInv, PrefixInv, ReadyInv,
         SendPacket \/ SendBufferCrc
  PROVE  /\ Rewrites(flash, flash', image_id)
         /\ cur_offset' > 0 => BankBase[image_id] \notin flash'.ready
<1>1. CurrentImageOffset = 0 BY PlaceZero DEF TypeInv, TypeOK, PrefixInv
<1>2. WriteOpen /\ BufferOfImage /\ TransferInv /\ ImagesFit
  BY OpenWrite DEF ReadyInv, PrefixInv, BanksApart, ImagesFit
<1>3. /\ Rewrites(flash, flash', image_id)
      /\ CurrentImageOffset + cur_offset' > 0 => BankBase[image_id] \notin flash'.ready
  BY <1>2, PacketMoves, BufferCrcMoves
<1>4. cur_offset' \in Nat
  <2>1. Next BY DEF Next, ClientStep
  <2>2. TypeInv' BY <2>1, TypeNext
  <2> QED BY <2>2 DEF TypeInv, TypeOK, DeviceTypeOK
<1>5. ASSUME NEW n \in Nat PROVE 0 + n = n OBVIOUS
<1>6. cur_offset' = CurrentImageOffset + cur_offset' BY <1>1, <1>4, <1>5, Zenon
<1> QED BY <1>3, <1>6, Zenon

LEMMA WritesKeepReady ==
  ASSUME BankSwitch, BanksApart, TypeInv, WindowInv, PrefixInv, ReadyInv,
         SendPacket \/ SendBufferCrc
  PROVE  FlashInv'
BY WriteFrame, WriteMoved, TransferKeepsReady

LEMMA EndsKeepReady ==
  ASSUME BankSwitch, BanksApart, TypeInv, ReadyInv, SendActiveImageReset \/ SendSystemReset
  PROVE  FlashInv'
<1> USE DEF serviceVars, checkVars
<1>1. valid_bitmap \subseteq Images BY DEF TypeInv, TypeOK, DeviceTypeOK
<1>2. ASSUME HeadersPlaced(flash'), ReadyWhole(flash'),
             UNCHANGED <<notif, valid_bitmap, plan>>, cst # "off", cst' = "end", wait = "none",
             Running' => Running, \A i \in Images : Whole(flash, i) => Whole(flash', i)
      PROVE  FlashInv'
  <2>1. AnswerWhole' BY <1>2, NoAnswer DEF AnswersOther
  <2>2. CheckedKept' BY <1>1, <1>2 DEF ReadyInv, CheckedKept
  <2> QED BY <1>2, <2>1, <2>2 DEF FlashInv, HeaderOpen
<1>3. CASE SendActiveImageReset
  <2>1. /\ cst = "valid" /\ plan = << >> /\ cst' = "end" /\ wait = "none" /\ Running
        /\ UNCHANGED <<notif, valid_bitmap, plan>>
        /\ flash' = dfu_set_images_ready(flash, ReadyHeaders)
    BY <1>3 DEF SendActiveImageReset, Ready, WriteActiveImageReset, ActiveImageReset
  <2>2. /\ HeadersPlaced(flash') /\ ReadyWhole(flash')
        /\ \A i \in Images : Whole(flash, i) => Whole(flash', i)
    BY <2>1, ActivationKeepsReady
  <2> QED BY <1>2, <2>1, <2>2
<1>4. CASE SendSystemReset
  <2>1. /\ cst = "abort" /\ cst' = "end" /\ wait = "none" /\ Running
        /\ UNCHANGED <<notif, valid_bitmap, plan>>
    BY <1>4 DEF SendSystemReset, Ready, WriteSystemReset, SystemReset
  <2>2. CASE flash' = flash BY <1>2, <2>1, <2>2 DEF ReadyInv
  <2>3. CASE /\ image_id \in Images /\ Rewrites(flash, flash', image_id)
             /\ flash'.cells[BankBase[image_id]] = Blank
    <3>1. HeadersPlaced(flash') /\ ReadyWhole(flash') BY <2>3, RewriteKeepsReady DEF ReadyInv
    <3>2. Whole(flash', image_id) BY <2>3, Tags DEF Whole
    <3>3. \A i \in Images : Whole(flash, i) => Whole(flash', i)
      BY <2>3, <3>2, OtherBank DEF Rewrites
    <3> QED BY <1>2, <2>1, <3>1, <3>3
  <2> QED BY <1>4, <2>2, <2>3, SystemResetMoves DEF BanksApart, ImagesFit
<1> QED BY <1>3, <1>4

LEMMA AnswerKeepsReady ==
  ASSUME TypeInv, ReadyInv, ReceiveNotification
  PROVE  FlashInv'
<1>1. /\ Running /\ notif # << >> /\ notif' = Tail(notif)
      /\ UNCHANGED <<flash, image_id, cur_offset, valid_bitmap, reset>>
      /\ \/ Head(notif).op = wait /\ Answered(Head(notif))
         \/ UNCHANGED <<cst, wait, plan>>
  BY DEF ReceiveNotification, serviceVars, headVars, xferVars, checkVars, appVars
<1>2. /\ Len(notif) \in Nat /\ Len(notif) > 0 /\ Head(notif) = notif[1]
      /\ Len(notif') = Len(notif) - 1
      /\ \A n \in 1 .. Len(notif) - 1 : notif'[n] = notif[n + 1]
  BY <1>1, QueueTail DEF TypeInv, OrderInv, Queues
<1>3. /\ 1 \in 1 .. Len(notif)
      /\ \A n \in 1 .. Len(notif') : n + 1 \in 1 .. Len(notif) /\ n + 1 # 1
           /\ notif'[n] = notif[n + 1]
  BY <1>2
<1>4. CASE UNCHANGED <<cst, wait, plan>>
  <2>1. img' = img BY <1>4 DEF img
  <2>2. AnswerWhole' BY <1>1, <1>3, <2>1 DEF ReadyInv, AnswerWhole
  <2>3. HeaderOpen' BY <1>1, <1>4 DEF ReadyInv, HeaderOpen
  <2> QED BY <1>1, <1>4, <2>2, <2>3, FlashFrame
<1>5. CASE Head(notif).op = wait /\ Answered(Head(notif)) /\ wait # "VALID_FW"
  <2>1. UNCHANGED plan /\ (cst' = "send" => wait = "BUFFER_CRC") /\ cst' # "off"
    BY <1>5 DEF Answered
  <2>2. cst # "off"
    <3>1. Head(notif) \in Notification BY <1>1, AnswerTyped DEF TypeInv, TypeOK
    <3>2. wait # "none" BY <1>5, <3>1 DEF Notification
    <3> QED BY <3>2 DEF TypeInv, PlanInv
  <2>3. \A n \in 1 .. Len(notif') : notif'[n].op # "VALID_FW"
    BY <1>1, <1>3, <1>5 DEF TypeInv, OrderInv, CheckOrder, Notified
  <2>4. AnswerWhole' BY <2>3 DEF AnswerWhole
  <2>5. HeaderOpen' BY <1>1, <2>1 DEF TypeInv, PlanInv, ReadyInv, HeaderOpen
  <2> QED BY <1>1, <2>1, <2>2, <2>4, <2>5, FlashFrame
<1>6. CASE Head(notif).op = "VALID_FW" /\ Answered(Head(notif)) /\ wait = "VALID_FW"
  <2>1. cst = "send" BY <1>6 DEF TypeInv, PlanInv
  <2>2. \A n \in 1 .. Len(notif') : notif'[n].op # "VALID_FW"
    BY <1>2, <1>3, <1>6 DEF TypeInv, OrderInv, CheckOrder
  <2>3. AnswerWhole' BY <2>2 DEF AnswerWhole
  <2>4. cst' # "send" BY <1>6 DEF Answered
  <2>5. HeaderOpen' BY <2>4 DEF HeaderOpen
  <2>6. CASE Head(notif).status # "SUCCESS"
    <3>1. UNCHANGED plan BY <1>6, <2>6 DEF Answered
    <3> QED BY <1>1, <2>1, <2>3, <2>5, <3>1, FlashFrame
  <2>7. CASE Head(notif).status = "SUCCESS"
    <3>1. plan' = Tail(plan) BY <1>6, <2>7 DEF Answered
    <3>2. Whole(flash, img) BY <1>1, <1>2, <1>3, <1>6, <2>7 DEF ReadyInv, AnswerWhole
    <3>3. \A i \in PlanImages(plan) : i = img \/ i \in PlanImages(plan')
      BY <2>1, <3>1, HeadNamed
    <3>4. CheckedKept' BY <1>1, <2>1, <3>2, <3>3 DEF ReadyInv, CheckedKept
    <3> QED BY <1>1, <2>3, <2>5, <3>4 DEF ReadyInv, FlashInv
  <2> QED BY <2>6, <2>7
<1> QED BY <1>1, <1>4, <1>5, <1>6

(* A check that ends well says so of the image that the client sent.       *)
LEMMA CheckKeepsReady ==
  ASSUME BankSwitch, BanksApart, TypeInv, PrefixInv, ReadyInv, CompleteValidFw,
         UNCHANGED clientVars
  PROVE  FlashInv'
<1>1. /\ Running /\ checking # {}
      /\ UNCHANGED <<flash, image_id, cur_offset, cst, wait, plan, reset, link>>
  BY DEF CompleteValidFw, EndValidFw, serviceVars, headVars, xferVars, appVars, clientVars
<1>2. PICK c \in checking :
        LET pass == c.img \in Images /\ dfu_check_checksum(flash, c.img, c.off)
        IN /\ valid_bitmap' = IF pass THEN valid_bitmap \cup {c.img} ELSE valid_bitmap
           /\ Notify("VALID_FW", IF pass THEN "SUCCESS" ELSE "CRC_ERROR", 0)
  BY DEF CompleteValidFw, EndValidFw
<1> DEFINE pass == c.img \in Images /\ dfu_check_checksum(flash, c.img, c.off)
<1>3. pass => Whole(flash, c.img) BY PassedWhole DEF ReadyInv
<1> HIDE DEF pass
<1>4. /\ valid_bitmap' = IF pass THEN valid_bitmap \cup {c.img} ELSE valid_bitmap
      /\ Notify("VALID_FW", IF pass THEN "SUCCESS" ELSE "CRC_ERROR", 0)
  BY <1>2 DEF pass
<1>5. HeaderOpen' BY <1>1 DEF ReadyInv, HeaderOpen
<1>6. CheckedKept' BY <1>1, <1>3, <1>4 DEF ReadyInv, CheckedKept
<1>7. AnswerWhole'
  <2>1. img' = img BY <1>1 DEF img
  <2>2. CASE notif' = notif BY <1>1, <2>1, <2>2 DEF ReadyInv, AnswerWhole
  <2>3. CASE link = "up"
    <3> DEFINE r == [op |-> "VALID_FW", status |-> IF pass THEN "SUCCESS" ELSE "CRC_ERROR",
                     offset |-> 0]
    <3>1. notif' = Append(notif, r) BY <1>4, <2>3 DEF Notify
    <3>2. cst = "send" BY <1>1, <2>3 DEF TypeInv, OrderInv, CheckOrder, CheckPending
    <3>3. c.img = img
      BY <1>1, <2>3, <3>2 DEF ReadyInv, CheckOfImage, PrefixInv, TransferInv, SameImage
    <3>4. r.status = "SUCCESS" => pass OBVIOUS
    <3> HIDE DEF r
    <3>5. /\ Len(notif) \in Nat /\ Len(notif') = Len(notif) + 1 /\ notif'[Len(notif) + 1] = r
          /\ \A n \in 1 .. Len(notif) : notif'[n] = notif[n]
      BY <3>1, NotifAppend DEF TypeInv, OrderInv, Queues
    <3>6. \A n \in 1 .. Len(notif') :
            (n \in 1 .. Len(notif) /\ notif'[n] = notif[n]) \/ notif'[n] = r
      BY <3>5
    <3> QED BY <1>1, <1>3, <2>1, <3>3, <3>4, <3>6 DEF ReadyInv, AnswerWhole
  <2> QED BY <1>4, <2>2, <2>3 DEF Notify
<1> QED BY <1>1, <1>5, <1>6, <1>7 DEF ReadyInv, FlashInv

(* The device and the stack on their own touch neither flash nor client,   *)
(* but for the end of a check.                                             *)
LEMMA TaskFrame ==
  ASSUME \/ DeviceTask /\ ~CompleteValidFw
         \/ TimerStep \/ ParamProcedure \/ SendConnParaUpdateReq \/ UNCHANGED vars
  PROVE  /\ UNCHANGED <<flash, image_id, cur_offset, valid_bitmap, clientVars>>
         /\ AnswersOther /\ (Running' => Running)
<1> USE DEF serviceVars, headVars, xferVars, checkVars
<1>1. CASE DeviceTask /\ ~CompleteValidFw
  <2>1. UNCHANGED <<flash, image_id, cur_offset, valid_bitmap, clientVars>> /\ Running
    BY <1>1 DEF DeviceTask, AppTask, HandleStackReady, HandleConnected, HandleDisconnected,
         HandleParamUpdate, HandleValidFw, BeginValidFw, Take
  <2>2. AnswersOther
    BY <1>1, NotifyOther
       DEF DeviceTask, AppTask, HandleStackReady, HandleConnected, HandleDisconnected,
         HandleParamUpdate, HandleValidFw, BeginValidFw, AnswersOther
  <2> QED BY <2>1, <2>2
<1>2. CASE TimerStep \/ ParamProcedure \/ UNCHANGED vars
  <2>1. UNCHANGED <<flash, image_id, cur_offset, valid_bitmap, clientVars, notif>>
    BY <1>2, TimerMoves DEF ParamProcedure, ParamUpdated, vars, deviceVars
  <2>2. Running' => Running
    BY <1>2, TimerMoves DEF ParamProcedure, ParamUpdated, vars, deviceVars, appVars,
                Running
  <2> QED BY <2>1, <2>2 DEF AnswersOther
<1>3. CASE SendConnParaUpdateReq
  <2>1. UNCHANGED <<flash, image_id, cur_offset, valid_bitmap, clientVars>> /\ Running
    BY <1>3 DEF SendConnParaUpdateReq, WriteConnParaUpdateReq
  <2>2. AnswersOther
    BY <1>3, NotifyOther DEF SendConnParaUpdateReq, WriteConnParaUpdateReq, AnswersOther
  <2> QED BY <2>1, <2>2
<1> QED BY <1>1, <1>2, <1>3

LEMMA TaskKeepsReady ==
  ASSUME BankSwitch, BanksApart, TypeInv, PrefixInv, ReadyInv,
         DeviceTask \/ TimerStep \/ ParamProcedure \/ SendConnParaUpdateReq \/ UNCHANGED vars
  PROVE  FlashInv'
<1>1. CASE DeviceTask /\ CompleteValidFw BY <1>1, CheckKeepsReady DEF DeviceTask
<1>2. CASE ~(DeviceTask /\ CompleteValidFw)
  <2>1. /\ UNCHANGED <<flash, image_id, cur_offset, cst, wait, valid_bitmap, plan>>
        /\ AnswersOther /\ (Running' => Running)
    BY <1>2, TaskFrame DEF clientVars
  <2>2. HeaderOpen' BY <2>1 DEF ReadyInv, HeaderOpen
  <2>3. AnswerWhole' BY <2>1, OtherAnswers DEF ReadyInv
  <2> QED BY <2>1, <2>2, <2>3, FlashFrame
<1> QED BY <1>1, <1>2

LEMMA LossKeepsReady ==
  ASSUME BankSwitch, BanksApart, TypeInv, PrefixInv, ReadyInv,
         LoseLink \/ RestartAfterReset \/ PowerLoss
  PROVE  FlashInv'
<1>1. CASE LoseLink
  <2>1. notif' = << >> /\ flash' = flash /\ ClientGone BY <1>1 DEF LoseLink, LinkDown
  <2> QED BY <2>1, GoneKeepsReady DEF ReadyInv
<1>2. ASSUME NEW f \in Flash, HeadersPlaced(f), ReadyWhole(f), DeviceRestart(f), ClientGone
      PROVE  FlashInv'
  <2>1. CASE RestartNew(f)
    BY <1>2, <2>1, GoneKeepsReady DEF RestartNew, Running
  <2>2. CASE RestartOld(f)
    <3>1. flash' = BootFlash(f) /\ notif' = << >> BY <2>2 DEF RestartOld
    <3>2. HeadersPlaced(flash') /\ ReadyWhole(flash')
      BY <1>2, <3>1, BootCells, SameWhole
    <3> QED BY <1>2, <3>1, <3>2, GoneKeepsReady
  <2> QED BY <1>2, <2>1, <2>2 DEF DeviceRestart
<1>3. flash \in Flash BY DEF TypeInv, TypeOK, DeviceTypeOK
<1>4. CASE RestartAfterReset
  BY <1>2, <1>3, <1>4 DEF RestartAfterReset, ReadyInv
<1>5. CASE PowerLoss
  <2>1. PICK f \in {flash} \cup WriteUnderWay \cup ActivationUnderWay : DeviceRestart(f)
    BY <1>5 DEF PowerLoss
  <2>2. ClientGone /\ f \in Flash BY <1>5, <2>1, UnderWayTyped DEF PowerLoss
  <2>3. CASE f = flash BY <1>2, <2>1, <2>2, <2>3 DEF ReadyInv
  <2>4. CASE f \in WriteUnderWay
    <3>1. image_id \in Images /\ Rewrites(flash, f, image_id)
      BY <2>4, OpenWrite, UnderWayMoves DEF TypeInv, ImageInv, ReadyInv
    <3>2. HeadersPlaced(f) /\ ReadyWhole(f) BY <3>1, RewriteKeepsReady DEF ReadyInv
    <3> QED BY <1>2, <2>1, <2>2, <3>2
  <2>5. CASE f \in ActivationUnderWay
    <3>1. /\ cst = "valid" /\ plan = << >>
          /\ \E H \in SUBSET ReadyHeaders : f = dfu_set_images_ready(flash, H)
      BY <2>5 DEF ActivationUnderWay, ReadyPrefixes
    <3>2. HeadersPlaced(f) /\ ReadyWhole(f) BY <3>1, ActivationKeepsReady
    <3> QED BY <1>2, <2>1, <2>2, <3>2
  <2> QED BY <2>1, <2>3, <2>4, <2>5
<1> QED BY <1>1, <1>4, <1>5

SessionInv == (LinkLossReset => BootFresh) /\ (PackagesAlike => NamedOnly)

LEMMA ReadyNext ==
  ASSUME BankSwitch, BanksApart, TypeInv, WindowInv, PrefixInv, SessionInv, ReadyInv, [Next]_vars
  PROVE  ReadyInv' /\ SessionInv'
<1>1. FlashInv'
  BY ConnectKeepsReady, RequestsKeepReady, WritesKeepReady, EndsKeepReady, AnswerKeepsReady,
     TaskKeepsReady, LossKeepsReady
     DEF Next, ClientStep, SessionInv
<1>2. BufferOfImage' /\ CheckOfImage' BY BufferStep, CheckOfImageStep DEF ReadyInv, PrefixInv
<1>3. SessionInv' BY FreshStep, NamedStep DEF SessionInv
<1> QED BY <1>1, <1>2, <1>3 DEF FlashInv, ReadyInv

LEMMA ReadyInit ==
  ASSUME Init, BanksApart
  PROVE  ReadyInv /\ SessionInv
<1>1. /\ cst = "off" /\ notif = << >> /\ plan = << >> /\ checking = {} /\ valid_bitmap = {}
      /\ image_id = NoImage /\ ioQueue = <<"STACK_READY">> /\ ~advertising
      /\ flash \in {BootFlash(BlankFlash), BootFlash(OldFlash)}
  BY DEF Init, DeviceInit, ServiceInit
<1>2. {BankBase[i] : i \in Images} \subseteq Addr BY LayoutAssumption
<1>3. ASSUME NEW f \in {BlankFlash, OldFlash}
      PROVE  HeadersPlaced(BootFlash(f)) /\ ReadyWhole(BootFlash(f))
  <2>1. f \in Flash BY <1>2 DEF BlankFlash, OldFlash, Flash, Content, BpLevel
  <2>2. /\ \A i, j \in Images : f.cells[BankBase[j]] # <<i, 0>>
        /\ f.ready \subseteq {BankBase[i] : i \in Images}
    <3>1. CASE f = BlankFlash
      <4>1. f.ready = {} /\ \A a \in Addr : f.cells[a] = Blank BY <3>1 DEF BlankFlash
      <4> QED BY <4>1, BankTyped, Tags
    <3>2. CASE f = OldFlash
      <4>1. f.ready = {BankBase[i] : i \in Images} BY <3>2 DEF OldFlash
      <4>2. \A a \in Addr : f.cells[a] = OldFw BY <3>2 DEF OldFlash
      <4> QED BY <4>1, <4>2, BankTyped, Tags
    <3> QED BY <3>1, <3>2
  <2> QED BY <2>1, <2>2, BootCells DEF HeadersPlaced, ReadyWhole, Whole
<1>4. HeadersPlaced(flash) /\ ReadyWhole(flash) BY <1>1, <1>3
<1>5. ReadyInv
  BY <1>1, <1>4
     DEF ReadyInv, HeaderOpen, BufferOfImage, CheckedKept, CheckOfImage, AnswerWhole
<1>6. BootFresh BY <1>1 DEF BootFresh
<1>7. NamedOnly BY <1>1, NoImages DEF NamedOnly
<1> QED BY <1>5, <1>6, <1>7 DEF SessionInv

(* The invariant of the update in two banks.                               *)
ReadyAll == TypeInv /\ WindowInv /\ PrefixInv /\ SessionInv /\ ReadyInv

LEMMA ReadyAllInit == Init /\ BanksApart => ReadyAll
BY TypeInit, WindowInit, PrefixInit, ReadyInit DEF ReadyAll

LEMMA ReadyAllNext == BankSwitch /\ BanksApart /\ ReadyAll /\ [Next]_vars => ReadyAll'
BY TypeNext, WindowNext, PrefixNext, ReadyNext DEF ReadyAll

(* With two banks that are apart, a header received and marked ready by    *)
(* dfu_set_image_ready heads a complete, sound image, through refused      *)
(* checks, failed writes, lost links, restarts and power losses, if every  *)
(* package holds the same images or a lost link restarts the device        *)
(* (ota_link_loss_reset).  Of other sessions it is false: valid_bitmap     *)
(* outlives the link, and the activation of a later package marks what the *)
(* earlier one left (dfu_service_handle_active_image).                     *)
THEOREM ReadyImagesTheorem ==
  BankSwitch /\ BanksApart /\ SessionsClean => (Spec => []ReadyImagesComplete)
<1> SUFFICES ASSUME BankSwitch, BanksApart, SessionsClean PROVE Spec => []ReadyImagesComplete
  OBVIOUS
<1>1. Init => ReadyAll BY ReadyAllInit
<1>2. ReadyAll /\ [Next]_vars => ReadyAll' BY ReadyAllNext
<1>3. ReadyAll => ReadyImagesComplete
  <2> SUFFICES ASSUME ReadyInv, NEW a \in flash.ready, NEW i \in Images,
                      flash.cells[a] = <<i, 0>>
               PROVE  HoldsFile(flash, a, i)
    BY DEF ReadyImagesComplete, ReadyAll
  <2>1. PICK j \in Images : a = BankBase[j] BY DEF ReadyInv, ReadyWhole
  <2>2. i = j BY <2>1 DEF ReadyInv, HeadersPlaced
  <2> QED BY <2>1, <2>2 DEF ReadyInv, ReadyWhole, Whole
<1> QED BY <1>1, <1>2, <1>3, PTL DEF Spec

-----------------------------------------------------------------------------
(* What is staged, and what a restart would run.                           *)

(* Every client counts and checks what the device received.                *)
ChecksBuffers == ClientModes \subseteq {"check"}

(* The images staged in a flash, and whether a restart runs them.          *)
StagedIn(f) ==
  {i \in Images \ UserImages : BankBase[i] \in f.ready /\ HoldsFile(f, BankBase[i], i)}
RunsNew == NewFirmware(flash) \/ ~active_header

LEMMA HeldHeader ==
  ASSUME NEW f, NEW i \in Images, HoldsFile(f, BankBase[i], i)
  PROVE  f.cells[BankBase[i]] = <<i, 0>>
<1>1. 0 \in 0 .. Length[i] - 1 /\ BankBase[i] + 0 = BankBase[i] BY BankTyped
<1> QED BY <1>1 DEF HoldsFile

(* With two banks the boot loader looks at the header of OTA alone.        *)
LEMMA NewHeader ==
  ASSUME BankSwitch, NEW f, HeadersPlaced(f), f.ready \subseteq {BankBase[i] : i \in Images}
  PROVE  NewFirmware(f) <=> BankBase[Ota] \in f.ready /\ f.cells[BankBase[Ota]] = <<Ota, 0>>
<1>1. Ota \in Images BY LayoutAssumption
<1>2. NewFirmware(f) <=> \E a \in f.ready : f.cells[a] = <<Ota, 0>>
  BY DEF NewFirmware, NewHeaders
<1>3. ASSUME NEW a \in f.ready, f.cells[a] = <<Ota, 0>> PROVE a = BankBase[Ota]
  <2>1. PICK j \in Images : a = BankBase[j] OBVIOUS
  <2> QED BY <1>1, <1>3, <2>1 DEF HeadersPlaced
<1> QED BY <1>2, <1>3

LEMMA SameStaged ==
  ASSUME NEW f, NEW g, g.cells = f.cells, g.ready = f.ready
  PROVE  StagedIn(g) = StagedIn(f) /\ (NewFirmware(g) <=> NewFirmware(f))
BY DEF StagedIn, HoldsFile, NewFirmware

(* A write stages nothing and makes nothing new run.                       *)
LEMMA RewriteUnstages ==
  ASSUME BankSwitch, BanksApart, NEW f, NEW g, NEW k \in Images, Rewrites(f, g, k),
         HeadersPlaced(f), ReadyWhole(f)
  PROVE  StagedIn(g) \subseteq StagedIn(f) /\ (NewFirmware(g) => NewFirmware(f))
<1>1. HeadersPlaced(g) /\ ReadyWhole(g) BY RewriteKeepsReady
<1>2. Within(f, g, k) /\ g.ready \subseteq f.ready BY DEF Rewrites, Within
<1>3. ASSUME NEW i \in Images, BankBase[i] \in g.ready
      PROVE  /\ BankBase[i] \in f.ready /\ g.cells[BankBase[i]] = f.cells[BankBase[i]]
             /\ HoldsFile(g, BankBase[i], i) <=> HoldsFile(f, BankBase[i], i)
  <2>1. CASE i # k BY <1>2, <1>3, <2>1, OtherBank
  <2>2. CASE i = k
    <3>1. g.cells = f.cells BY <1>3, <2>2 DEF Rewrites
    <3> QED BY <1>2, <1>3, <3>1 DEF HoldsFile
  <2> QED BY <2>1, <2>2
<1>4. NewFirmware(g) => NewFirmware(f)
  <2>1. Ota \in Images BY LayoutAssumption
  <2> QED BY <1>1, <1>3, <2>1, NewHeader DEF ReadyWhole
<1> QED BY <1>3, <1>4 DEF StagedIn

(* Marking headers stages what is held there, and nothing else runs.       *)
LEMMA MarkingStages ==
  ASSUME BankSwitch, BanksApart, TypeInv, ReadyInv,
         NEW H \in SUBSET ReadyHeaders, NEW g, g = dfu_set_images_ready(flash, H)
  PROVE  /\ g \in Flash /\ StagedIn(flash) \subseteq StagedIn(g)
         /\ \A i \in Images \ UserImages :
              BankBase[i] \in H /\ HoldsFile(flash, BankBase[i], i) => i \in StagedIn(g)
         /\ NewFirmware(g) => NewFirmware(flash) \/ BankBase[Ota] \in H
         /\ ~NewFirmware(g) => Ota \notin StagedIn(g)
<1>1. flash \in Flash /\ H \in SUBSET Addr /\ valid_bitmap \subseteq Images
  BY HeadersInFlash DEF TypeInv, TypeOK, DeviceTypeOK
<1>2. g \in Flash /\ g.ready = flash.ready \cup H BY <1>1, MarkedCells
<1>3. /\ \A i, j \in Images :
           g.cells[BankBase[j]] = <<i, 0>> => flash.cells[BankBase[j]] = <<i, 0>>
      /\ \A i \in Images : HoldsFile(flash, BankBase[i], i) => HoldsFile(g, BankBase[i], i)
  BY <1>1, MarkedHolds
<1>4. HeadersPlaced(g) BY <1>3 DEF ReadyInv, HeadersPlaced
<1>5. g.ready \subseteq {BankBase[i] : i \in Images}
  <2>1. H \subseteq {BankBase[i] : i \in Images}
    BY <1>1 DEF ReadyHeaders, BankHeaders, UserHeaders, BankHeader
  <2> QED BY <1>2, <2>1 DEF ReadyInv, ReadyWhole
<1>6. Ota \in Images BY LayoutAssumption
<1>7. NewFirmware(g) <=> BankBase[Ota] \in g.ready /\ g.cells[BankBase[Ota]] = <<Ota, 0>>
  BY <1>4, <1>5, NewHeader
<1>8. NewFirmware(flash) <=>
        BankBase[Ota] \in flash.ready /\ flash.cells[BankBase[Ota]] = <<Ota, 0>>
  BY NewHeader DEF ReadyInv, ReadyWhole
<1>9. NewFirmware(g) => NewFirmware(flash) \/ BankBase[Ota] \in H
  BY <1>2, <1>3, <1>6, <1>7, <1>8
<1>10. Ota \in StagedIn(g) => NewFirmware(g) BY <1>6, <1>7, HeldHeader DEF StagedIn
<1> QED BY <1>2, <1>3, <1>9, <1>10 DEF StagedIn

-----------------------------------------------------------------------------
(* What has been sent is there.                                            *)

(* While a check is awaited the header is the one that was sent, or noise. *)
SentInPlace ==
  cst = "send" /\ wait = "VALID_FW" =>
    flash.cells[BankBase[image_id]] \in {<<image_id, 0>>, <<Noise, 0>>}

(* An image is kept: its bit is set, and the bank holds it.                *)
Kept(i) == i \in valid_bitmap /\ HoldsFile(flash, BankBase[i], i)

(* A good answer that is under way speaks of an image that is kept.        *)
AnswerKept ==
  Running => \A n \in 1 .. Len(notif) :
    notif[n].op = "VALID_FW" /\ notif[n].status = "SUCCESS" => Kept(img)

(* The images of the package are kept, or still to be sent.                *)
PackageKept ==
  cst \notin {"off", "end"} => \E p \in Plans : \A i \in PlanImages(p) :
    i \in PlanImages(plan) \/ Kept(i)

(* Once the next restart runs the new firmware the session is over, and    *)
(* the device does not start another.                                      *)
NewStays ==
  RunsNew =>
    /\ cst \in {"end", "off"}
    /\ Running => /\ active_reset_pending /\ ~advertising /\ link # "up"
                  /\ ~Queued({"STACK_READY"})

BankInv == sendMode = "check" /\ SentInPlace /\ AnswerKept /\ PackageKept /\ NewStays

LEMMA BankInit == ASSUME Init, BanksApart PROVE BankInv
<1>1. /\ sendMode = "check" /\ cst = "off" /\ notif = << >> /\ active_header
      /\ flash \in {BootFlash(BlankFlash), BootFlash(OldFlash)}
  BY DEF Init, DeviceInit
<1>2. ASSUME NEW f \in {BlankFlash, OldFlash} PROVE ~NewFirmware(BootFlash(f))
  <2>1. {BankBase[i] : i \in Images} \subseteq Addr BY LayoutAssumption
  <2>2. f \in Flash BY <2>1 DEF BlankFlash, OldFlash, Flash, Content, BpLevel
  <2>3. \A a \in Addr : f.cells[a] \in {Blank, OldFw} BY DEF BlankFlash, OldFlash
  <2>4. \A i \in Images : Blank # <<i, 0>> /\ OldFw # <<i, 0>> BY Tags
  <2>5. NewHeaders \subseteq Images BY LayoutAssumption DEF NewHeaders
  <2>6. f.ready \subseteq Addr BY <2>2, FlashRecord
  <2>7. ~NewFirmware(f) BY <2>3, <2>4, <2>5, <2>6 DEF NewFirmware
  <2>8. BootFlash(f).cells = f.cells /\ BootFlash(f).ready = f.ready BY <2>2, BootCells
  <2> QED BY <2>7, <2>8 DEF NewFirmware
<1>3. ~NewFirmware(flash) BY <1>1, <1>2
<1> QED BY <1>1, <1>3 DEF BankInv, SentInPlace, AnswerKept, PackageKept, NewStays, RunsNew

LEMMA ModeStep ==
  ASSUME ChecksBuffers, sendMode = "check", [Next]_vars
  PROVE  sendMode' = "check"
<1>1. CASE Connect BY <1>1 DEF Connect, ChecksBuffers
<1>2. CASE ~Connect
  BY <1>2, TimerMoves
  DEF Next, ClientStep, SendHello, SendTargetInfo, SendStart, SendImageInfo, SendPacket,
       SendBufferCrc, SendValidFw, SendActiveImageReset, SendSystemReset, ReceiveNotification,
       SendConnParaUpdateReq, LoseLink, DeviceTask, ParamProcedure,
       RestartAfterReset, PowerLoss, ClientGone, clientVars, vars
<1> QED BY <1>1, <1>2

(* While the client waits for a check, flash and package stand still.      *)
LEMMA AwaitingStep ==
  ASSUME [Next]_vars, cst' = "send", wait' = "VALID_FW"
  PROVE  \/ SendValidFw
         \/ /\ cst = "send" /\ wait = "VALID_FW" /\ UNCHANGED <<flash, image_id, plan>>
            /\ Running' => Running
            /\ \/ CompleteValidFw
               \/ UNCHANGED valid_bitmap /\ AnswersOther
               \/ UNCHANGED valid_bitmap /\ notif # << >> /\ notif' = Tail(notif)
<1>1. CASE Connect \/ LoseLink \/ RestartAfterReset \/ PowerLoss
  BY <1>1 DEF Connect, LoseLink, RestartAfterReset, PowerLoss, ClientGone
<1>2. CASE SendHello \/ SendTargetInfo \/ SendStart \/ SendImageInfo \/ SendActiveImageReset
             \/ SendSystemReset
  BY <1>2 DEF SendHello, SendTargetInfo, SendStart, SendImageInfo, SendActiveImageReset,
              SendSystemReset, Ready
<1>3. CASE SendPacket \/ SendBufferCrc BY <1>3, WriteFrame
<1>4. CASE ReceiveNotification
  <2>1. /\ UNCHANGED <<cst, wait, plan>> /\ notif # << >> /\ notif' = Tail(notif)
        /\ UNCHANGED <<flash, image_id, valid_bitmap, reset>>
    BY <1>4 DEF ReceiveNotification, Answered, serviceVars, headVars, checkVars, appVars
  <2> QED BY <2>1 DEF Running
<1>5. CASE DeviceTask /\ CompleteValidFw
  BY <1>5 DEF DeviceTask, CompleteValidFw, EndValidFw, clientVars, headVars
<1>6. CASE (DeviceTask /\ ~CompleteValidFw)
             \/ TimerStep \/ ParamProcedure \/ SendConnParaUpdateReq \/ UNCHANGED vars
  <2>1. /\ UNCHANGED <<flash, image_id, cur_offset, valid_bitmap, clientVars>>
        /\ AnswersOther /\ (Running' => Running)
    BY <1>6, TaskFrame
  <2> QED BY <2>1 DEF clientVars
<1> QED BY <1>1, <1>2, <1>3, <1>4, <1>5, <1>6 DEF Next, ClientStep

(* A check is asked for when every cell was acknowledged.                  *)
LEMMA SentStep ==
  ASSUME BankSwitch, ReadyAll, BankInv, [Next]_vars
  PROVE  SentInPlace'
<1> SUFFICES ASSUME cst' = "send", wait' = "VALID_FW"
             PROVE  flash'.cells[BankBase[image_id']] \in {<<image_id', 0>>, <<Noise, 0>>}
  BY DEF SentInPlace
<1>1. CASE SendValidFw
  <2>1. /\ cst = "send" /\ wait = "none" /\ Running /\ image_id' = img /\ flash' = flash
        /\ coff + chunk = Length[img] /\ chunk = 0
    BY <1>1 DEF SendValidFw, Ready, AllSent, WriteValidFw, ValidFw, BankInv
  <2>2. image_id = img /\ coff = cur_offset /\ coff \in Nat /\ img \in Images
    BY <2>1 DEF ReadyAll, PrefixInv, TransferInv, SameImage, WindowInv, OffsetsAgree, BankInv,
                TypeInv, TypeOK, ClientTypeOK, ImageInv
  <2>3. Length[img] > 0 /\ BankBase[img] + 0 = BankBase[img] BY <2>2, BankTyped
  <2>4. 0 \in 0 .. cur_offset - 1 BY <2>1, <2>2, <2>3
  <2>5. Prefix(flash, BankBase[image_id], image_id, cur_offset)
    <3>1. CurrentImageOffset = 0 BY PlaceZero DEF ReadyAll, TypeInv, TypeOK, PrefixInv
    <3>2. WriteBase = BankBase[image_id] BY <2>2, <3>1, BankTyped DEF WriteBase
    <3> QED
      BY <2>1, <3>2 DEF ReadyAll, PrefixInv, TransferInv, PrefixInFlash, Transferring, BankInv
  <2> QED BY <2>1, <2>2, <2>3, <2>4, <2>5 DEF Prefix, Sound
<1> QED BY <1>1, AwaitingStep DEF BankInv, SentInPlace

(* A check that ends well has found the image that was sent.               *)
LEMMA CheckKeeps ==
  ASSUME BankSwitch, BanksApart, ReadyAll, BankInv, CompleteValidFw,
         cst = "send", wait = "VALID_FW", UNCHANGED plan
  PROVE  AnswerKept'
<1>1. Running /\ checking # {} /\ UNCHANGED <<flash, image_id, reset, link>>
  BY DEF CompleteValidFw, EndValidFw, headVars, appVars
<1>2. img' = img /\ image_id = img /\ img \in Images
  BY DEF img, ReadyAll, PrefixInv, TransferInv, SameImage, TypeInv, ImageInv
<1>3. PICK c \in checking :
        LET pass == c.img \in Images /\ dfu_check_checksum(flash, c.img, c.off)
        IN /\ valid_bitmap' = IF pass THEN valid_bitmap \cup {c.img} ELSE valid_bitmap
           /\ Notify("VALID_FW", IF pass THEN "SUCCESS" ELSE "CRC_ERROR", 0)
  BY DEF CompleteValidFw, EndValidFw
<1> DEFINE pass == c.img \in Images /\ dfu_check_checksum(flash, c.img, c.off)
           r == [op |-> "VALID_FW", status |-> IF pass THEN "SUCCESS" ELSE "CRC_ERROR",
                 offset |-> 0]
<1>4. valid_bitmap \subseteq valid_bitmap' /\ (pass => c.img \in valid_bitmap') BY <1>3
<1>5. notif' = IF link = "up" THEN Append(notif, r) ELSE notif BY <1>3 DEF Notify
<1>6. r.op = "VALID_FW" /\ (r.status = "SUCCESS" => pass) OBVIOUS
<1>7. pass /\ c.img = img => HoldsFile(flash, BankBase[img], img)
  <2> SUFFICES ASSUME pass, c.img = img PROVE HoldsFile(flash, BankBase[img], img) OBVIOUS
  <2>1. flash.cells[BankBase[img]] \in {<<img, 0>>, <<Noise, 0>>}
    BY <1>2 DEF BankInv, SentInPlace
  <2>2. BankBase[img] \in Nat /\ dfu_check_sha256(flash, BankBase[img])
    BY <1>2, BankTyped DEF dfu_check_checksum
  <2>3. ASSUME NEW j \in Images, BankBase[img] = BankBase[j],
               \A k \in 0 .. BankSize[j] - 1 : flash.cells[BankBase[img] + k] = OldFw
        PROVE  FALSE
    <3>1. 0 \in 0 .. BankSize[j] - 1 BY BankTyped DEF BanksApart
    <3>2. flash.cells[BankBase[img]] = OldFw BY <2>2, <2>3, <3>1
    <3>3. <<img, 0>> \in Payload /\ <<Noise, 0>> \in Payload BY <1>2 DEF Payload
    <3> QED BY <2>1, <3>2, <3>3, TagsAssumption
  <2>4. ASSUME NEW j \in Images, HoldsFile(flash, BankBase[img], j)
        PROVE  HoldsFile(flash, BankBase[img], img)
    <3>1. 0 \in 0 .. Length[j] - 1 BY BankTyped
    <3>2. flash.cells[BankBase[img]] = <<j, 0>> BY <2>2, <2>4, <3>1 DEF HoldsFile
    <3>3. <<j, 0>> = <<img, 0>> \/ <<j, 0>> = <<Noise, 0>> BY <2>1, <3>2
    <3>4. j # Noise BY Tags
    <3>5. j = img BY <3>3, <3>4
    <3> QED BY <2>4, <3>5
  <2> QED BY <2>2, <2>3, <2>4 DEF dfu_check_sha256, HoldsOldFw
<1> HIDE DEF pass, r
<1>8. link = "up" => c.img = img BY <1>1, <1>2 DEF ReadyAll, ReadyInv, CheckOfImage
<1>9. link = "up" /\ r.status = "SUCCESS" => Kept(img)'
  BY <1>1, <1>2, <1>4, <1>6, <1>7, <1>8 DEF Kept
<1>10. Kept(img) => Kept(img)' BY <1>1, <1>2, <1>4 DEF Kept
<1>11. CASE link = "up"
  <2>1. /\ Len(notif) \in Nat /\ Len(notif') = Len(notif) + 1 /\ notif'[Len(notif) + 1] = r
        /\ \A n \in 1 .. Len(notif) : notif'[n] = notif[n]
    BY <1>5, <1>11, NotifAppend DEF ReadyAll, TypeInv, OrderInv, Queues
  <2>2. \A n \in 1 .. Len(notif') :
          (n \in 1 .. Len(notif) /\ notif'[n] = notif[n]) \/ notif'[n] = r
    BY <2>1
  <2> QED BY <1>1, <1>9, <1>10, <1>11, <2>2 DEF BankInv, AnswerKept
<1>12. CASE link # "up" BY <1>1, <1>5, <1>10, <1>12 DEF BankInv, AnswerKept
<1> QED BY <1>11, <1>12

LEMMA AnswerStep ==
  ASSUME BankSwitch, BanksApart, ReadyAll, BankInv, [Next]_vars
  PROVE  AnswerKept'
<1> SUFFICES ASSUME Running', Notified("VALID_FW")' PROVE AnswerKept'
  BY DEF AnswerKept, Notified
<1>1. wait' = "VALID_FW" /\ cst' = "send"
  <2>1. TypeInv' BY TypeNext DEF ReadyAll
  <2> QED BY <2>1 DEF TypeInv, OrderInv, CheckOrder, PlanInv
<1>2. CASE SendValidFw
  <2>1. Running /\ wait = "none" /\ notif' = notif
    BY <1>2 DEF SendValidFw, Ready, WriteValidFw, ValidFw
  <2>2. Notified("VALID_FW") BY <2>1 DEF Notified
  <2> QED BY <2>1, <2>2 DEF ReadyAll, TypeInv, OrderInv, CheckOrder
<1>3. ASSUME cst = "send", wait = "VALID_FW", UNCHANGED <<flash, image_id, plan>>, Running
      PROVE  /\ CompleteValidFw => AnswerKept'
             /\ UNCHANGED valid_bitmap /\ AnswersOther => AnswerKept'
             /\ UNCHANGED valid_bitmap /\ notif # << >> /\ notif' = Tail(notif) => AnswerKept'
  <2>1. CompleteValidFw => AnswerKept' BY <1>3, CheckKeeps
  <2>2. ASSUME UNCHANGED valid_bitmap PROVE Kept(img)' <=> Kept(img)
    BY <1>3, <2>2 DEF Kept, img
  <2>3. \E R : notif \in Seq(R) BY DEF ReadyAll, TypeInv, OrderInv, Queues
  <2>4. CASE UNCHANGED valid_bitmap /\ AnswersOther
    <3>1. CASE notif' = notif BY <1>3, <2>2, <2>4, <3>1 DEF BankInv, AnswerKept
    <3>2. ASSUME NEW r, r.op # "VALID_FW", notif' = Append(notif, r) PROVE AnswerKept'
      <4>1. /\ Len(notif) \in Nat /\ Len(notif') = Len(notif) + 1 /\ notif'[Len(notif) + 1] = r
            /\ \A n \in 1 .. Len(notif) : notif'[n] = notif[n]
        BY <2>3, <3>2, NotifAppend
      <4>2. \A n \in 1 .. Len(notif') :
              (n \in 1 .. Len(notif) /\ notif'[n] = notif[n]) \/ notif'[n].op # "VALID_FW"
        BY <3>2, <4>1
      <4> QED BY <1>3, <2>2, <2>4, <4>2 DEF BankInv, AnswerKept
    <3> QED BY <2>4, <3>1, <3>2 DEF AnswersOther
  <2>5. CASE UNCHANGED valid_bitmap /\ notif # << >> /\ notif' = Tail(notif)
    <3>1. /\ Len(notif) \in Nat /\ Len(notif') = Len(notif) - 1
          /\ \A n \in 1 .. Len(notif) - 1 : notif'[n] = notif[n + 1]
      BY <2>3, <2>5, QueueTail
    <3>2. \A n \in 1 .. Len(notif') : n + 1 \in 1 .. Len(notif) /\ notif'[n] = notif[n + 1]
      BY <3>1
    <3> QED BY <1>3, <2>2, <2>5, <3>2 DEF BankInv, AnswerKept
  <2> QED BY <2>1, <2>4, <2>5
<1> QED BY <1>1, <1>2, <1>3, AwaitingStep

(* Requests for the control point leave flash, package and bits.           *)
LEMMA RequestFrame ==
  ASSUME SendHello \/ SendTargetInfo \/ SendStart \/ SendImageInfo \/ SendValidFw
  PROVE  /\ UNCHANGED <<flash, plan, valid_bitmap, active_header>>
         /\ cst \notin {"off", "end"} /\ cst' \notin {"off", "end"}
<1> USE DEF Ready, checkVars, pendVars
<1>1. CASE SendHello
  BY <1>1 DEF SendHello, WriteBufferCheckEn, BufferCheckEn, deviceVars, appVars, serviceVars
<1>2. CASE SendTargetInfo
  BY <1>2 DEF SendTargetInfo, WriteReportTargetInfo, ReportTargetInfo, appVars
<1>3. CASE SendStart BY <1>3 DEF SendStart, WriteStartDfu, StartDfu
<1>4. CASE SendImageInfo
  BY <1>4 DEF SendImageInfo, WriteReceiveFwImageInfo, ReceiveFwImageInfo, appVars
<1>5. CASE SendValidFw BY <1>5 DEF SendValidFw, WriteValidFw, ValidFw
<1> QED BY <1>1, <1>2, <1>3, <1>4, <1>5

LEMMA WriteMoves ==
  ASSUME BankSwitch, BanksApart, ReadyAll, SendPacket \/ SendBufferCrc
  PROVE  /\ image_id \in Images /\ image_id \in PlanImages(plan)
         /\ Rewrites(flash, flash', image_id)
<1>1. cst = "send" BY WriteFrame
<1>2. image_id \in Images /\ image_id = img
  BY <1>1 DEF ReadyAll, TypeInv, ImageInv, PrefixInv, TransferInv, SameImage
<1>3. img \in PlanImages(plan) BY <1>1, HeadNamed DEF ReadyAll
<1>4. Rewrites(flash, flash', image_id) BY WriteMoved DEF ReadyAll
<1> QED BY <1>2, <1>3, <1>4

LEMMA CheckEndFrame ==
  ASSUME CompleteValidFw
  PROVE  UNCHANGED <<flash, appVars, link>> /\ valid_bitmap \subseteq valid_bitmap'
BY DEF CompleteValidFw, EndValidFw

(* Every image of the package is kept, or still to be sent.                *)
LEMMA PackageStep ==
  ASSUME BankSwitch, BanksApart, ReadyAll, BankInv, [Next]_vars
  PROVE  PackageKept'
<1> SUFFICES ASSUME cst' \notin {"off", "end"}
             PROVE  \E p \in Plans : \A i \in PlanImages(p) : i \in PlanImages(plan') \/ Kept(i)'
  BY DEF PackageKept
<1>1. CASE Connect BY <1>1 DEF Connect
<1>2. ASSUME cst \notin {"off", "end"},
             \A i \in Images :
               i \in PlanImages(plan) \/ Kept(i) => i \in PlanImages(plan') \/ Kept(i)'
      PROVE  \E p \in Plans : \A i \in PlanImages(p) : i \in PlanImages(plan') \/ Kept(i)'
  <2>1. PICK p \in Plans : \A i \in PlanImages(p) : i \in PlanImages(plan) \/ Kept(i)
    BY <1>2 DEF BankInv, PackageKept
  <2>2. p \in Seq(Images) BY ClientAssumption
  <2>3. PlanImages(p) \subseteq Images BY <2>2 DEF PlanImages
  <2> QED BY <1>2, <2>1, <2>3
<1>3. ASSUME UNCHANGED flash, valid_bitmap \subseteq valid_bitmap'
      PROVE  \A i : Kept(i) => Kept(i)'
  BY <1>3 DEF Kept
<1>4. CASE SendHello \/ SendTargetInfo \/ SendStart \/ SendImageInfo \/ SendValidFw
  <2>1. UNCHANGED <<flash, plan, valid_bitmap>> /\ cst \notin {"off", "end"}
    BY <1>4, RequestFrame
  <2> QED BY <1>2, <1>3, <2>1
<1>5. CASE SendPacket \/ SendBufferCrc
  <2>1. UNCHANGED <<plan, valid_bitmap>> /\ cst = "send" BY <1>5, WriteFrame
  <2>2. /\ image_id \in Images /\ image_id \in PlanImages(plan)
        /\ Within(flash, flash', image_id)
    BY <1>5, WriteMoves DEF Rewrites
  <2>3. \A i \in Images : i # image_id => (Kept(i) => Kept(i)')
    BY <2>1, <2>2, OtherBank DEF Kept
  <2> QED BY <1>2, <2>1, <2>2, <2>3
<1>6. CASE SendActiveImageReset \/ SendSystemReset
  BY <1>6 DEF SendActiveImageReset, SendSystemReset
<1>7. CASE LoseLink \/ RestartAfterReset \/ PowerLoss
  BY <1>7 DEF LoseLink, RestartAfterReset, PowerLoss, ClientGone
<1>8. CASE DeviceTask /\ CompleteValidFw
  <2>1. UNCHANGED <<flash, plan, cst>> /\ valid_bitmap \subseteq valid_bitmap'
    BY <1>8, CheckEndFrame DEF DeviceTask, clientVars
  <2> QED BY <1>2, <1>3, <2>1
<1>9. CASE (DeviceTask /\ ~CompleteValidFw)
             \/ TimerStep \/ ParamProcedure \/ SendConnParaUpdateReq \/ UNCHANGED vars
  <2>1. UNCHANGED <<flash, valid_bitmap, clientVars>> BY <1>9, TaskFrame
  <2> QED BY <1>2, <1>3, <2>1 DEF clientVars
<1>10. CASE ReceiveNotification
  <2>1. /\ Running /\ notif # << >> /\ UNCHANGED <<flash, valid_bitmap>>
        /\ \/ UNCHANGED <<cst, plan>>
           \/ Head(notif).op = wait /\ Answered(Head(notif))
    BY <1>10 DEF ReceiveNotification, serviceVars, checkVars
  <2>2. CASE UNCHANGED <<cst, plan>> BY <1>2, <1>3, <2>1, <2>2
  <2>3. CASE Head(notif).op = wait /\ Answered(Head(notif))
    <3>1. Head(notif) \in Notification BY <2>1, AnswerTyped DEF ReadyAll, TypeInv, TypeOK
    <3>2. wait # "none" BY <2>3, <3>1 DEF Notification
    <3>3. cst \in {"hello", "pick", "start", "send"} BY <3>2 DEF ReadyAll, TypeInv, PlanInv
    <3>4. CASE UNCHANGED plan BY <1>2, <1>3, <2>1, <3>3, <3>4
    <3>5. CASE /\ Head(notif).op = "VALID_FW" /\ Head(notif).status = "SUCCESS"
               /\ plan' = Tail(plan)
      <4>1. Len(notif) \in Nat /\ Len(notif) > 0 /\ Head(notif) = notif[1]
        BY <2>1, QueueTail DEF ReadyAll, TypeInv, OrderInv, Queues
      <4>2. 1 \in 1 .. Len(notif) BY <4>1
      <4>3. Kept(img) BY <2>1, <3>5, <4>1, <4>2 DEF BankInv, AnswerKept
      <4>4. \A i \in PlanImages(plan) : i = img \/ i \in PlanImages(plan')
        BY <3>3, <3>5, HeadNamed DEF ReadyAll
      <4> QED BY <1>2, <1>3, <2>1, <3>3, <4>3, <4>4
    <3> QED BY <2>3, <3>4, <3>5 DEF Answered
  <2> QED BY <2>1, <2>2, <2>3
<1> QED BY <1>1, <1>4, <1>5, <1>6, <1>7, <1>8, <1>9, <1>10 DEF Next, ClientStep

(* A restart runs the new firmware, or finds none.                         *)
LEMMA RestartStays ==
  ASSUME NEW f \in Flash, DeviceRestart(f), ClientGone
  PROVE  NewStays'
<1>1. cst' = "off" BY DEF ClientGone
<1>2. CASE RestartNew(f) BY <1>1, <1>2 DEF RestartNew, NewStays, Running
<1>3. CASE ~NewFirmware(f) /\ active_header /\ RestartOld(f)
  <2>1. flash' = BootFlash(f) /\ active_header' BY <1>3 DEF RestartOld
  <2>2. ~NewFirmware(flash') BY <1>3, <2>1, BootCells, SameStaged
  <2> QED BY <2>1, <2>2 DEF NewStays, RunsNew
<1> QED BY <1>2, <1>3 DEF DeviceRestart

(* The end of a session in the new firmware is the last one.               *)
LEMMA NewStep ==
  ASSUME BankSwitch, BanksApart, ReadyAll, BankInv, [Next]_vars
  PROVE  NewStays'
<1> USE DEF serviceVars, checkVars, stackVars, pendVars, Running
<1> DEFINE Quiet == active_reset_pending /\ ~advertising /\ link # "up" /\ ~Queued({"STACK_READY"})
<1>1. ASSUME UNCHANGED <<flash, active_header>>,
             RunsNew => cst' \in {"end", "off"} /\ (Running' => Quiet')
      PROVE  NewStays'
  BY <1>1 DEF NewStays, RunsNew
<1>2. RunsNew => cst \in {"end", "off"} /\ (Running => Quiet) BY DEF BankInv, NewStays
<1>3. CASE Connect
  BY <1>1, <1>2, <1>3 DEF Connect, LinkUp
<1>4. CASE SendHello \/ SendTargetInfo \/ SendStart \/ SendImageInfo \/ SendValidFw
  BY <1>1, <1>2, <1>4, RequestFrame
<1>5. CASE SendPacket \/ SendBufferCrc
  <2>1. cst = "send" /\ active_header' = active_header BY <1>5, WriteFrame
  <2>2. NewFirmware(flash') => NewFirmware(flash)
    BY <1>5, WriteMoves, RewriteUnstages DEF ReadyAll, ReadyInv
  <2> QED BY <1>2, <2>1, <2>2 DEF NewStays, RunsNew
<1>6. CASE SendActiveImageReset
  <2>1. /\ cst' = "end" /\ active_reset_pending' /\ link' = "closing" /\ link = "up"
        /\ UNCHANGED <<advertising, ioQueue>>
    BY <1>6 DEF SendActiveImageReset, WriteActiveImageReset
  <2>2. ~advertising /\ ~Queued({"DISCONNECTED", "STACK_READY"})
    BY <2>1 DEF ReadyAll, TypeInv, OrderInv, LinkOrder
  <2> QED BY <2>1, <2>2 DEF NewStays, Queued
<1>7. CASE SendSystemReset
  BY <1>7 DEF SendSystemReset, WriteSystemReset, dfu_fw_reboot, NewStays
<1>8. CASE RestartAfterReset \/ PowerLoss
  <2>1. PICK f \in {flash} \cup WriteUnderWay \cup ActivationUnderWay :
          DeviceRestart(f) /\ ClientGone
    BY <1>8 DEF RestartAfterReset, PowerLoss
  <2> QED BY <2>1, UnderWayTyped, RestartStays DEF ReadyAll
<1>9. CASE SendConnParaUpdateReq
  BY <1>1, <1>2, <1>9 DEF SendConnParaUpdateReq, WriteConnParaUpdateReq
<1>10. CASE ReceiveNotification
  BY <1>1, <1>2, <1>10 DEF ReceiveNotification, appVars
<1>11. CASE TimerStep
  <2>1. UNCHANGED <<ioQueue, advertising, link, active_reset_pending, active_header, cst>>
    BY <1>11, TimerMoves DEF clientVars
  <2> QED BY <1>1, <1>2, <1>11, <2>1, TimerMoves DEF Queued
<1>12. CASE UNCHANGED vars
  BY <1>1, <1>2, <1>12 DEF vars, deviceVars, clientVars, appVars, Queued
<1>13. ASSUME NEW m \in AppMessage \ {"STACK_READY"}, Post(m), ~Queued({"STACK_READY"})
       PROVE  ~Queued({"STACK_READY"})'
  <2>1. /\ Len(ioQueue) \in Nat /\ Len(ioQueue') = Len(ioQueue) + 1
        /\ \A n \in 1 .. Len(ioQueue) : ioQueue'[n] = ioQueue[n]
        /\ ioQueue'[Len(ioQueue) + 1] = m
    BY <1>13, QueueAppend DEF ReadyAll, TypeInv, OrderInv
  <2>2. \A n \in 1 .. Len(ioQueue') :
          (n \in 1 .. Len(ioQueue) /\ ioQueue'[n] = ioQueue[n]) \/ ioQueue'[n] = m
    BY <2>1
  <2> QED BY <1>13, <2>2 DEF Queued
<1>14. CASE LoseLink
  <2>1. /\ UNCHANGED <<flash, active_header, active_reset_pending, advertising, reset>>
        /\ cst' = "off" /\ link' = "down" /\ Post("DISCONNECTED")
    BY <1>14 DEF LoseLink, LinkDown, ClientGone
  <2>2. "DISCONNECTED" \in AppMessage \ {"STACK_READY"} BY DEF AppMessage
  <2> QED BY <1>1, <1>2, <1>13, <2>1, <2>2
<1>15. CASE ParamProcedure
  <2>1. /\ UNCHANGED <<flash, active_header, active_reset_pending, advertising, reset, link, cst>>
        /\ \E m \in {"PARAM_SUCCESS", "PARAM_FAIL"} : Post(m)
    BY <1>15 DEF ParamProcedure, ParamUpdated, clientVars
  <2>2. {"PARAM_SUCCESS", "PARAM_FAIL"} \subseteq AppMessage \ {"STACK_READY"} BY DEF AppMessage
  <2> QED BY <1>1, <1>2, <1>13, <2>1, <2>2
<1>16. CASE DeviceTask
  <2>1. cst' = cst BY <1>16 DEF DeviceTask, clientVars
  <2>2. CASE CompleteValidFw
    BY <1>1, <1>2, <2>1, <2>2, CheckEndFrame DEF appVars, Queued
  <2>3. ASSUME NEW m, Take(m)
        PROVE  /\ Running /\ (m = "STACK_READY" => Queued({"STACK_READY"}))
               /\ ~Queued({"STACK_READY"}) => ~Queued({"STACK_READY"})'
    <3>1. /\ Len(ioQueue) \in Nat /\ Len(ioQueue) > 0 /\ ioQueue[1] = m /\ Running
          /\ Len(ioQueue') = Len(ioQueue) - 1
          /\ \A n \in 1 .. Len(ioQueue) - 1 : ioQueue'[n] = ioQueue[n + 1]
      BY <2>3, Taken DEF ReadyAll, TypeInv
    <3>2. 1 \in 1 .. Len(ioQueue) BY <3>1
    <3>3. \A n \in 1 .. Len(ioQueue') : n + 1 \in 1 .. Len(ioQueue) /\ ioQueue'[n] = ioQueue[n + 1]
      BY <3>1
    <3> QED BY <3>1, <3>2, <3>3 DEF Queued
  <2>4. CASE HandleStackReady BY <1>1, <1>2, <2>1, <2>3, <2>4 DEF HandleStackReady
  <2>5. CASE HandleConnected BY <1>1, <1>2, <2>1, <2>3, <2>5 DEF HandleConnected
  <2>6. CASE HandleDisconnected
    BY <1>1, <1>2, <2>1, <2>3, <2>6 DEF HandleDisconnected, dfu_fw_reboot
  <2>7. ASSUME NEW status, HandleParamUpdate(status) PROVE NewStays'
    BY <1>1, <1>2, <2>1, <2>3, <2>7 DEF HandleParamUpdate
  <2>8. CASE HandleValidFw BY <1>1, <1>2, <2>1, <2>3, <2>8 DEF HandleValidFw, BeginValidFw
  <2> QED BY <1>16, <2>2, <2>4, <2>5, <2>6, <2>7, <2>8 DEF DeviceTask, AppTask
<1> QED BY <1>3, <1>4, <1>5, <1>6, <1>7, <1>8, <1>9, <1>10, <1>11, <1>12, <1>14, <1>15, <1>16
     DEF Next, ClientStep

LEMMA BankNext ==
  BankSwitch /\ BanksApart /\ ChecksBuffers /\ ReadyAll /\ BankInv /\ [Next]_vars => BankInv'
BY ModeStep, SentStep, AnswerStep, PackageStep, NewStep DEF BankInv

-----------------------------------------------------------------------------
(* The refinement: a step of the system is a step of BankUpdate, or none.  *)

Stands == Staged' = Staged /\ (RunsNew' <=> RunsNew)
Unstages == ~RunsNew /\ ~RunsNew' /\ Staged' \subseteq Staged
Stages == ~RunsNew /\ ~RunsNew' /\ Staged \subseteq Staged' /\ Ota \notin Staged'
Changes ==
  /\ ~RunsNew /\ RunsNew' /\ Staged \subseteq Staged'
  /\ \E p \in Plans : PlanImages(p) \ UserImages \subseteq Staged'
BankSteps == Stands \/ Unstages \/ Stages \/ Changes

(* The next state has the contents of g.                                   *)
Becomes(g) == flash'.cells = g.cells /\ flash'.ready = g.ready /\ UNCHANGED active_header

LEMMA StagedNow ==
  ASSUME NEW g, Becomes(g)
  PROVE  Staged = StagedIn(flash) /\ Staged' = StagedIn(g)
         /\ (RunsNew' <=> NewFirmware(g) \/ ~active_header)
BY DEF Staged, StagedIn, RunsNew, NewFirmware, HoldsFile, Becomes

LEMMA SameStands == ASSUME Becomes(flash) PROVE BankSteps
BY StagedNow DEF RunsNew, BankSteps, Stands

LEMMA RewriteStep ==
  ASSUME BankSwitch, BanksApart, ReadyInv, ~RunsNew,
         NEW k \in Images, NEW g, Rewrites(flash, g, k), Becomes(g)
  PROVE  BankSteps
<1>1. StagedIn(g) \subseteq StagedIn(flash) /\ (NewFirmware(g) => NewFirmware(flash))
  BY RewriteUnstages DEF ReadyInv
<1> QED BY <1>1, StagedNow DEF RunsNew, BankSteps, Unstages

(* With the headers of its bank marked, the package is staged.             *)
LEMMA PackageStaged ==
  ASSUME BankSwitch, BanksApart, ReadyAll, BankInv, cst = "valid", plan = << >>,
         NEW H \in SUBSET ReadyHeaders, BankHeaders \subseteq H,
         NEW g, g = dfu_set_images_ready(flash, H)
  PROVE  \E p \in Plans : PlanImages(p) \ UserImages \subseteq StagedIn(g)
<1>1. PICK p \in Plans : \A i \in PlanImages(p) : i \in PlanImages(plan) \/ Kept(i)
  BY DEF BankInv, PackageKept
<1>2. \A i \in PlanImages(p) : Kept(i) BY <1>1, NoImages
<1>3. p \in Seq(Images) BY ClientAssumption
<1>4. PlanImages(p) \subseteq Images BY <1>3 DEF PlanImages
<1>5. \A i \in PlanImages(p) \ UserImages : BankBase[i] \in H
  BY <1>2 DEF Kept, BankHeaders, BankHeader
<1>6. \A i \in PlanImages(p) \ UserImages : i \in StagedIn(g)
  BY <1>2, <1>4, <1>5, MarkingStages DEF Kept, ReadyAll
<1> QED BY <1>6

LEMMA ResetStep ==
  ASSUME BankSwitch, BanksApart, ReadyAll, BankInv, SendActiveImageReset
  PROVE  BankSteps
<1> DEFINE g == dfu_set_images_ready(flash, ReadyHeaders)
<1>1. /\ cst = "valid" /\ plan = << >> /\ flash' = g /\ ~active_header'
  BY DEF SendActiveImageReset, Ready, WriteActiveImageReset, ActiveImageReset
<1>2. BankHeaders \subseteq ReadyHeaders /\ ReadyHeaders \in SUBSET ReadyHeaders
  BY DEF ReadyHeaders
<1>3. StagedIn(flash) \subseteq StagedIn(g) BY <1>2, MarkingStages DEF ReadyAll
<1>4. \E p \in Plans : PlanImages(p) \ UserImages \subseteq StagedIn(g)
  BY <1>1, <1>2, PackageStaged
<1> HIDE DEF g
<1>5. Staged = StagedIn(flash) /\ Staged' = StagedIn(g) BY <1>1 DEF Staged, StagedIn, HoldsFile
<1>6. ~RunsNew /\ RunsNew' BY <1>1 DEF BankInv, NewStays, RunsNew
<1> QED BY <1>3, <1>4, <1>5, <1>6 DEF BankSteps, Changes

(* A restart keeps what the flash holds.                                   *)
LEMMA RestartBecomes ==
  ASSUME NEW f \in Flash, DeviceRestart(f)
  PROVE  Becomes(f)
<1>1. CASE RestartNew(f) BY <1>1 DEF RestartNew, pendVars, Becomes
<1>2. CASE RestartOld(f) BY <1>2, BootCells DEF RestartOld, Becomes
<1> QED BY <1>1, <1>2 DEF DeviceRestart

(* Power that fails while the headers are marked: OTA comes last.          *)
LEMMA ActivationStep ==
  ASSUME BankSwitch, BanksApart, ReadyAll, BankInv,
         NEW f \in ActivationUnderWay, Becomes(f)
  PROVE  BankSteps
<1>1. cst = "valid" /\ plan = << >>
      /\ \E H \in ReadyPrefixes : f = dfu_set_images_ready(flash, H)
  BY DEF ActivationUnderWay
<1>2. PICK H \in ReadyPrefixes : f = dfu_set_images_ready(flash, H) BY <1>1
<1>3. /\ H \in SUBSET ReadyHeaders
      /\ BankBase[Ota] \in H => BankHeaders \subseteq H
  BY <1>2 DEF ReadyPrefixes, BankHeader
<1>4. /\ StagedIn(flash) \subseteq StagedIn(f)
      /\ NewFirmware(f) => NewFirmware(flash) \/ BankBase[Ota] \in H
      /\ ~NewFirmware(f) => Ota \notin StagedIn(f)
  BY <1>2, <1>3, MarkingStages DEF ReadyAll
<1>5. ~RunsNew BY <1>1 DEF BankInv, NewStays
<1>6. CASE NewFirmware(f)
  <2>1. BankHeaders \subseteq H BY <1>3, <1>4, <1>5, <1>6 DEF RunsNew
  <2>2. \E p \in Plans : PlanImages(p) \ UserImages \subseteq StagedIn(f)
    BY <1>1, <1>2, <1>3, <2>1, PackageStaged
  <2> QED BY <1>4, <1>5, <1>6, <2>2, StagedNow DEF BankSteps, Changes
<1>7. CASE ~NewFirmware(f)
  BY <1>4, <1>5, <1>7, StagedNow DEF RunsNew, BankSteps, Stages
<1> QED BY <1>6, <1>7

LEMMA LossStep ==
  ASSUME BankSwitch, BanksApart, ReadyAll, BankInv, RestartAfterReset \/ PowerLoss
  PROVE  BankSteps
<1>1. PICK f \in {flash} \cup WriteUnderWay \cup ActivationUnderWay : DeviceRestart(f)
  BY DEF RestartAfterReset, PowerLoss
<1>2. Becomes(f) BY <1>1, UnderWayTyped, RestartBecomes DEF ReadyAll
<1>3. CASE f = flash BY <1>2, <1>3, SameStands
<1>4. CASE f \in WriteUnderWay
  <2>1. cst = "send" /\ Rewrites(flash, f, image_id)
    BY <1>4, OpenWrite, UnderWayMoves DEF ReadyAll, ReadyInv
  <2>2. image_id \in Images BY <2>1 DEF ReadyAll, TypeInv, ImageInv
  <2>3. ~RunsNew BY <2>1 DEF BankInv, NewStays
  <2> QED BY <1>2, <2>1, <2>2, <2>3, RewriteStep DEF ReadyAll
<1>5. CASE f \in ActivationUnderWay BY <1>2, <1>5, ActivationStep
<1> QED BY <1>1, <1>3, <1>4, <1>5

LEMMA StagingStep ==
  ASSUME BankSwitch, BanksApart, ReadyAll, BankInv, [Next]_vars
  PROVE  BankSteps
<1>1. ASSUME UNCHANGED <<flash, active_header>> PROVE BankSteps
  BY <1>1, SameStands DEF Becomes
<1>2. CASE Connect
  BY <1>1, <1>2 DEF Connect, LinkUp, pendVars
<1>3. CASE SendHello \/ SendTargetInfo \/ SendStart \/ SendImageInfo \/ SendValidFw
  BY <1>1, <1>3, RequestFrame
<1>4. CASE SendPacket \/ SendBufferCrc
  <2>1. cst = "send" /\ UNCHANGED active_header BY <1>4, WriteFrame
  <2>2. image_id \in Images /\ Rewrites(flash, flash', image_id) BY <1>4, WriteMoves
  <2>3. ~RunsNew BY <2>1 DEF BankInv, NewStays
  <2>4. Becomes(flash') BY <2>1 DEF Becomes
  <2> QED BY <2>2, <2>3, <2>4, RewriteStep DEF ReadyAll
<1>5. CASE SendSystemReset
  <2>1. cst = "abort" /\ UNCHANGED active_header
    BY <1>5 DEF SendSystemReset, Ready, WriteSystemReset, dfu_fw_reboot, pendVars
  <2>2. ~RunsNew BY <2>1 DEF BankInv, NewStays
  <2>3. CASE flash' = flash BY <1>1, <2>1, <2>3
  <2>4. CASE image_id \in Images /\ Rewrites(flash, flash', image_id)
    <3>1. Becomes(flash') BY <2>1 DEF Becomes
    <3> QED BY <2>2, <2>4, <3>1, RewriteStep DEF ReadyAll
  <2> QED BY <1>5, <2>3, <2>4, SystemResetMoves DEF ReadyAll, BanksApart, ImagesFit
<1>6. CASE ReceiveNotification BY <1>1, <1>6 DEF ReceiveNotification, appVars, pendVars
<1>7. CASE LoseLink BY <1>1, <1>7 DEF LoseLink, LinkDown, pendVars
<1>8. CASE DeviceTask /\ CompleteValidFw
  BY <1>1, <1>8, CheckEndFrame DEF appVars, pendVars
<1>9. CASE (DeviceTask /\ ~CompleteValidFw)
             \/ TimerStep \/ ParamProcedure \/ SendConnParaUpdateReq \/ UNCHANGED vars
  <2>1. UNCHANGED flash BY <1>9, TaskFrame
  <2>2. UNCHANGED active_header
    BY <1>9, TimerMoves
    DEF DeviceTask, AppTask, HandleStackReady, HandleConnected, HandleDisconnected,
         HandleParamUpdate, HandleValidFw, ParamProcedure, ParamUpdated,
         SendConnParaUpdateReq, WriteConnParaUpdateReq, dfu_fw_reboot, vars, deviceVars, appVars,
         pendVars
  <2> QED BY <1>1, <2>1, <2>2
<1> QED BY <1>2, <1>3, <1>4, <1>5, <1>6, <1>7, <1>8, <1>9, ResetStep, LossStep DEF Next, ClientStep

LEMMA BankRefines ==
  ASSUME BankSteps
  PROVE  [Bank!Next]_<<Staged, IF NewFirmware(flash) \/ ~active_header THEN "new" ELSE "old">>
<1> DEFINE runs == IF NewFirmware(flash) \/ ~active_header THEN "new" ELSE "old"
<1>1. runs = IF RunsNew THEN "new" ELSE "old" BY DEF RunsNew
<1>2. runs' = IF RunsNew' THEN "new" ELSE "old" BY DEF RunsNew
<1>3. Staged' \subseteq Images \ UserImages BY DEF Staged
<1> HIDE DEF runs
<1>4. CASE Stands
  <2>1. Staged' = Staged /\ runs' = runs BY <1>1, <1>2, <1>4 DEF Stands
  <2> QED BY <2>1 DEF runs
<1>5. CASE Unstages
  <2>1. runs = "old" /\ runs' = runs /\ Staged' \in SUBSET Staged
    BY <1>1, <1>2, <1>5 DEF Unstages
  <2> QED BY <2>1 DEF Bank!Next, Bank!Rewrite, runs
<1>6. CASE Stages
  <2>1. /\ runs = "old" /\ runs' = runs
        /\ Staged' \in SUBSET ((Images \ UserImages) \ {Ota}) /\ Staged \subseteq Staged'
    BY <1>1, <1>2, <1>3, <1>6 DEF Stages
  <2> QED BY <2>1 DEF Bank!Next, Bank!Stage, runs
<1>7. CASE Changes
  <2>1. /\ runs = "old" /\ runs' = "new"
        /\ Staged' \in SUBSET (Images \ UserImages) /\ Staged \subseteq Staged'
    BY <1>1, <1>2, <1>3, <1>7 DEF Changes
  <2>2. PICK p \in Plans : PlanImages(p) \ UserImages \subseteq Staged' BY <1>7 DEF Changes
  <2>3. \E P \in {{q[n] : n \in 1 .. Len(q)} \ UserImages : q \in Plans} : P \subseteq Staged'
    BY <2>2 DEF PlanImages
  <2> QED BY <2>1, <2>3 DEF Bank!Next, Bank!ChangeOver, runs
<1> QED BY <1>4, <1>5, <1>6, <1>7 DEF BankSteps, runs

LEMMA BankStart == Init /\ BanksApart => Bank!Init
<1> SUFFICES ASSUME Init, BanksApart PROVE Bank!Init
  OBVIOUS
<1>1. ~RunsNew BY BankInit DEF Init, DeviceInit, BankInv, NewStays, Running
<1>2. PICK f \in {BlankFlash, OldFlash} : flash = BootFlash(f) BY DEF Init, DeviceInit
<1>3. {BankBase[i] : i \in Images} \subseteq Addr BY LayoutAssumption
<1>4. f \in Flash /\ \A a \in Addr : f.cells[a] \in {Blank, OldFw}
  BY <1>2, <1>3 DEF BlankFlash, OldFlash, Flash, Content, BpLevel
<1>5. flash.cells = f.cells BY <1>2, <1>4, BootCells
<1>6. \A i \in Images : Blank # <<i, 0>> /\ OldFw # <<i, 0>> BY Tags
<1>7. \A i \in Images : ~HoldsFile(flash, BankBase[i], i)
  <2> SUFFICES ASSUME NEW i \in Images, HoldsFile(flash, BankBase[i], i) PROVE FALSE
    OBVIOUS
  <2>1. flash.cells[BankBase[i]] = <<i, 0>> BY HeldHeader
  <2>2. BankBase[i] \in Addr BY LayoutAssumption
  <2> QED BY <1>4, <1>5, <1>6, <2>1, <2>2
<1>8. Staged = {} BY <1>7 DEF Staged
<1> QED BY <1>1, <1>8 DEF Bank!Init, RunsNew

(* With two banks the update is BankUpdate, for every package and layout:  *)
(* whatever is damaged, fails to write, is asked again or cut off, at any  *)
(* point of a transfer or of the activation                                *)
(* (dfu_service_handle_active_image), the device stays on its old firmware *)
(* until all images of one package are staged, and then a restart runs the *)
(* new one.  Clients count and check what the device received: VALID_FW    *)
(* (dfu_service_handle_valid_fw) does not ask whether the transfer is      *)
(* complete, and would accept what an earlier update left in the bank.     *)
THEOREM BankUpdateTheorem ==
  BankSwitch /\ BanksApart /\ ChecksBuffers => (Spec => ImplementsBankUpdate)
<1> SUFFICES ASSUME BankSwitch, BanksApart, ChecksBuffers PROVE Spec => ImplementsBankUpdate
  OBVIOUS
<1>1. Init => ReadyAll /\ BankInv /\ Bank!Init
  BY ReadyAllInit, BankInit, BankStart
<1>2. ReadyAll /\ BankInv /\ [Next]_vars => ReadyAll' /\ BankInv'
  BY ReadyAllNext, BankNext
<1>3. ReadyAll /\ BankInv /\ [Next]_vars =>
        [Bank!Next]_<<Staged, IF NewFirmware(flash) \/ ~active_header THEN "new" ELSE "old">>
  BY StagingStep, BankRefines
<1> QED BY <1>1, <1>2, <1>3, PTL DEF Spec, ImplementsBankUpdate, Bank!Spec
=============================================================================
