-------------------------- MODULE OrderWalk_proofs --------------------------
(***************************************************************************)
(* Theorems of OrderWalk, for every block order, family order, task list   *)
(* and order text: which cell stands where in the expansion, and what any  *)
(* sequence of requests can make of the done set.                          *)
(***************************************************************************)
EXTENDS OrderWalk, TLAPS

-----------------------------------------------------------------------------
(* Division by a positive number, and back.                                *)
LEMMA Division ==
    ASSUME NEW n \in Nat, NEW d \in Nat \ {0}
    PROVE  n \div d \in Nat /\ n % d \in 0..(d - 1) /\ n = (n \div d) * d + (n % d)
OBVIOUS

LEMMA DivisionUnique ==
    ASSUME NEW q \in Nat, NEW d \in Nat \ {0}, NEW r \in 0..(d - 1)
    PROVE  (q * d + r) \div d = q /\ (q * d + r) % d = r
OBVIOUS

(* A multiple below another leaves room for a whole divisor.               *)
LEMMA MultiplesApart ==
    ASSUME NEW a \in Nat, NEW b \in Nat, NEW d \in Nat \ {0}, a < b
    PROVE  a * d \in Nat /\ b * d \in Nat /\ a * d + d <= b * d
OBVIOUS

LEMMA QuotientBelow ==
    ASSUME NEW n \in Nat, NEW b \in Nat, NEW d \in Nat \ {0}, n < b * d
    PROVE  n \div d < b
<1> DEFINE q == n \div d
           r == n % d
<1>1. q \in Nat /\ r \in Nat /\ n = q * d + r
  BY Division
<1> HIDE DEF q, r
<1>2. SUFFICES ASSUME q >= b PROVE FALSE
  BY <1>1 DEF q
<1>3. q * d >= b * d
  <2>1. CASE q = b
    BY <2>1
  <2>2. CASE b < q
    BY <1>1, <2>2, MultiplesApart
  <2> QED
    BY <1>1, <1>2, <2>1, <2>2
<1>4. q * d \in Nat /\ b * d \in Nat
  BY <1>1
<1> QED
  BY <1>1, <1>3, <1>4

-----------------------------------------------------------------------------
(* The three lists of the frozen order: no entry of one stands twice.      *)
LEMMA Lists ==
    /\ Len(BlockOrder) \in Nat \ {0}
    /\ \A i \in 1..Len(BlockOrder) : BlockOrder[i] \in Blocks
    /\ \A b \in Blocks : \E i \in 1..Len(BlockOrder) : BlockOrder[i] = b
    /\ \A i, j \in 1..Len(BlockOrder) : BlockOrder[i] = BlockOrder[j] => i = j
    /\ Len(FamilyOrder) \in Nat \ {0}
    /\ \A i \in 1..Len(FamilyOrder) : FamilyOrder[i] \in Families
    /\ \A f \in Families : \E i \in 1..Len(FamilyOrder) : FamilyOrder[i] = f
    /\ \A i, j \in 1..Len(FamilyOrder) : FamilyOrder[i] = FamilyOrder[j] => i = j
    /\ Len(Downstream) \in Nat \ {0}
    /\ \A i \in 1..Len(Downstream) : Downstream[i] \in Tasks
    /\ \A t \in Tasks : \E i \in 1..Len(Downstream) : Downstream[i] = t
    /\ \A i, j \in 1..Len(Downstream) : Downstream[i] = Downstream[j] => i = j
<1>1. ASSUME NEW S, NEW s \in Seq(S), Len(s) > 0,
             \A i, j \in DOMAIN s : s[i] = s[j] => i = j
      PROVE  /\ Len(s) \in Nat \ {0}
             /\ \A i \in 1..Len(s) : s[i] \in Range(s)
             /\ \A x \in Range(s) : \E i \in 1..Len(s) : s[i] = x
             /\ \A i, j \in 1..Len(s) : s[i] = s[j] => i = j
  BY <1>1 DEF Range
<1>2. /\ \A i, j \in DOMAIN BlockOrder : BlockOrder[i] = BlockOrder[j] => i = j
      /\ \A i, j \in DOMAIN FamilyOrder : FamilyOrder[i] = FamilyOrder[j] => i = j
      /\ \A i, j \in DOMAIN Downstream : Downstream[i] = Downstream[j] => i = j
  BY OrderFactsAssumption
<1>3. /\ BlockOrder \in Seq({"PQ", "QP"}) /\ Len(BlockOrder) > 0
      /\ FamilyOrder \in Seq(Families) /\ Len(FamilyOrder) > 0
      /\ Downstream \in Seq({"T2", "T3", "T4"}) /\ Len(Downstream) > 0
  BY OrderFactsAssumption
<1>4. /\ Len(BlockOrder) \in Nat \ {0}
      /\ \A i \in 1..Len(BlockOrder) : BlockOrder[i] \in Range(BlockOrder)
      /\ \A x \in Range(BlockOrder) : \E i \in 1..Len(BlockOrder) : BlockOrder[i] = x
      /\ \A i, j \in 1..Len(BlockOrder) : BlockOrder[i] = BlockOrder[j] => i = j
  BY <1>1, <1>2, <1>3
<1>5. /\ Len(FamilyOrder) \in Nat \ {0}
      /\ \A i \in 1..Len(FamilyOrder) : FamilyOrder[i] \in Range(FamilyOrder)
      /\ \A x \in Range(FamilyOrder) : \E i \in 1..Len(FamilyOrder) : FamilyOrder[i] = x
      /\ \A i, j \in 1..Len(FamilyOrder) : FamilyOrder[i] = FamilyOrder[j] => i = j
  BY <1>1, <1>2, <1>3
<1>6. /\ Len(Downstream) \in Nat \ {0}
      /\ \A i \in 1..Len(Downstream) : Downstream[i] \in Range(Downstream)
      /\ \A x \in Range(Downstream) : \E i \in 1..Len(Downstream) : Downstream[i] = x
      /\ \A i, j \in 1..Len(Downstream) : Downstream[i] = Downstream[j] => i = j
  BY <1>1, <1>2, <1>3
<1> QED
  BY <1>4, <1>5, <1>6 DEF Blocks, Families, Tasks

-----------------------------------------------------------------------------
(* A segment is the cells of one family of one block.                      *)
Segments       == Len(BlockOrder) * Len(FamilyOrder)
Segment(b, f)  == (b - 1) * Len(FamilyOrder) + (f - 1)
At(s, k)       == s * FamilyLength + k + 1
Offsets        == 0..(FamilyLength - 1)

LEMMA Sizes ==
    /\ Len(AcqEvents) = 4 /\ Len(CapUniverses) = 2 /\ AcqLength = 8
    /\ FamilyLength \in Nat \ {0} /\ FamilyLength = 8 + 4 * Len(Downstream)
    /\ Segments \in Nat \ {0}
    /\ TotalCells \in Nat /\ TotalCells = Segments * FamilyLength
<1>1. Len(AcqEvents) = 4 /\ Len(CapUniverses) = 2
  BY DEF AcqEvents, CapUniverses
<1>2. AcqLength = 8
  BY <1>1 DEF AcqLength
<1>3. FamilyLength \in Nat \ {0} /\ FamilyLength = 8 + 4 * Len(Downstream)
  BY <1>2, Lists DEF FamilyLength
<1>4. Segments \in Nat \ {0}
  BY Lists DEF Segments
<1> QED
  BY <1>1, <1>2, <1>3, <1>4 DEF TotalCells, Segments

(* Every position of the expansion is an offset in a segment,              *)
LEMMA PositionAt ==
    ASSUME NEW s \in 0..(Segments - 1), NEW k \in Offsets
    PROVE  /\ At(s, k) \in 1..TotalCells
           /\ (At(s, k) - 1) \div FamilyLength = s
           /\ (At(s, k) - 1) % FamilyLength = k
<1>1. /\ s \in Nat /\ k \in Nat /\ k <= FamilyLength - 1 /\ s < Segments
      /\ FamilyLength \in Nat \ {0} /\ Segments \in Nat
      /\ TotalCells = Segments * FamilyLength
  BY Sizes DEF Offsets
<1>2. s * FamilyLength \in Nat /\ s * FamilyLength + FamilyLength <= Segments * FamilyLength
  BY <1>1, MultiplesApart
<1>3. At(s, k) - 1 = s * FamilyLength + k
  BY <1>1, <1>2 DEF At
<1>4. /\ (s * FamilyLength + k) \div FamilyLength = s
      /\ (s * FamilyLength + k) % FamilyLength = k
  BY <1>1, DivisionUnique DEF Offsets
<1>5. At(s, k) \in 1..TotalCells
  BY <1>1, <1>2 DEF At
<1> QED
  BY <1>3, <1>4, <1>5

(* and of one only, in the order of the segments.                          *)
LEMMA PositionOf ==
    ASSUME NEW i \in 1..TotalCells
    PROVE  \E s \in 0..(Segments - 1), k \in Offsets : i = At(s, k)
<1> DEFINE s == (i - 1) \div FamilyLength
           k == (i - 1) % FamilyLength
<1>1. /\ i - 1 \in Nat /\ FamilyLength \in Nat \ {0} /\ Segments \in Nat
      /\ i - 1 < Segments * FamilyLength
  BY Sizes
<1>2. s \in Nat /\ k \in Offsets /\ i - 1 = s * FamilyLength + k
  BY <1>1, Division DEF Offsets
<1>3. s < Segments
  BY <1>1, QuotientBelow
<1> HIDE DEF s, k
<1>4. s \in 0..(Segments - 1) /\ i = At(s, k)
  <2>1. k \in Nat /\ s * FamilyLength \in Nat
    BY <1>1, <1>2 DEF Offsets
  <2> QED
    BY <1>1, <1>2, <1>3, <2>1 DEF At
<1> QED
  BY <1>2, <1>4

LEMMA SegmentsInOrder ==
    ASSUME NEW s \in 0..(Segments - 1), NEW k \in Offsets,
           NEW t \in 0..(Segments - 1), NEW l \in Offsets
    PROVE  /\ s < t => At(s, k) < At(t, l)
           /\ s = t => (At(s, k) < At(t, l) <=> k < l)
<1>1. /\ s \in Nat /\ t \in Nat /\ k \in Nat /\ l \in Nat /\ k <= FamilyLength - 1
      /\ FamilyLength \in Nat \ {0}
  BY Sizes DEF Offsets
<1>2. ASSUME s < t PROVE At(s, k) < At(t, l)
  <2>1. /\ s * FamilyLength \in Nat /\ t * FamilyLength \in Nat
        /\ s * FamilyLength + FamilyLength <= t * FamilyLength
    BY <1>1, <1>2, MultiplesApart
  <2> QED
    BY <1>1, <2>1 DEF At
<1>3. ASSUME s = t PROVE At(s, k) < At(t, l) <=> k < l
  <2>1. s * FamilyLength \in Nat
    BY <1>1
  <2> QED
    BY <1>1, <1>3, <2>1 DEF At
<1> QED
  BY <1>2, <1>3

(* A segment is a block and a family, and of one of each only.             *)
LEMMA SegmentAt ==
    ASSUME NEW b \in 1..Len(BlockOrder), NEW f \in 1..Len(FamilyOrder)
    PROVE  /\ Segment(b, f) \in 0..(Segments - 1)
           /\ 1 + (Segment(b, f) \div Len(FamilyOrder)) = b
           /\ 1 + (Segment(b, f) % Len(FamilyOrder)) = f
<1> DEFINE F == Len(FamilyOrder)
           B == Len(BlockOrder)
<1>1. F \in Nat \ {0} /\ B \in Nat \ {0} /\ Segments = B * F
  BY Lists DEF Segments
<1>2. b \in 1..B /\ f \in 1..F
  OBVIOUS
<1>3. Segment(b, f) = (b - 1) * F + (f - 1)
  BY DEF Segment
<1> HIDE DEF F, B
<1>4. b - 1 \in Nat /\ f - 1 \in 0..(F - 1) /\ b - 1 < B
  BY <1>1, <1>2
<1>5. (b - 1) * F \in Nat /\ (b - 1) * F + F <= B * F
  BY <1>1, <1>4, MultiplesApart
<1>6. Segment(b, f) \in 0..(Segments - 1)
  BY <1>1, <1>3, <1>4, <1>5
<1>7. Segment(b, f) \div F = b - 1 /\ Segment(b, f) % F = f - 1
  <2>1. ASSUME NEW q \in Nat, NEW r \in 0..(F - 1)
        PROVE  (q * F + r) \div F = q /\ (q * F + r) % F = r
    BY <1>1, DivisionUnique
  <2> QED
    BY <1>3, <1>4, <2>1
<1>8. 1 + (Segment(b, f) \div F) = b /\ 1 + (Segment(b, f) % F) = f
  BY <1>2, <1>7
<1> QED
  BY <1>6, <1>8 DEF F

LEMMA SegmentOf ==
    ASSUME NEW s \in 0..(Segments - 1)
    PROVE  \E b \in 1..Len(BlockOrder), f \in 1..Len(FamilyOrder) : s = Segment(b, f)
<1> DEFINE F == Len(FamilyOrder)
           B == Len(BlockOrder)
           q == s \div F
           r == s % F
<1>1. F \in Nat \ {0} /\ B \in Nat \ {0} /\ Segments = B * F
  BY Lists DEF Segments
<1>2. s \in Nat /\ s < B * F
  BY <1>1
<1>3. q \in Nat /\ r \in 0..(F - 1) /\ s = q * F + r
  BY <1>1, <1>2, Division
<1>4. q < B
  BY <1>1, <1>2, QuotientBelow
<1> HIDE DEF q, r
<1> HIDE DEF F, B
<1>5. q + 1 \in 1..B /\ r + 1 \in 1..F
  BY <1>1, <1>3, <1>4
<1>6. PICK b \in 1..B, f \in 1..F : b = q + 1 /\ f = r + 1
  BY <1>5
<1>7. b - 1 = q /\ f - 1 = r
  BY <1>3, <1>6
<1>8. s = Segment(b, f)
  BY <1>3, <1>7 DEF Segment, F
<1> QED
  BY <1>8 DEF F, B

-----------------------------------------------------------------------------
(* The cells of one segment.                                               *)
LEMMA Vocabulary ==
    /\ Range(AcqEvents) = {"T0", "T1", "PROMOTION", "CAPABILITY_LOCK"}
    /\ AcqEvents[1] = "T0" /\ AcqEvents[2] = "T1"
    /\ AcqEvents[3] = "PROMOTION" /\ AcqEvents[4] = "CAPABILITY_LOCK"
    /\ Range(CapUniverses) = {"A", "C"} /\ CapUniverses[1] = "A" /\ CapUniverses[2] = "C"
    /\ Tasks \subseteq {"T2", "T3", "T4"}
<1>1. /\ DOMAIN AcqEvents = {1, 2, 3, 4} /\ DOMAIN CapUniverses = {1, 2}
      /\ AcqEvents[1] = "T0" /\ AcqEvents[2] = "T1"
      /\ AcqEvents[3] = "PROMOTION" /\ AcqEvents[4] = "CAPABILITY_LOCK"
      /\ CapUniverses[1] = "A" /\ CapUniverses[2] = "C"
  BY DEF AcqEvents, CapUniverses
<1>2. Range(AcqEvents) = {AcqEvents[1], AcqEvents[2], AcqEvents[3], AcqEvents[4]}
  BY <1>1 DEF Range
<1>3. Range(CapUniverses) = {CapUniverses[1], CapUniverses[2]}
  BY <1>1 DEF Range
<1>4. Tasks \subseteq {"T2", "T3", "T4"}
  BY OrderFactsAssumption DEF Tasks, Range
<1> QED
  BY <1>1, <1>2, <1>3, <1>4

(* Offsets 0 to 7: A's four acquisition events, then C's.                  *)
AcqOffset(k, e, u) == AcqEvents[1 + (k % 4)] = e /\ CapUniverses[1 + (k \div 4)] = u

LEMMA AcqOffsets ==
    /\ \A k \in 0..7 : \E e \in Range(AcqEvents), u \in Range(CapUniverses) :
          AcqOffset(k, e, u)
    /\ \A e \in Range(AcqEvents), u \in Range(CapUniverses) :
          \E k \in 0..7 : AcqOffset(k, e, u)
    /\ \A k, l \in 0..7 : \A e, u : AcqOffset(k, e, u) /\ AcqOffset(l, e, u) => k = l
<1>1. /\ AcqOffset(0, "T0", "A") /\ AcqOffset(1, "T1", "A")
      /\ AcqOffset(2, "PROMOTION", "A") /\ AcqOffset(3, "CAPABILITY_LOCK", "A")
      /\ AcqOffset(4, "T0", "C") /\ AcqOffset(5, "T1", "C")
      /\ AcqOffset(6, "PROMOTION", "C") /\ AcqOffset(7, "CAPABILITY_LOCK", "C")
  BY Vocabulary DEF AcqOffset
<1>2. \A k \in 0..7 : k \in {0, 1, 2, 3, 4, 5, 6, 7}
  OBVIOUS
<1>3. \A k, e, u, x, y : AcqOffset(k, e, u) /\ AcqOffset(k, x, y) => e = x /\ u = y
  BY DEF AcqOffset
<1>4. \A k \in 0..7 : \E e \in Range(AcqEvents), u \in Range(CapUniverses) :
          AcqOffset(k, e, u)
  BY <1>1, <1>2, Vocabulary
<1>5. \A e \in Range(AcqEvents), u \in Range(CapUniverses) :
          \E k \in 0..7 : AcqOffset(k, e, u)
  BY <1>1, Vocabulary
<1>6. ASSUME NEW k \in 0..7, NEW l \in 0..7, NEW e, NEW u,
             AcqOffset(k, e, u), AcqOffset(l, e, u)
      PROVE  k = l
  BY <1>1, <1>2, <1>3, <1>6
<1> QED
  BY <1>4, <1>5, <1>6

(* The others: every downstream task in its four arms.                     *)
DownOffset(letters, b, f, k, t, u) ==
    /\ Downstream[1 + ((k - 8) \div 4)] = t
    /\ letters[<<b, f, t>>][1 + ((k - 8) % 4)] = u

LEMMA DownIndex ==
    ASSUME NEW k \in 8..(FamilyLength - 1)
    PROVE  /\ 1 + ((k - 8) \div 4) \in 1..Len(Downstream)
           /\ 1 + ((k - 8) % 4) \in 1..4
           /\ k = 8 + 4 * ((k - 8) \div 4) + ((k - 8) % 4)
<1>1. Len(Downstream) \in Nat /\ FamilyLength = 8 + 4 * Len(Downstream)
  BY Lists, Sizes
<1> QED
  BY <1>1

LEMMA DownOffsets ==
    ASSUME NEW letters \in OrderTexts, NEW b \in Blocks, NEW f \in Families
    PROVE  /\ \A k \in 8..(FamilyLength - 1) : \E t \in Tasks, u \in ArmLetters :
                 DownOffset(letters, b, f, k, t, u)
           /\ \A t \in Tasks, u \in ArmLetters : \E k \in 8..(FamilyLength - 1) :
                 DownOffset(letters, b, f, k, t, u)
           /\ \A k, l \in 8..(FamilyLength - 1), t \in Tasks : \A u :
                 DownOffset(letters, b, f, k, t, u) /\ DownOffset(letters, b, f, l, t, u)
                    => k = l
<1>1. ASSUME NEW t \in Tasks
      PROVE  letters[<<b, f, t>>] \in ArmSequences
  <2>1. <<b, f, t>> \in Blocks \X Families \X Tasks
    OBVIOUS
  <2> QED
    BY <2>1 DEF OrderTexts
<1>2. ASSUME NEW s \in ArmSequences
      PROVE  /\ \A i \in 1..4 : s[i] \in ArmLetters
             /\ \A u \in ArmLetters : \E i \in 1..4 : s[i] = u
             /\ \A i, j \in 1..4 : s[i] = s[j] => i = j
  <2>1. /\ s \in [1..4 -> ArmLetters] /\ {s[i] : i \in 1..4} = ArmLetters
    BY DEF ArmSequences, Range
  <2>2. \A u \in ArmLetters : \E i \in 1..4 : s[i] = u
    BY <2>1
  <2>3. 1..4 = {1, 2, 3, 4}
    OBVIOUS
  <2>4. \A u \in {"A", "B", "C", "D"} : u = s[1] \/ u = s[2] \/ u = s[3] \/ u = s[4]
    BY <2>2, <2>3 DEF ArmLetters
  <2>5. /\ s[1] # s[2] /\ s[1] # s[3] /\ s[1] # s[4]
        /\ s[2] # s[3] /\ s[2] # s[4] /\ s[3] # s[4]
    BY <2>4
  <2>6. \A i, j \in 1..4 : s[i] = s[j] => i = j
    BY <2>3, <2>5
  <2> QED
    BY <2>1, <2>2, <2>6
<1>3. ASSUME NEW k \in 8..(FamilyLength - 1)
      PROVE  \E t \in Tasks, u \in ArmLetters : DownOffset(letters, b, f, k, t, u)
  <2>1. Downstream[1 + ((k - 8) \div 4)] \in Tasks
    BY DownIndex, Lists
  <2>2. letters[<<b, f, Downstream[1 + ((k - 8) \div 4)]>>][1 + ((k - 8) % 4)] \in ArmLetters
    BY <1>1, <1>2, <2>1, DownIndex
  <2> QED
    BY <2>1, <2>2 DEF DownOffset
<1>4. ASSUME NEW t \in Tasks, NEW u \in ArmLetters
      PROVE  \E k \in 8..(FamilyLength - 1) : DownOffset(letters, b, f, k, t, u)
  <2>1. PICK i \in 1..Len(Downstream) : Downstream[i] = t
    BY Lists
  <2>2. PICK a \in 1..4 : letters[<<b, f, t>>][a] = u
    BY <1>1, <1>2
  <2>3. PICK k : k = 8 + 4 * (i - 1) + (a - 1)
    OBVIOUS
  <2>4. Len(Downstream) \in Nat /\ FamilyLength = 8 + 4 * Len(Downstream)
    BY Lists, Sizes
  <2>5. /\ k \in 8..(FamilyLength - 1)
        /\ 1 + ((k - 8) \div 4) = i /\ 1 + ((k - 8) % 4) = a
    BY <2>3, <2>4
  <2> QED
    BY <2>1, <2>2, <2>5 DEF DownOffset
<1>5. ASSUME NEW k \in 8..(FamilyLength - 1), NEW l \in 8..(FamilyLength - 1),
             NEW t \in Tasks, NEW u,
             DownOffset(letters, b, f, k, t, u), DownOffset(letters, b, f, l, t, u)
      PROVE  k = l
  <2>1. 1 + ((k - 8) \div 4) = 1 + ((l - 8) \div 4)
    BY <1>5, DownIndex, Lists DEF DownOffset
  <2>2. 1 + ((k - 8) % 4) = 1 + ((l - 8) % 4)
    BY <1>1, <1>2, <1>5, DownIndex DEF DownOffset
  <2> QED
    BY <2>1, <2>2
<1> QED
  BY <1>3, <1>4, <1>5

(* What an offset of a segment stands for, both halves together.           *)
IsKey(e, u) == \/ e \in Range(AcqEvents) /\ u \in Range(CapUniverses)
               \/ e \in Tasks /\ u \in ArmLetters

StandsFor(letters, b, f, k, e, u) ==
    IF k < 8 THEN AcqOffset(k, e, u) ELSE DownOffset(letters, b, f, k, e, u)

LEMMA FamilyCellIs ==
    ASSUME NEW letters, NEW b, NEW f, NEW k, NEW e, NEW u,
           StandsFor(letters, b, f, k, e, u)
    PROVE  FamilyCell(letters, b, f, k) = CellOf(b, f, e, u)
<1>1. AcqLength = 8
  BY Sizes
<1>2. CASE k < 8
  BY <1>1, <1>2 DEF StandsFor, AcqOffset, FamilyCell
<1>3. CASE ~(k < 8)
  BY <1>1, <1>3 DEF StandsFor, DownOffset, FamilyCell
<1> QED
  BY <1>2, <1>3

LEMMA OffsetKeys ==
    ASSUME NEW letters \in OrderTexts, NEW b \in Blocks, NEW f \in Families
    PROVE  /\ \A k \in Offsets : \E e, u : IsKey(e, u) /\ StandsFor(letters, b, f, k, e, u)
           /\ \A e, u : IsKey(e, u) => \E k \in Offsets : StandsFor(letters, b, f, k, e, u)
           /\ \A k, l \in Offsets : \A e, u :
                 /\ IsKey(e, u)
                 /\ StandsFor(letters, b, f, k, e, u) /\ StandsFor(letters, b, f, l, e, u)
                 => k = l
           /\ \A k \in Offsets : \A e, u :
                 StandsFor(letters, b, f, k, e, u) /\ IsKey(e, u)
                    => (k < 8 <=> e \in Range(AcqEvents))
<1>1. /\ Offsets = (0..7) \cup (8..(FamilyLength - 1))
      /\ \A k \in 0..7 : k < 8
      /\ \A k \in 8..(FamilyLength - 1) : ~(k < 8)
  <2>1. FamilyLength \in Nat /\ FamilyLength >= 8
    <3>1. Len(Downstream) \in Nat
      BY Lists
    <3> QED
      BY <3>1, Sizes
  <2>2. \A k : k \in Offsets <=> k \in 0..7 \/ k \in 8..(FamilyLength - 1)
    BY <2>1 DEF Offsets
  <2>3. /\ \A k \in 0..7 : k < 8
        /\ \A k \in 8..(FamilyLength - 1) : ~(k < 8)
    BY <2>1
  <2> QED
    BY <2>2, <2>3
<1>2. Tasks \cap Range(AcqEvents) = {}
  BY Vocabulary
<1>3. ASSUME NEW k \in 0..7, NEW e, NEW u
      PROVE  StandsFor(letters, b, f, k, e, u) <=> AcqOffset(k, e, u)
  BY <1>1 DEF StandsFor
<1>4. ASSUME NEW k \in 8..(FamilyLength - 1), NEW e, NEW u
      PROVE  StandsFor(letters, b, f, k, e, u) <=> DownOffset(letters, b, f, k, e, u)
  BY <1>1 DEF StandsFor
<1>5. ASSUME NEW k \in 0..7, NEW e, NEW u, AcqOffset(k, e, u)
      PROVE  e \in Range(AcqEvents)
  BY <1>5, AcqOffsets DEF AcqOffset
<1>6. ASSUME NEW k \in 8..(FamilyLength - 1), NEW e, NEW u,
             DownOffset(letters, b, f, k, e, u)
      PROVE  e \in Tasks
  BY <1>6, DownIndex, Lists DEF DownOffset
<1>7. \A k \in Offsets : \E e, u : IsKey(e, u) /\ StandsFor(letters, b, f, k, e, u)
  BY <1>1, <1>3, <1>4, AcqOffsets, DownOffsets DEF IsKey
<1>8. \A e, u : IsKey(e, u) => \E k \in Offsets : StandsFor(letters, b, f, k, e, u)
  BY <1>1, <1>3, <1>4, AcqOffsets, DownOffsets DEF IsKey
<1>9. \A k \in Offsets : \A e, u :
         StandsFor(letters, b, f, k, e, u) /\ IsKey(e, u)
            => (k < 8 <=> e \in Range(AcqEvents))
  BY <1>1, <1>2, <1>3, <1>4, <1>5, <1>6
<1>10. ASSUME NEW k \in Offsets, NEW l \in Offsets, NEW e, NEW u, IsKey(e, u),
              StandsFor(letters, b, f, k, e, u), StandsFor(letters, b, f, l, e, u)
       PROVE  k = l
  <2>1. CASE k \in 0..7
    <3>1. l \in 0..7
      BY <1>1, <1>9, <1>10, <2>1
    <3> QED
      BY <1>3, <1>10, <2>1, <3>1, AcqOffsets
  <2>2. CASE k \in 8..(FamilyLength - 1)
    <3>1. l \in 8..(FamilyLength - 1)
      BY <1>1, <1>9, <1>10, <2>2
    <3>2. e \in Tasks
      BY <1>4, <1>6, <1>10, <2>2
    <3> QED
      BY <1>4, <1>10, <2>2, <3>1, <3>2, DownOffsets
  <2> QED
    BY <1>1, <2>1, <2>2
<1> QED
  BY <1>7, <1>8, <1>9, <1>10

-----------------------------------------------------------------------------
(* The expansion of an order text: where each cell stands,                 *)
Placed(letters, i, b, f, k, e, u) ==
    /\ i = At(Segment(b, f), k) /\ IsKey(e, u)
    /\ StandsFor(letters, BlockOrder[b], FamilyOrder[f], k, e, u)

LEMMA CellAt ==
    ASSUME NEW letters \in OrderTexts,
           NEW b \in 1..Len(BlockOrder), NEW f \in 1..Len(FamilyOrder), NEW k \in Offsets,
           NEW i, NEW e, NEW u, Placed(letters, i, b, f, k, e, u)
    PROVE  /\ i \in 1..TotalCells
           /\ Expand(letters)[i] = CellOf(BlockOrder[b], FamilyOrder[f], e, u)
<1> DEFINE s == Segment(b, f)
           seg == (i - 1) \div FamilyLength
<1>1. /\ s \in 0..(Segments - 1)
      /\ 1 + (s \div Len(FamilyOrder)) = b /\ 1 + (s % Len(FamilyOrder)) = f
  BY SegmentAt
<1>2. i \in 1..TotalCells /\ seg = s /\ (i - 1) % FamilyLength = k
  BY <1>1, PositionAt DEF Placed
<1>3. Expand(letters)[i] =
         FamilyCell(letters, BlockOrder[1 + (seg \div Len(FamilyOrder))],
                    FamilyOrder[1 + (seg % Len(FamilyOrder))], (i - 1) % FamilyLength)
  BY <1>2 DEF Expand
<1> HIDE DEF s, seg
<1>4. Expand(letters)[i] = FamilyCell(letters, BlockOrder[b], FamilyOrder[f], k)
  BY <1>1, <1>2, <1>3
<1> QED
  BY <1>2, <1>4, FamilyCellIs DEF Placed

LEMMA CellPlaced ==
    ASSUME NEW letters \in OrderTexts, NEW i \in 1..TotalCells
    PROVE  \E b \in 1..Len(BlockOrder), f \in 1..Len(FamilyOrder), k \in Offsets : \E e, u :
              /\ Placed(letters, i, b, f, k, e, u)
              /\ Expand(letters)[i] = CellOf(BlockOrder[b], FamilyOrder[f], e, u)
<1>1. PICK s \in 0..(Segments - 1), k \in Offsets : i = At(s, k)
  BY PositionOf
<1>2. PICK b \in 1..Len(BlockOrder), f \in 1..Len(FamilyOrder) : s = Segment(b, f)
  BY SegmentOf
<1>3. PICK e, u : /\ IsKey(e, u)
                  /\ StandsFor(letters, BlockOrder[b], FamilyOrder[f], k, e, u)
  BY Lists, OffsetKeys
<1>4. Placed(letters, i, b, f, k, e, u)
  BY <1>1, <1>2, <1>3 DEF Placed
<1> QED
  BY <1>4, CellAt

(* what its fields are,                                                    *)
CellFields(c, b, f, e, u) ==
    /\ c.block = b /\ c.family = f /\ c.event = e /\ c.universe = u
    /\ c.lane = Consumer(b, u)
    /\ e \in Range(AcqEvents) => /\ c.kind \in {"acquisition-solve", "harness-event"}
                                 /\ c.arm \in {"acquisition", "harness"}
    /\ e \in Tasks => /\ c.kind = "model-call"
                      /\ c.arm = IF CarriesCapability(u) THEN "correct" ELSE "disabled"
    /\ c.kind = "model-call" <=> e \in Tasks
    /\ c \in [block : Blocks, family : Families,
              event : Range(AcqEvents) \cup Tasks, universe : ArmLetters,
              kind : {"acquisition-solve", "harness-event", "model-call"},
              lane : Lanes, arm : Arms \cup {"acquisition", "harness"}]

LEMMA CellOfFields ==
    ASSUME NEW b \in Blocks, NEW f \in Families, NEW e, NEW u, IsKey(e, u)
    PROVE  CellFields(CellOf(b, f, e, u), b, f, e, u)
<1> DEFINE kind == EventKind(e)
           arm == CASE kind = "acquisition-solve" -> "acquisition"
                    [] kind = "harness-event"     -> "harness"
                    [] kind = "model-call"        ->
                           IF CarriesCapability(u) THEN "correct" ELSE "disabled"
           c == [block |-> b, family |-> f, event |-> e, universe |-> u,
                 kind |-> kind, lane |-> Consumer(b, u), arm |-> arm]
<1>1. CellOf(b, f, e, u) = c
  BY DEF CellOf
<1>2. /\ e \in Range(AcqEvents) => kind \in {"acquisition-solve", "harness-event"}
      /\ e \in Tasks => kind = "model-call"
  BY Vocabulary DEF EventKind
<1>3. /\ e \in Range(AcqEvents) => arm \in {"acquisition", "harness"}
      /\ e \in Tasks => arm = IF CarriesCapability(u) THEN "correct" ELSE "disabled"
  <2>1. kind = "acquisition-solve" => arm = "acquisition"
    OBVIOUS
  <2>2. kind = "harness-event" => arm = "harness"
    OBVIOUS
  <2>3. kind = "model-call" => arm = IF CarriesCapability(u) THEN "correct" ELSE "disabled"
    OBVIOUS
  <2> HIDE DEF kind, arm
  <2> QED
    BY <1>2, <2>1, <2>2, <2>3
<1> HIDE DEF kind, arm
<1>4. Consumer(b, u) \in Lanes
  BY DEF Consumer, Producer, OtherLane, Lanes
<1>5. /\ e \in Range(AcqEvents) \cup Tasks /\ u \in ArmLetters
      /\ e \in Range(AcqEvents) => e \notin Tasks
  BY Vocabulary DEF IsKey, ArmLetters
<1>6. arm \in Arms \cup {"acquisition", "harness"}
  BY <1>3, <1>5 DEF Arms
<1>7. kind \in {"acquisition-solve", "harness-event", "model-call"}
  BY <1>2, <1>5
<1>8. c \in [block : Blocks, family : Families,
             event : Range(AcqEvents) \cup Tasks, universe : ArmLetters,
             kind : {"acquisition-solve", "harness-event", "model-call"},
             lane : Lanes, arm : Arms \cup {"acquisition", "harness"}]
  BY <1>4, <1>5, <1>6, <1>7
<1>9. /\ c.block = b /\ c.family = f /\ c.event = e /\ c.universe = u
      /\ c.kind = kind /\ c.lane = Consumer(b, u) /\ c.arm = arm
  OBVIOUS
<1> HIDE DEF c
<1>10. c.kind = "model-call" <=> e \in Tasks
  BY <1>2, <1>5, <1>9
<1> QED
  BY <1>1, <1>2, <1>3, <1>8, <1>9, <1>10 DEF CellFields

(* A cell's place and its fields at once.                                  *)
LEMMA CellKnown ==
    ASSUME NEW letters \in OrderTexts, NEW i \in 1..TotalCells
    PROVE  \E b \in 1..Len(BlockOrder), f \in 1..Len(FamilyOrder), k \in Offsets : \E e, u :
              /\ Placed(letters, i, b, f, k, e, u)
              /\ CellFields(Expand(letters)[i], BlockOrder[b], FamilyOrder[f], e, u)
<1>a. PICK b \in 1..Len(BlockOrder), f \in 1..Len(FamilyOrder), k \in Offsets : \E e, u :
           /\ Placed(letters, i, b, f, k, e, u)
           /\ Expand(letters)[i] = CellOf(BlockOrder[b], FamilyOrder[f], e, u)
  BY CellPlaced
<1>1. PICK e, u :
         /\ Placed(letters, i, b, f, k, e, u)
         /\ Expand(letters)[i] = CellOf(BlockOrder[b], FamilyOrder[f], e, u)
  BY <1>a
<1>2. IsKey(e, u) /\ BlockOrder[b] \in Blocks /\ FamilyOrder[f] \in Families
  BY <1>1, Lists DEF Placed
<1> QED
  BY <1>1, <1>2, CellOfFields

(* that every cell asked for stands somewhere,                             *)
LEMMA CellFor ==
    ASSUME NEW letters \in OrderTexts, NEW b \in Blocks, NEW f \in Families,
           NEW e, NEW u, IsKey(e, u)
    PROVE  \E i \in 1..TotalCells : CellFields(Expand(letters)[i], b, f, e, u)
<1>1. PICK x \in 1..Len(BlockOrder), y \in 1..Len(FamilyOrder) :
         BlockOrder[x] = b /\ FamilyOrder[y] = f
  BY Lists
<1>2. PICK k \in Offsets : StandsFor(letters, b, f, k, e, u)
  BY OffsetKeys
<1>3. Placed(letters, At(Segment(x, y), k), x, y, k, e, u)
  BY <1>1, <1>2 DEF Placed
<1> QED
  BY <1>1, <1>3, CellAt, CellOfFields

(* only once,                                                              *)
SameFamily(c, d) == c.block = d.block /\ c.family = d.family

LEMMA CellOnce ==
    ASSUME NEW letters \in OrderTexts, NEW i \in 1..TotalCells, NEW j \in 1..TotalCells,
           SameFamily(Expand(letters)[i], Expand(letters)[j]),
           Expand(letters)[i].event = Expand(letters)[j].event,
           Expand(letters)[i].universe = Expand(letters)[j].universe
    PROVE  i = j
<1>a. PICK b \in 1..Len(BlockOrder), f \in 1..Len(FamilyOrder), k \in Offsets : \E e, u :
           /\ Placed(letters, i, b, f, k, e, u)
           /\ CellFields(Expand(letters)[i], BlockOrder[b], FamilyOrder[f], e, u)
  BY CellKnown
<1>1. PICK e, u :
         /\ Placed(letters, i, b, f, k, e, u)
         /\ CellFields(Expand(letters)[i], BlockOrder[b], FamilyOrder[f], e, u)
  BY <1>a
<1>b. PICK b2 \in 1..Len(BlockOrder), f2 \in 1..Len(FamilyOrder), k2 \in Offsets : \E e2, u2 :
           /\ Placed(letters, j, b2, f2, k2, e2, u2)
           /\ CellFields(Expand(letters)[j], BlockOrder[b2], FamilyOrder[f2], e2, u2)
  BY CellKnown
<1>2. PICK e2, u2 :
         /\ Placed(letters, j, b2, f2, k2, e2, u2)
         /\ CellFields(Expand(letters)[j], BlockOrder[b2], FamilyOrder[f2], e2, u2)
  BY <1>b
<1>3. b = b2 /\ f = f2 /\ e = e2 /\ u = u2
  <2>1. /\ BlockOrder[b] = BlockOrder[b2] /\ FamilyOrder[f] = FamilyOrder[f2]
        /\ e = e2 /\ u = u2
    BY <1>1, <1>2 DEF CellFields, SameFamily
  <2> QED
    BY <2>1, Lists
<1>4. BlockOrder[b] \in Blocks /\ FamilyOrder[f] \in Families
  BY Lists
<1>5. k = k2
  BY <1>1, <1>2, <1>3, <1>4, OffsetKeys DEF Placed
<1> QED
  BY <1>1, <1>2, <1>3, <1>5 DEF Placed

(* the acquisition of a family before its downstream tasks,                *)
LEMMA AcquisitionFirst ==
    ASSUME NEW letters \in OrderTexts, NEW i \in 1..TotalCells, NEW j \in 1..TotalCells,
           SameFamily(Expand(letters)[i], Expand(letters)[j]),
           Expand(letters)[i].kind = "model-call",
           Expand(letters)[j].event \in Range(AcqEvents)
    PROVE  j < i
<1>a. PICK b \in 1..Len(BlockOrder), f \in 1..Len(FamilyOrder), k \in Offsets : \E e, u :
           /\ Placed(letters, i, b, f, k, e, u)
           /\ CellFields(Expand(letters)[i], BlockOrder[b], FamilyOrder[f], e, u)
  BY CellKnown
<1>1. PICK e, u :
         /\ Placed(letters, i, b, f, k, e, u)
         /\ CellFields(Expand(letters)[i], BlockOrder[b], FamilyOrder[f], e, u)
  BY <1>a
<1>b. PICK b2 \in 1..Len(BlockOrder), f2 \in 1..Len(FamilyOrder), k2 \in Offsets : \E e2, u2 :
           /\ Placed(letters, j, b2, f2, k2, e2, u2)
           /\ CellFields(Expand(letters)[j], BlockOrder[b2], FamilyOrder[f2], e2, u2)
  BY CellKnown
<1>2. PICK e2, u2 :
         /\ Placed(letters, j, b2, f2, k2, e2, u2)
         /\ CellFields(Expand(letters)[j], BlockOrder[b2], FamilyOrder[f2], e2, u2)
  BY <1>b
<1>3. b = b2 /\ f = f2
  <2>1. BlockOrder[b] = BlockOrder[b2] /\ FamilyOrder[f] = FamilyOrder[f2]
    BY <1>1, <1>2 DEF CellFields, SameFamily
  <2> QED
    BY <2>1, Lists
<1>4. BlockOrder[b] \in Blocks /\ FamilyOrder[f] \in Families
  BY Lists
<1>5. e \in Tasks /\ e \notin Range(AcqEvents) /\ e2 \in Range(AcqEvents)
  BY <1>1, <1>2, Vocabulary DEF CellFields
<1>6. k2 < 8 /\ ~(k < 8)
  BY <1>1, <1>2, <1>3, <1>4, <1>5, OffsetKeys DEF Placed
<1>7. k2 < k
  BY <1>6, Sizes DEF Offsets
<1>8. Segment(b, f) \in 0..(Segments - 1) /\ i = At(Segment(b, f), k)
      /\ j = At(Segment(b, f), k2)
  BY <1>1, <1>2, <1>3, SegmentAt DEF Placed
<1> QED
  BY <1>7, <1>8, SegmentsInOrder

(* and no family broken off by another.                                    *)
LEMMA FamiliesContiguous ==
    ASSUME NEW letters \in OrderTexts, NEW i \in 1..TotalCells, NEW j \in 1..TotalCells,
           NEW k \in 1..TotalCells, i < j,
           ~SameFamily(Expand(letters)[i], Expand(letters)[j]),
           SameFamily(Expand(letters)[i], Expand(letters)[k])
    PROVE  k < j
<1> DEFINE B == 1..Len(BlockOrder)
           F == 1..Len(FamilyOrder)
<1>1. ASSUME NEW m \in 1..TotalCells
      PROVE  \E b \in B, f \in F, o \in Offsets :
                /\ m = At(Segment(b, f), o)
                /\ Expand(letters)[m].block = BlockOrder[b]
                /\ Expand(letters)[m].family = FamilyOrder[f]
  BY CellKnown DEF Placed, CellFields
<1>2. PICK bi \in B, fi \in F, oi \in Offsets :
         /\ i = At(Segment(bi, fi), oi)
         /\ Expand(letters)[i].block = BlockOrder[bi]
         /\ Expand(letters)[i].family = FamilyOrder[fi]
  BY <1>1
<1>3. PICK bj \in B, fj \in F, oj \in Offsets :
         /\ j = At(Segment(bj, fj), oj)
         /\ Expand(letters)[j].block = BlockOrder[bj]
         /\ Expand(letters)[j].family = FamilyOrder[fj]
  BY <1>1
<1>4. PICK bk \in B, fk \in F, ok \in Offsets :
         /\ k = At(Segment(bk, fk), ok)
         /\ Expand(letters)[k].block = BlockOrder[bk]
         /\ Expand(letters)[k].family = FamilyOrder[fk]
  BY <1>1
<1>5. bk = bi /\ fk = fi
  BY <1>2, <1>4, Lists DEF SameFamily
<1>6. ~(bi = bj /\ fi = fj)
  BY <1>2, <1>3 DEF SameFamily
<1>7. Segment(bi, fi) \in 0..(Segments - 1) /\ Segment(bj, fj) \in 0..(Segments - 1)
  BY SegmentAt
<1>8. Segment(bi, fi) # Segment(bj, fj)
  BY <1>6, SegmentAt
<1>9. Segment(bi, fi) < Segment(bj, fj)
  <2>1. ~(Segment(bj, fj) < Segment(bi, fi))
    <3>1. ~(j < i)
      OBVIOUS
    <3> QED
      BY <1>2, <1>3, <1>7, <3>1, SegmentsInOrder
  <2> QED
    BY <1>7, <1>8, <2>1, Sizes
<1> QED
  BY <1>3, <1>4, <1>5, <1>7, <1>9, SegmentsInOrder

-----------------------------------------------------------------------------
(* What a request resolves to.                                             *)
LEMMA FirstOfOne ==
    ASSUME NEW S, NEW i, S = {i}, i \in Int
    PROVE  FirstIn(S) = i
BY DEF FirstIn

(* In each block a lane and an arm name one universe.                      *)
LEMMA ArmNamesUniverse ==
    ASSUME NEW b \in Blocks, NEW u \in ArmLetters, NEW v \in ArmLetters,
           Consumer(b, u) = Consumer(b, v), CarriesCapability(u) <=> CarriesCapability(v)
    PROVE  u = v
<1>1. OtherLane(Producer(b)) # Producer(b)
  BY DEF OtherLane, Producer
<1> QED
  BY <1>1 DEF Consumer, CarriesCapability, ArmLetters

(* The cells a request matches.                                            *)
CallMatches(cells0, r, i) ==
    /\ cells0[i].kind = "model-call"
    /\ cells0[i].block = r.block /\ cells0[i].family = r.family /\ cells0[i].event = r.task
    /\ cells0[i].lane = r.lane /\ cells0[i].arm = r.arm

EventMatches(cells0, r, i) ==
    /\ cells0[i].block = r.block /\ cells0[i].family = r.family
    /\ cells0[i].event = r.event /\ cells0[i].universe = r.universe

(* A request never matches two,                                            *)
LEMMA CallMatchesOne ==
    ASSUME NEW letters \in OrderTexts, NEW r,
           NEW i \in 1..TotalCells, NEW j \in 1..TotalCells,
           CallMatches(Expand(letters), r, i), CallMatches(Expand(letters), r, j)
    PROVE  i = j
<1> DEFINE c == Expand(letters)[i]
           d == Expand(letters)[j]
<1>1. SameFamily(c, d) /\ c.event = d.event /\ c.lane = d.lane /\ c.arm = d.arm
  BY DEF CallMatches, SameFamily
<1>2. ASSUME NEW m \in 1..TotalCells, Expand(letters)[m].kind = "model-call"
      PROVE  LET x == Expand(letters)[m]
             IN  /\ x.block \in Blocks /\ x.universe \in ArmLetters
                 /\ x.lane = Consumer(x.block, x.universe)
                 /\ x.arm = IF CarriesCapability(x.universe) THEN "correct" ELSE "disabled"
  <2>a. PICK b \in 1..Len(BlockOrder), f \in 1..Len(FamilyOrder), k \in Offsets : \E e, u :
             /\ Placed(letters, m, b, f, k, e, u)
             /\ CellFields(Expand(letters)[m], BlockOrder[b], FamilyOrder[f], e, u)
    BY CellKnown
  <2>1. PICK e, u :
           /\ Placed(letters, m, b, f, k, e, u)
           /\ CellFields(Expand(letters)[m], BlockOrder[b], FamilyOrder[f], e, u)
    BY <2>a
  <2>2. e \in Tasks /\ u \in ArmLetters /\ BlockOrder[b] \in Blocks
    BY <1>2, <2>1, Vocabulary, Lists DEF CellFields, Placed, IsKey
  <2> QED
    BY <2>1, <2>2 DEF CellFields
<1>3. c.kind = "model-call" /\ d.kind = "model-call"
  BY DEF CallMatches
<1>4. /\ c.block \in Blocks /\ c.universe \in ArmLetters /\ d.universe \in ArmLetters
      /\ Consumer(c.block, c.universe) = Consumer(c.block, d.universe)
      /\ CarriesCapability(c.universe) <=> CarriesCapability(d.universe)
  BY <1>1, <1>2, <1>3 DEF SameFamily
<1>5. c.universe = d.universe
  BY <1>4, ArmNamesUniverse
<1> QED
  BY <1>1, <1>5, CellOnce

LEMMA EventMatchesOne ==
    ASSUME NEW letters \in OrderTexts, NEW r,
           NEW i \in 1..TotalCells, NEW j \in 1..TotalCells,
           EventMatches(Expand(letters), r, i), EventMatches(Expand(letters), r, j)
    PROVE  i = j
BY CellOnce DEF EventMatches, SameFamily

(* so it resolves to the cell it matches, or to none.                      *)
LEMMA ResolvedTo ==
    ASSUME NEW S, NEW i, S \subseteq 1..TotalCells,
           \A m, n \in S : m = n
    PROVE  /\ i \in S => FirstIn(S) = i
           /\ FirstIn(S) # NoCell => FirstIn(S) \in S
<1>1. ASSUME NEW m \in S PROVE FirstIn(S) = m
  <2>1. S = {m} /\ m \in Int
    <3>1. TotalCells \in Nat /\ m \in 1..TotalCells
      BY <1>1, Sizes
    <3>2. S = {m}
      <4>1. m \in S /\ \A n \in S : n = m
        BY <1>1
      <4> QED
        BY <4>1
    <3> QED
      BY <3>1, <3>2
  <2> QED
    BY <2>1, FirstOfOne
<1>2. S = {} => FirstIn(S) = NoCell
  BY DEF FirstIn
<1> QED
  BY <1>1, <1>2

LEMMA CallResolved ==
    ASSUME NEW letters \in OrderTexts, NEW r, NEW i \in 1..TotalCells
    PROVE  LET x == ExpectedCell(Expand(letters), r.block, r.family, r.task, r.lane, r.arm)
           IN  /\ CallMatches(Expand(letters), r, i) => x = i
               /\ x # NoCell => x \in 1..TotalCells /\ CallMatches(Expand(letters), r, x)
<1> DEFINE S == {m \in 1..TotalCells : CallMatches(Expand(letters), r, m)}
<1>1. \A m, n \in S : m = n
  BY CallMatchesOne
<1>2. DOMAIN Expand(letters) = 1..TotalCells
  BY DEF Expand
<1>3. ExpectedCell(Expand(letters), r.block, r.family, r.task, r.lane, r.arm) = FirstIn(S)
  BY <1>2 DEF ExpectedCell, CallMatches
<1>4. /\ i \in S => FirstIn(S) = i
      /\ FirstIn(S) # NoCell => FirstIn(S) \in S
  <2>1. S \subseteq 1..TotalCells
    OBVIOUS
  <2> HIDE DEF S
  <2> QED
    BY <1>1, <2>1, ResolvedTo
<1> QED
  BY <1>3, <1>4

LEMMA EventResolved ==
    ASSUME NEW letters \in OrderTexts, NEW r, NEW i \in 1..TotalCells
    PROVE  LET x == ExpectedEvent(Expand(letters), r.block, r.family, r.event, r.universe)
           IN  /\ EventMatches(Expand(letters), r, i) => x = i
               /\ x # NoCell => x \in 1..TotalCells /\ EventMatches(Expand(letters), r, x)
<1> DEFINE S == {m \in 1..TotalCells : EventMatches(Expand(letters), r, m)}
<1>1. \A m, n \in S : m = n
  BY EventMatchesOne
<1>2. DOMAIN Expand(letters) = 1..TotalCells
  BY DEF Expand
<1>3. ExpectedEvent(Expand(letters), r.block, r.family, r.event, r.universe) = FirstIn(S)
  BY <1>2 DEF ExpectedEvent, EventMatches
<1>4. /\ i \in S => FirstIn(S) = i
      /\ FirstIn(S) # NoCell => FirstIn(S) \in S
  <2>1. S \subseteq 1..TotalCells
    OBVIOUS
  <2> HIDE DEF S
  <2> QED
    BY <1>1, <2>1, ResolvedTo
<1> QED
  BY <1>3, <1>4

-----------------------------------------------------------------------------
(* The done set of any walk: a prefix of the expansion of one order text.  *)
Walked(letters, n) == cells = Expand(letters) /\ done = 1..n

Prefix == \E letters \in OrderTexts, n \in 0..TotalCells : Walked(letters, n)

(* Only a cell whose predecessors are all done is granted.                 *)
LEMMA NextOnly ==
    ASSUME NEW n \in 0..TotalCells, NEW i \in 1..TotalCells
    PROVE  OrderDenial(i, 1..n) = "none" <=> i = n + 1
<1>1. i \in Nat /\ n \in Nat /\ i # NoCell
  BY Sizes DEF NoCell
<1>2. Missing(i, 1..n) = {} <=> i <= n + 1
  <2>1. ASSUME i <= n + 1 PROVE Missing(i, 1..n) = {}
    BY <1>1, <2>1 DEF Missing
  <2>2. ASSUME ~(i <= n + 1) PROVE n + 1 \in Missing(i, 1..n)
    BY <1>1, <2>2 DEF Missing
  <2> QED
    BY <2>1, <2>2
<1>3. i \in 1..n <=> i <= n
  BY <1>1
<1>4. OrderDenial(i, 1..n) = "none" <=> ~(i \in 1..n) /\ Missing(i, 1..n) = {}
  BY <1>1 DEF OrderDenial
<1> QED
  BY <1>1, <1>2, <1>3, <1>4

(* A request is granted exactly when it matches the next cell.             *)
LEMMA CallGranted ==
    ASSUME NEW letters \in OrderTexts, NEW n \in 0..TotalCells, Walked(letters, n),
           NEW r \in Calls
    PROVE  /\ CallGrant(r).denial = "none" <=>
                 /\ n + 1 \in 1..TotalCells /\ CallMatches(cells, r, n + 1)
                 /\ r.block \in Blocks /\ r.family \in Families
                 /\ r.task \in Tasks /\ r.arm \in Arms
           /\ CallGrant(r).denial = "none" => CallGrant(r).cell = n + 1
<1> DEFINE x == ExpectedCell(cells, r.block, r.family, r.task, r.lane, r.arm)
           known == /\ r.block \in Blocks /\ r.family \in Families
                    /\ r.task \in Tasks /\ r.arm \in Arms
<1>1. cells = Expand(letters) /\ done = 1..n
  BY DEF Walked
<1>2. /\ \A i \in 1..TotalCells : CallMatches(cells, r, i) => x = i
      /\ TotalCells >= 1 /\ (x # NoCell => x \in 1..TotalCells /\ CallMatches(cells, r, x))
  <2>1. TotalCells \in Nat /\ TotalCells >= 1
    <3>1. 0 \in 0..(Segments - 1) /\ 0 \in Offsets
      BY Sizes DEF Offsets
    <3>2. At(0, 0) \in 1..TotalCells
      BY <3>1, PositionAt
    <3> QED
      BY <3>2, Sizes
  <2>2. 1 \in 1..TotalCells
    BY <2>1
  <2> QED
    BY <1>1, <2>1, <2>2, CallResolved
<1>3. /\ known => CallGrant(r).cell = x /\ CallGrant(r).denial = OrderDenial(x, 1..n)
      /\ ~known => CallGrant(r).denial = "outside-frozen-universe"
  BY <1>1 DEF CallGrant, Authorize
<1> HIDE DEF x, known
<1>4. x = NoCell => OrderDenial(x, 1..n) = "no-authorized-cell"
  BY DEF OrderDenial
<1>5. \A i \in 1..TotalCells : OrderDenial(i, 1..n) = "none" <=> i = n + 1
  BY NextOnly
<1>6. CallGrant(r).denial = "none" <=>
         known /\ n + 1 \in 1..TotalCells /\ CallMatches(cells, r, n + 1)
  BY <1>2, <1>3, <1>4, <1>5
<1>7. CallGrant(r).denial = "none" => CallGrant(r).cell = n + 1
  BY <1>2, <1>3, <1>4, <1>5
<1> QED
  BY <1>6, <1>7 DEF known

LEMMA EventGranted ==
    ASSUME NEW letters \in OrderTexts, NEW n \in 0..TotalCells, Walked(letters, n),
           NEW r \in Events
    PROVE  /\ EventGrant(r).denial = "none" <=>
                 /\ n + 1 \in 1..TotalCells /\ EventMatches(cells, r, n + 1)
                 /\ r.event \in Range(AcqEvents) /\ r.universe \in Range(CapUniverses)
           /\ EventGrant(r).denial = "none" => EventGrant(r).cell = n + 1
<1> DEFINE x == ExpectedEvent(cells, r.block, r.family, r.event, r.universe)
           known == r.event \in Range(AcqEvents) /\ r.universe \in Range(CapUniverses)
<1>1. cells = Expand(letters) /\ done = 1..n
  BY DEF Walked
<1>2. /\ \A i \in 1..TotalCells : EventMatches(cells, r, i) => x = i
      /\ x # NoCell => x \in 1..TotalCells /\ EventMatches(cells, r, x)
  <2>1. TotalCells \in Nat /\ TotalCells >= 1
    <3>1. 0 \in 0..(Segments - 1) /\ 0 \in Offsets
      BY Sizes DEF Offsets
    <3>2. At(0, 0) \in 1..TotalCells
      BY <3>1, PositionAt
    <3> QED
      BY <3>2, Sizes
  <2>2. 1 \in 1..TotalCells
    BY <2>1
  <2> QED
    BY <1>1, <2>2, EventResolved
<1>3. /\ known => EventGrant(r).cell = x /\ EventGrant(r).denial = OrderDenial(x, 1..n)
      /\ ~known => EventGrant(r).denial = "outside-frozen-universe"
  BY <1>1 DEF EventGrant, AuthorizeEvent
<1> HIDE DEF x, known
<1>4. x = NoCell => OrderDenial(x, 1..n) = "no-authorized-cell"
  BY DEF OrderDenial
<1>5. \A i \in 1..TotalCells : OrderDenial(i, 1..n) = "none" <=> i = n + 1
  BY NextOnly
<1>6. EventGrant(r).denial = "none" <=>
         known /\ n + 1 \in 1..TotalCells /\ EventMatches(cells, r, n + 1)
  BY <1>2, <1>3, <1>4, <1>5
<1>7. EventGrant(r).denial = "none" => EventGrant(r).cell = n + 1
  BY <1>2, <1>3, <1>4, <1>5
<1> QED
  BY <1>6, <1>7 DEF known

(* The walk keeps to prefixes.                                             *)
LEMMA InitPrefix == Init => Prefix
<1> SUFFICES ASSUME Init PROVE Prefix
  OBVIOUS
<1>1. PICK letters \in OrderTexts : cells = Expand(letters)
  BY WalkAssumption DEF Init
<1>2. 0 \in 0..TotalCells /\ done = 1..0
  BY Sizes DEF Init
<1> QED
  BY <1>1, <1>2 DEF Prefix, Walked

LEMMA NextPrefix == Prefix /\ [Next]_vars => Prefix'
<1> SUFFICES ASSUME Prefix, [Next]_vars PROVE Prefix'
  OBVIOUS
<1>1. PICK letters \in OrderTexts, n \in 0..TotalCells : Walked(letters, n)
  BY DEF Prefix
<1>2. ASSUME done' = done \cup {n + 1}, n + 1 \in 1..TotalCells, cells' = cells
      PROVE  Prefix'
  <2>1. n + 1 \in 0..TotalCells /\ n \in Nat
    BY <1>2, Sizes
  <2>2. done' = 1..(n + 1)
    BY <1>1, <1>2, <2>1 DEF Walked
  <2> QED
    BY <1>1, <1>2, <2>1, <2>2 DEF Prefix, Walked
<1>3. ASSUME NEW r \in Calls, RunCall(r) PROVE Prefix'
  BY <1>1, <1>2, <1>3, CallGranted DEF RunCall
<1>4. ASSUME NEW r \in Events, RunEvent(r) PROVE Prefix'
  BY <1>1, <1>2, <1>4, EventGranted DEF RunEvent
<1>5. CASE UNCHANGED vars
  BY <1>1, <1>5 DEF vars, Prefix, Walked
<1> QED
  BY <1>3, <1>4, <1>5 DEF Next

LEMMA PrefixInvariant == Spec => []Prefix
BY InitPrefix, NextPrefix, PTL DEF Spec

-----------------------------------------------------------------------------
(* A prefix is one length.                                                 *)
LEMMA PrefixLength ==
    ASSUME NEW n \in Nat, NEW m \in Nat, 1..n = 1..m
    PROVE  n = m
<1>1. SUFFICES ASSUME n < m \/ m < n PROVE FALSE
  OBVIOUS
<1>2. CASE n < m
  <2>1. m \in 1..m /\ m \notin 1..n
    BY <1>2
  <2> QED
    BY <2>1
<1>3. CASE m < n
  <2>1. n \in 1..n /\ n \notin 1..m
    BY <1>3
  <2> QED
    BY <2>1
<1> QED
  BY <1>1, <1>2, <1>3

LEMMA PrefixTyped == Prefix => TypeOK
<1> SUFFICES ASSUME NEW letters \in OrderTexts, NEW n \in 0..TotalCells, Walked(letters, n)
             PROVE  TypeOK
  BY DEF Prefix
<1>1. cells = Expand(letters) /\ DOMAIN cells = 1..TotalCells /\ done = 1..n
  BY DEF Walked, Expand
<1>2. ASSUME NEW i \in 1..TotalCells
      PROVE  cells[i] \in [block : Blocks, family : Families,
                           event : Range(AcqEvents) \cup Tasks, universe : ArmLetters,
                           kind : {"acquisition-solve", "harness-event", "model-call"},
                           lane : Lanes, arm : Arms \cup {"acquisition", "harness"}]
  BY <1>1, CellKnown DEF CellFields
<1>3. done \in SUBSET (1..TotalCells)
  BY <1>1, Sizes
<1> QED
  BY <1>1, <1>2, <1>3 DEF TypeOK

(* Two requests for the same next cell are the same request.               *)
LEMMA PrefixOneRequest == Prefix => OneNextRequest
<1> SUFFICES ASSUME NEW letters \in OrderTexts, NEW n \in 0..TotalCells, Walked(letters, n)
             PROVE  OneNextRequest
  BY DEF Prefix
<1> DEFINE granted == {r \in Calls  : CallGrant(r).denial  = "none"} \cup
                      {r \in Events : EventGrant(r).denial = "none"}
           c == cells[n + 1]
<1>0. cells = Expand(letters) /\ n \in Nat /\ TotalCells \in Nat
  BY Sizes DEF Walked
<1>1. (CHOOSE k \in 0..TotalCells : done = 1..k) = n
  <2>1. \A k \in 0..TotalCells : done = 1..k <=> k = n
    BY <1>0, PrefixLength DEF Walked
  <2> QED
    BY <2>1
<1>2. \E k \in 0..TotalCells : done = 1..k
  BY DEF Walked
<1>3. ASSUME n = TotalCells PROVE granted = {}
  <2>1. n + 1 \notin 1..TotalCells
    BY <1>0, <1>3
  <2> QED
    BY <2>1, CallGranted, EventGranted
<1>4. ASSUME n < TotalCells PROVE \E r \in granted : granted = {r}
  <2>1. n + 1 \in 1..TotalCells
    BY <1>0, <1>4
  <2>b. PICK b \in 1..Len(BlockOrder), f \in 1..Len(FamilyOrder), k \in Offsets : \E e, u :
             /\ Placed(letters, n + 1, b, f, k, e, u)
             /\ CellFields(c, BlockOrder[b], FamilyOrder[f], e, u)
    BY <1>0, <2>1, CellKnown
  <2>2. PICK e, u :
           /\ Placed(letters, n + 1, b, f, k, e, u)
           /\ CellFields(c, BlockOrder[b], FamilyOrder[f], e, u)
    BY <2>b
  <2>3. IsKey(e, u) /\ BlockOrder[b] \in Blocks /\ FamilyOrder[f] \in Families
    BY <2>2, Lists DEF Placed
  <2>4. /\ c.block \in Blocks /\ c.family \in Families /\ c.lane \in Lanes
        /\ c.event \in Tasks => c.kind = "model-call" /\ c.arm \in Arms
        /\ c.kind = "model-call" => c.event \in Tasks
        /\ c.event \notin Tasks => /\ c.event \in Range(AcqEvents)
                                   /\ c.universe \in Range(CapUniverses)
        /\ c.event \in Tasks => c.event \notin Range(AcqEvents)
        /\ c.universe \in ArmLetters
    <3>1. /\ c.block \in Blocks /\ c.family \in Families /\ c.lane \in Lanes
          /\ c.universe \in ArmLetters /\ c.event = e /\ c.universe = u
      BY <2>2 DEF CellFields
    <3>2. e \in Tasks => /\ c.kind = "model-call"
                         /\ c.arm = IF CarriesCapability(u) THEN "correct" ELSE "disabled"
      BY <2>2 DEF CellFields
    <3>3. c.kind = "model-call" => e \in Tasks
      BY <2>2 DEF CellFields
    <3> QED
      BY <2>3, <3>1, <3>2, <3>3, Vocabulary DEF IsKey, Arms
  <2>5. CASE c.event \in Tasks
    <3> DEFINE r == [block |-> c.block, family |-> c.family, task |-> c.event,
                     lane |-> c.lane, arm |-> c.arm]
    <3>1. r \in Calls /\ CallMatches(cells, r, n + 1)
      BY <2>4, <2>5 DEF Calls, CallMatches
    <3>2. CallGrant(r).denial = "none"
      BY <2>1, <2>4, <2>5, <3>1, CallGranted
    <3>3. ASSUME NEW q \in Calls, CallGrant(q).denial = "none" PROVE q = r
      <4>1. CallMatches(cells, q, n + 1)
        BY <3>3, CallGranted
      <4> QED
        BY <4>1 DEF Calls, CallMatches
    <3>4. ASSUME NEW q \in Events PROVE EventGrant(q).denial # "none"
      BY <2>4, <2>5, EventGranted DEF EventMatches
    <3> QED
      BY <3>1, <3>2, <3>3, <3>4
  <2>6. CASE c.event \notin Tasks
    <3> DEFINE r == [block |-> c.block, family |-> c.family, event |-> c.event,
                     universe |-> c.universe]
    <3>1. r \in Events /\ EventMatches(cells, r, n + 1)
      BY <2>4, <2>6 DEF Events, EventMatches
    <3>2. EventGrant(r).denial = "none"
      BY <2>1, <2>4, <2>6, <3>1, EventGranted
    <3>3. ASSUME NEW q \in Events, EventGrant(q).denial = "none" PROVE q = r
      <4>1. EventMatches(cells, q, n + 1)
        BY <3>3, EventGranted
      <4> QED
        BY <4>1 DEF Events, EventMatches
    <3>4. ASSUME NEW q \in Calls PROVE CallGrant(q).denial # "none"
      BY <2>4, <2>6, CallGranted DEF CallMatches
    <3> QED
      BY <3>1, <3>2, <3>3, <3>4
  <2> QED
    BY <2>5, <2>6
<1> QED
  BY <1>1, <1>2, <1>3, <1>4 DEF OneNextRequest

LEMMA PrefixAcquires == Prefix => AcquireBeforeDownstream
<1> SUFFICES ASSUME NEW letters \in OrderTexts, NEW n \in 0..TotalCells, Walked(letters, n),
                    NEW i \in done, cells[i].kind = "model-call",
                    NEW e \in Range(AcqEvents), NEW u \in Range(CapUniverses)
             PROVE  \E j \in done : /\ j < i
                                    /\ cells[j].block = cells[i].block
                                    /\ cells[j].family = cells[i].family
                                    /\ cells[j].event = e /\ cells[j].universe = u
  BY DEF Prefix, AcquireBeforeDownstream
<1>1. /\ cells = Expand(letters) /\ done = 1..n /\ n \in Nat /\ TotalCells \in Nat
      /\ i \in 1..TotalCells
  BY Sizes DEF Walked
<1>2. cells[i].block \in Blocks /\ cells[i].family \in Families
  BY <1>1, CellKnown DEF CellFields
<1>3. PICK j \in 1..TotalCells : CellFields(cells[j], cells[i].block, cells[i].family, e, u)
  BY <1>1, <1>2, CellFor DEF IsKey
<1>4. /\ cells[j].block = cells[i].block /\ cells[j].family = cells[i].family
      /\ cells[j].event = e /\ cells[j].universe = u
  BY <1>3 DEF CellFields
<1>5. j < i
  BY <1>1, <1>4, AcquisitionFirst DEF SameFamily
<1> QED
  BY <1>1, <1>4, <1>5

LEMMA PrefixSequential == Prefix => SequentialBlocks
<1> SUFFICES ASSUME NEW letters \in OrderTexts, NEW n \in 0..TotalCells, Walked(letters, n),
                    NEW i \in done, NEW j \in done, i < j,
                    <<cells[i].block, cells[i].family>> # <<cells[j].block, cells[j].family>>,
                    NEW k \in 1..TotalCells,
                    cells[k].block = cells[i].block, cells[k].family = cells[i].family
             PROVE  k \in done
  BY DEF Prefix, SequentialBlocks
<1>1. /\ cells = Expand(letters) /\ done = 1..n /\ n \in Nat /\ TotalCells \in Nat
      /\ i \in 1..TotalCells /\ j \in 1..TotalCells
  BY Sizes DEF Walked
<1>2. k < j
  BY <1>1, FamiliesContiguous DEF SameFamily
<1> QED
  BY <1>1, <1>2

LEMMA PrefixOnce == Prefix => EveryCellOnce
<1> SUFFICES ASSUME NEW letters \in OrderTexts, NEW n \in 0..TotalCells, Walked(letters, n)
             PROVE  EveryCellOnce
  BY DEF Prefix
<1> DEFINE key(i) == <<cells[i].block, cells[i].family, cells[i].event, cells[i].universe>>
           all == (Blocks \X Families \X Range(AcqEvents) \X Range(CapUniverses))
                     \cup (Blocks \X Families \X Tasks \X ArmLetters)
<1>1. cells = Expand(letters)
  BY DEF Walked
<1>2. ASSUME NEW i \in 1..TotalCells PROVE key(i) \in all
  <2>a. PICK b \in 1..Len(BlockOrder), f \in 1..Len(FamilyOrder), k \in Offsets : \E e, u :
             /\ Placed(letters, i, b, f, k, e, u)
             /\ CellFields(cells[i], BlockOrder[b], FamilyOrder[f], e, u)
    BY <1>1, CellKnown
  <2>1. PICK e, u :
           /\ Placed(letters, i, b, f, k, e, u)
           /\ CellFields(cells[i], BlockOrder[b], FamilyOrder[f], e, u)
    BY <2>a
  <2>2. key(i) = <<BlockOrder[b], FamilyOrder[f], e, u>>
    BY <2>1 DEF CellFields
  <2>3. IsKey(e, u) /\ BlockOrder[b] \in Blocks /\ FamilyOrder[f] \in Families
    BY <2>1, Lists DEF Placed
  <2> QED
    BY <2>2, <2>3 DEF IsKey
<1>3. ASSUME NEW x \in all PROVE \E i \in 1..TotalCells : key(i) = x
  <2>a. PICK b \in Blocks, f \in Families : \E e, u : x = <<b, f, e, u>> /\ IsKey(e, u)
    BY <1>3 DEF IsKey
  <2>1. PICK e, u : x = <<b, f, e, u>> /\ IsKey(e, u)
    BY <2>a
  <2>2. PICK i \in 1..TotalCells : CellFields(cells[i], b, f, e, u)
    BY <1>1, <2>1, CellFor
  <2>3. key(i) = x
    BY <2>1, <2>2 DEF CellFields
  <2> QED
    BY <2>3
<1>4. {key(i) : i \in 1..TotalCells} = all
  <2> HIDE DEF key, all
  <2> QED
    BY <1>2, <1>3
<1>5. ASSUME NEW i \in 1..TotalCells, NEW j \in 1..TotalCells, i < j
      PROVE  key(i) # key(j)
  <2>1. i # j
    BY <1>5, Sizes
  <2> QED
    BY <1>1, <2>1, CellOnce DEF SameFamily
<1> QED
  BY <1>4, <1>5 DEF EveryCellOnce

-----------------------------------------------------------------------------
(* The walk on disk over the expansion of an order text: its cells are the *)
(* expansion's, its capability universes the A and C of every family of    *)
(* every block.  Of the files and the verdicts nothing is said.            *)
UnitAt(letters, i) ==
    LET c == Expand(letters)[i]
    IN  [block |-> c.block, family |-> c.family, universe |-> c.universe]

CapUnits == [block : Blocks, family : Families, universe : Range(CapUniverses)]

AcqAt(letters, v, e) ==
    CHOOSE i \in 1..TotalCells : Expand(letters)[i].event = e /\ UnitAt(letters, i) = v

Disk(letters, verdicts, deaths) == INSTANCE AcquisitionOrder WITH
    NCells <- TotalCells,
    EventOf <- [i \in 1..TotalCells |-> Expand(letters)[i].event],
    UnitOf <- [i \in 1..TotalCells |-> UnitAt(letters, i)],
    Units <- CapUnits,
    AcqCell <- [v \in CapUnits |-> [e \in Range(AcqEvents) |-> AcqAt(letters, v, e)]],
    Verdicts <- verdicts, MaxCrashes <- deaths,
    run <- 0, verdict <- 0, validated <- 0, arts <- 0, receipt <- 0, outcome <- 0,
    lock <- 0, notLocked <- 0, proc <- 0, crashes <- 0

(* What a position of the expansion holds.                                 *)
LEMMA FieldsAt ==
    ASSUME NEW letters \in OrderTexts, NEW i \in 1..TotalCells
    PROVE  LET c == Expand(letters)[i] IN
           /\ c.block \in Blocks /\ c.family \in Families /\ IsKey(c.event, c.universe)
           /\ c.event \in Tasks => c.kind = "model-call"
<1>1. PICK b \in 1..Len(BlockOrder), f \in 1..Len(FamilyOrder), k \in Offsets : \E e, u :
         /\ Placed(letters, i, b, f, k, e, u)
         /\ CellFields(Expand(letters)[i], BlockOrder[b], FamilyOrder[f], e, u)
  BY CellKnown
<1> QED
  BY <1>1, Lists DEF CellFields, Placed

(* Where a capability universe's four acquisition events stand, and that   *)
(* they stand nowhere else.                                                *)
LEMMA AcquisitionAt ==
    ASSUME NEW letters \in OrderTexts, NEW v \in CapUnits, NEW e \in Range(AcqEvents)
    PROVE  /\ AcqAt(letters, v, e) \in 1..TotalCells
           /\ Expand(letters)[AcqAt(letters, v, e)].event = e
           /\ UnitAt(letters, AcqAt(letters, v, e)) = v
           /\ \A i \in 1..TotalCells :
                 Expand(letters)[i].event = e /\ UnitAt(letters, i) = v
                    => i = AcqAt(letters, v, e)
<1>1. /\ v.block \in Blocks /\ v.family \in Families /\ v.universe \in Range(CapUniverses)
      /\ v = [block |-> v.block, family |-> v.family, universe |-> v.universe]
  BY DEF CapUnits
<1>2. PICK i \in 1..TotalCells :
         CellFields(Expand(letters)[i], v.block, v.family, e, v.universe)
  BY <1>1, CellFor DEF IsKey
<1>3. Expand(letters)[i].event = e /\ UnitAt(letters, i) = v
  BY <1>1, <1>2 DEF CellFields, UnitAt
<1>4. /\ AcqAt(letters, v, e) \in 1..TotalCells
      /\ Expand(letters)[AcqAt(letters, v, e)].event = e
      /\ UnitAt(letters, AcqAt(letters, v, e)) = v
  BY <1>3 DEF AcqAt
<1>5. ASSUME NEW j \in 1..TotalCells, NEW k \in 1..TotalCells,
             Expand(letters)[j].event = e, UnitAt(letters, j) = v,
             Expand(letters)[k].event = e, UnitAt(letters, k) = v
      PROVE  j = k
  <2>1. /\ SameFamily(Expand(letters)[j], Expand(letters)[k])
        /\ Expand(letters)[j].universe = Expand(letters)[k].universe
    BY <1>5 DEF UnitAt, SameFamily
  <2> QED
    BY <1>5, <2>1, CellOnce
<1> QED
  BY <1>4, <1>5

(* The four are in the order of the events.                                *)
LEMMA AcquisitionInOrder ==
    ASSUME NEW letters \in OrderTexts, NEW v \in CapUnits
    PROVE  /\ AcqAt(letters, v, "T0") < AcqAt(letters, v, "T1")
           /\ AcqAt(letters, v, "T1") < AcqAt(letters, v, "PROMOTION")
           /\ AcqAt(letters, v, "PROMOTION") < AcqAt(letters, v, "CAPABILITY_LOCK")
<1>1. /\ v.block \in Blocks /\ v.family \in Families /\ v.universe \in Range(CapUniverses)
      /\ v = [block |-> v.block, family |-> v.family, universe |-> v.universe]
  BY DEF CapUnits
<1>2. PICK x \in 1..Len(BlockOrder), y \in 1..Len(FamilyOrder) :
         BlockOrder[x] = v.block /\ FamilyOrder[y] = v.family
  BY <1>1, Lists
<1> DEFINE s == Segment(x, y)
           first == IF v.universe = "A" THEN 0 ELSE 4
<1>3. /\ AcqOffset(first, "T0", v.universe) /\ AcqOffset(first + 1, "T1", v.universe)
      /\ AcqOffset(first + 2, "PROMOTION", v.universe)
      /\ AcqOffset(first + 3, "CAPABILITY_LOCK", v.universe)
  <2>1. CASE v.universe = "A"
    BY <2>1, Vocabulary DEF AcqOffset
  <2>2. CASE v.universe = "C"
    BY <2>2, Vocabulary DEF AcqOffset
  <2> QED
    BY <1>1, <2>1, <2>2, Vocabulary
<1>4. first \in {0, 4} /\ s \in 0..(Segments - 1) /\ 0..7 \subseteq Offsets
  BY Lists, Sizes, SegmentAt DEF Offsets
<1> HIDE DEF s, first
<1>5. ASSUME NEW k \in 0..7, NEW e \in Range(AcqEvents), AcqOffset(k, e, v.universe)
      PROVE  AcqAt(letters, v, e) = At(s, k)
  <2>1. k \in Offsets /\ k < 8
    BY <1>4
  <2>2. Placed(letters, At(s, k), x, y, k, e, v.universe)
    BY <1>1, <1>5, <2>1 DEF Placed, StandsFor, IsKey, s
  <2>3. /\ At(s, k) \in 1..TotalCells
        /\ Expand(letters)[At(s, k)] = CellOf(v.block, v.family, e, v.universe)
    BY <1>2, <2>1, <2>2, CellAt
  <2>4. Expand(letters)[At(s, k)].event = e /\ UnitAt(letters, At(s, k)) = v
    BY <1>1, <2>3 DEF UnitAt, CellOf
  <2> QED
    BY <2>3, <2>4, AcquisitionAt
<1>6. /\ first \in 0..7 /\ first + 1 \in 0..7 /\ first + 2 \in 0..7 /\ first + 3 \in 0..7
      /\ first < first + 1 /\ first + 1 < first + 2 /\ first + 2 < first + 3
  BY <1>4
<1>7. /\ AcqAt(letters, v, "T0") = At(s, first)
      /\ AcqAt(letters, v, "T1") = At(s, first + 1)
      /\ AcqAt(letters, v, "PROMOTION") = At(s, first + 2)
      /\ AcqAt(letters, v, "CAPABILITY_LOCK") = At(s, first + 3)
  BY <1>3, <1>5, <1>6, Vocabulary
<1>8. \A k, l \in 0..7 : k < l => At(s, k) < At(s, l)
  BY <1>4, SegmentsInOrder
<1> QED
  BY <1>6, <1>7, <1>8

(* Every order text gives the walk on disk what it assumes of its cells:   *)
(* what AcquisitionOrder's theorems say of every fitting expansion, they   *)
(* say of every expansion order.py can freeze (order.py expand).           *)
THEOREM ExpansionFitsTheWalk ==
    ASSUME NEW letters \in OrderTexts, NEW verdicts \in SUBSET {"ship", "fix", "blocked"},
           NEW deaths \in Nat
    PROVE  /\ Disk(letters, verdicts, deaths)!OrderAssumption
           /\ Disk(letters, verdicts, deaths)!UniqueAssumption
           /\ Disk(letters, verdicts, deaths)!SequenceAssumption
<1> USE DEF Disk!AcqEvents, Disk!DownstreamEvents, Disk!Cell
<1>1. /\ Range(AcqEvents) = {"T0", "T1", "PROMOTION", "CAPABILITY_LOCK"}
      /\ Range(CapUniverses) = {"A", "C"} /\ Tasks \subseteq {"T2", "T3", "T4"}
  BY Vocabulary
<1>2. ASSUME NEW i \in 1..TotalCells
      PROVE  /\ Expand(letters)[i].event \in Range(AcqEvents) \cup Tasks
             /\ Expand(letters)[i].event \in Range(AcqEvents) =>
                   UnitAt(letters, i) \in CapUnits
  BY <1>1, FieldsAt DEF IsKey, UnitAt, CapUnits
<1>3. Disk(letters, verdicts, deaths)!OrderAssumption
  BY <1>1, <1>2, Sizes DEF Disk!OrderAssumption
<1>4. Disk(letters, verdicts, deaths)!UniqueAssumption
  BY <1>1, AcquisitionAt DEF Disk!UniqueAssumption
<1>5. ASSUME NEW v \in CapUnits, NEW i \in 1..TotalCells,
             Expand(letters)[i].event \in {"T2", "T3", "T4"},
             UnitAt(letters, i).block = v.block, UnitAt(letters, i).family = v.family
      PROVE  AcqAt(letters, v, "CAPABILITY_LOCK") < i
  <2> DEFINE j == AcqAt(letters, v, "CAPABILITY_LOCK")
  <2>1. /\ j \in 1..TotalCells /\ UnitAt(letters, j) = v
        /\ Expand(letters)[j].event = "CAPABILITY_LOCK"
    BY <1>1, AcquisitionAt
  <2>2. Expand(letters)[i].kind = "model-call"
    BY <1>1, <1>2, <1>5, FieldsAt
  <2> HIDE DEF j
  <2>3. SameFamily(Expand(letters)[i], Expand(letters)[j])
    BY <1>5, <2>1 DEF UnitAt, SameFamily
  <2>4. j < i
    BY <1>1, <2>1, <2>2, <2>3, AcquisitionFirst
  <2> QED
    BY <2>4 DEF j
<1>6. Disk(letters, verdicts, deaths)!SequenceAssumption
  BY <1>1, <1>5, AcquisitionInOrder DEF Disk!SequenceAssumption, Disk!SameFamily
<1> QED
  BY <1>3, <1>4, <1>6

-----------------------------------------------------------------------------
(* Every cell of the expansion is well formed and only cells of it are     *)
(* carried out (order.py _cell, expand).                                   *)
THEOREM TypeInvariant == Spec => []TypeOK
BY PrefixInvariant, PrefixTyped, PTL

(* Whatever operators ask for, the cells carried out are a prefix of the   *)
(* frozen expansion, and one request alone, for the next cell, is granted  *)
(* (order.py expected_cell, authorize, authorize_event).                   *)
THEOREM OneNextRequestHolds == Spec => []OneNextRequest
BY PrefixInvariant, PrefixOneRequest, PTL

(* A downstream cell is carried out only after both capability universes   *)
(* of its block and family acquired their own (order.py authorize).        *)
THEOREM AcquireBeforeDownstreamHolds == Spec => []AcquireBeforeDownstream
BY PrefixInvariant, PrefixAcquires, PTL

(* No block and no family starts before the previous one is finished.      *)
THEOREM SequentialBlocksHolds == Spec => []SequentialBlocks
BY PrefixInvariant, PrefixSequential, PTL

(* The expansion enumerates every experimental cell (order.py expand).     *)
THEOREM EveryCellOnceHolds == Spec => []EveryCellOnce
BY PrefixInvariant, PrefixOnce, PTL
=============================================================================
