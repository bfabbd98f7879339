---------------------------- MODULE FrozenOrder ----------------------------
(***************************************************************************)
(* The frozen execution order of Fam-C: how ORDER.md is expanded into one  *)
(* totally ordered list of cells, and how a request is resolved to a cell  *)
(* and authorized against the set of cells already done.                   *)
(* harness/order.py: expand, _cell, expected_cell, expected_event,         *)
(* authorize, authorize_event.                                             *)
(*                                                                         *)
(* ORDER.md itself is data.  Its block order, family order and task list   *)
(* are constants here, and the arm letters of every downstream task are    *)
(* the argument `letters' of the operators.                                *)
(***************************************************************************)
EXTENDS Integers, Sequences, Functions

CONSTANTS
    BlockOrder,     \* sequence over {"PQ", "QP"}: the blocks, in run order
    FamilyOrder,    \* sequence of families, in run order
    Downstream      \* sequence over {"T2", "T3", "T4"}

Blocks   == Range(BlockOrder)
Families == Range(FamilyOrder)
Tasks    == Range(Downstream)

AcqEvents    == <<"T0", "T1", "PROMOTION", "CAPABILITY_LOCK">>
CapUniverses == <<"A", "C">>
ArmLetters   == {"A", "B", "C", "D"}
Lanes        == {"P", "Q"}
Arms         == {"correct", "disabled"}

ASSUME OrderFactsAssumption ==
    /\ BlockOrder \in Seq({"PQ", "QP"}) /\ Len(BlockOrder) > 0
    /\ FamilyOrder \in Seq(Families) /\ Len(FamilyOrder) > 0
    /\ Downstream \in Seq({"T2", "T3", "T4"}) /\ Len(Downstream) > 0
    /\ \A s \in {BlockOrder, FamilyOrder, Downstream} :
          \A i, j \in DOMAIN s : s[i] = s[j] => i = j

(* A task's four arms: every letter exactly once, as parse_order demands.  *)
ArmSequences == {s \in [1..4 -> ArmLetters] : Range(s) = ArmLetters}
OrderTexts   == [Blocks \X Families \X Tasks -> ArmSequences]

-----------------------------------------------------------------------------
Producer(b) == IF b = "PQ" THEN "P" ELSE "Q"
OtherLane(l) == IF l = "P" THEN "Q" ELSE "P"

(* A and B are consumed by the block's producer lane, C and D by the other.*)
Consumer(b, u) == IF u \in {"A", "B"} THEN Producer(b)
                                      ELSE OtherLane(Producer(b))

\* bug: only the same-lane treatment arm is taken to carry a capability
CarriesCapabilityAOnly(u) == u = "A"
CarriesCapability(u) == u \in {"A", "C"}

EventKind(e) == CASE e \in {"T0", "T1"} -> "acquisition-solve"
                  [] e \in {"PROMOTION", "CAPABILITY_LOCK"} -> "harness-event"
                  [] OTHER -> "model-call"

CellOf(b, f, e, u) ==
    [block |-> b, family |-> f, event |-> e, universe |-> u,
     kind  |-> EventKind(e), lane |-> Consumer(b, u),
     arm   |-> CASE EventKind(e) = "acquisition-solve" -> "acquisition"
                 [] EventKind(e) = "harness-event"     -> "harness"
                 [] EventKind(e) = "model-call"        ->
                        IF CarriesCapability(u) THEN "correct" ELSE "disabled"]

-----------------------------------------------------------------------------
(* One family of one block: A's four acquisition events, C's four, then    *)
(* every downstream task in the order of its arm letters.                  *)
AcqLength    == Len(AcqEvents) * Len(CapUniverses)
FamilyLength == AcqLength + 4 * Len(Downstream)

\* bug: the task index of the downstream loop is never advanced
FamilyCellFirstTask(letters, b, f, k) ==
    IF k < AcqLength
    THEN CellOf(b, f, AcqEvents[1 + (k % 4)], CapUniverses[1 + (k \div 4)])
    ELSE CellOf(b, f, Downstream[1],
                letters[<<b, f, Downstream[1]>>][1 + ((k - AcqLength) % 4)])

FamilyCell(letters, b, f, k) ==
    IF k < AcqLength
    THEN CellOf(b, f, AcqEvents[1 + (k % 4)], CapUniverses[1 + (k \div 4)])
    ELSE LET task == Downstream[1 + ((k - AcqLength) \div 4)]
         IN  CellOf(b, f, task, letters[<<b, f, task>>][1 + ((k - AcqLength) % 4)])

TotalCells == Len(BlockOrder) * Len(FamilyOrder) * FamilyLength

Expand(letters) ==
    [i \in 1..TotalCells |->
        LET segment == (i - 1) \div FamilyLength
        IN  FamilyCell(letters,
                       BlockOrder[1 + (segment \div Len(FamilyOrder))],
                       FamilyOrder[1 + (segment % Len(FamilyOrder))],
                       (i - 1) % FamilyLength)]

-----------------------------------------------------------------------------
NoCell == 0

FirstIn(S) == IF S = {} THEN NoCell ELSE CHOOSE i \in S : \A j \in S : i <= j

ExpectedCell(cells, b, f, t, lane, arm) ==
    FirstIn({i \in DOMAIN cells :
                /\ cells[i].kind = "model-call"
                /\ cells[i].block = b /\ cells[i].family = f
                /\ cells[i].event = t
                /\ cells[i].lane = lane /\ cells[i].arm = arm})

ExpectedEvent(cells, b, f, e, u) ==
    FirstIn({i \in DOMAIN cells :
                /\ cells[i].block = b /\ cells[i].family = f
                /\ cells[i].event = e /\ cells[i].universe = u})

\* bug: earlier cells are looked for in the cell's own block and family only
MissingInFamily(i, done) ==
    {j \in 1..(i - 1) : /\ (j - 1) \div FamilyLength = (i - 1) \div FamilyLength
                       /\ j \notin done}
\* bug: only the other universe's cells of the same event are waited for
MissingSampled(i, done) == {j \in {i - 4} : j >= 1 /\ j \notin done}

Missing(i, done) == {j \in 1..(i - 1) : j \notin done}

(* The refusals of authorize / authorize_event, first one first.           *)
\* bug: a request that resolves to no cell falls through
OrderDenialNoLookup(i, done) ==
    IF i \in done THEN "duplicate"
    ELSE IF Missing(i, done) # {} THEN "out-of-order" ELSE "none"

OrderDenial(i, done) ==
    IF i = NoCell THEN "no-authorized-cell"
    ELSE IF i \in done THEN "duplicate"
    ELSE IF Missing(i, done) # {} THEN "out-of-order" ELSE "none"

Authorize(cells, b, f, t, lane, arm, done) ==
    IF b \in Blocks /\ f \in Families /\ t \in Tasks /\ arm \in Arms
    THEN LET i == ExpectedCell(cells, b, f, t, lane, arm)
         IN  [cell |-> i, denial |-> OrderDenial(i, done)]
    ELSE [cell |-> NoCell, denial |-> "outside-frozen-universe"]

AuthorizeEvent(cells, b, f, e, u, done) ==
    IF e \in Range(AcqEvents) /\ u \in Range(CapUniverses)
    THEN LET i == ExpectedEvent(cells, b, f, e, u)
         IN  [cell |-> i, denial |-> OrderDenial(i, done)]
    ELSE [cell |-> NoCell, denial |-> "outside-frozen-universe"]
=============================================================================
