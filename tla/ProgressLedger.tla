--------------------------- MODULE ProgressLedger ---------------------------
(***************************************************************************)
(* What the frozen order promises, with no files, commands or crashes: a   *)
(* ledger of settled cells that only grows, always covers a prefix of the  *)
(* order, and never contradicts itself about a capability universe.        *)
(* harness/order.py: progress_valid, completed_cells and the terminal      *)
(* states of EPOCH-1-CLOSURE.md.                                           *)
(***************************************************************************)
EXTENDS Naturals

CONSTANTS NCells, EventOf, UnitOf, Units

VARIABLE ledger     \* entries [cell, state]: the settled cells

Cell == 1..NCells

(* progress_valid: the terminal states that advance the walk, per event.   *)
Terminals(c) ==
    {"COMPLETE"}
      \cup (IF EventOf[c] = "PROMOTION" THEN {"NOT-PROMOTED"} ELSE {})
      \cup (IF EventOf[c] = "CAPABILITY_LOCK" THEN {"NOT-LOCKED"} ELSE {})
      \cup (IF EventOf[c] \in {"T2", "T3", "T4"} /\ UnitOf[c] \in Units
            THEN {"NOT-EVALUABLE"} ELSE {})

CellsOf(l) == {e.cell : e \in l}

(* The promotion, the lock and the downstream cells of one universe tell   *)
(* one story: promoted, locked and consumed, or refused at every step.     *)
Refused(l, u) ==
    \E e \in l : UnitOf[e.cell] = u /\ e.state = "NOT-PROMOTED"

Consistent(l) ==
    \A e \in l : UnitOf[e.cell] \in Units =>
        /\ e.state \in {"NOT-LOCKED", "NOT-EVALUABLE"} => Refused(l, UnitOf[e.cell])
        /\ e.state = "COMPLETE" /\ EventOf[e.cell] \notin {"T0", "T1"}
              => ~Refused(l, UnitOf[e.cell])

Lawful(l) ==
    /\ \A e \in l : e.cell \in Cell /\ e.state \in Terminals(e.cell)
    /\ \A e, f \in l : e.cell = f.cell => e = f
    /\ \A c, d \in Cell : c < d /\ d \in CellsOf(l) => c \in CellsOf(l)
    /\ Consistent(l)

Init == ledger = {}

(* One step may settle several cells: the walk passes over those whose     *)
(* state was already determined when an earlier one is settled.            *)
Next == \E l \in {ledger'} : Lawful(l) /\ ledger \subseteq l

Spec == Init /\ [][Next]_ledger
=============================================================================
