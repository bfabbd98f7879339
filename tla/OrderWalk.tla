----------------------------- MODULE OrderWalk -----------------------------
(***************************************************************************)
(* Operators asking for cells of one frozen order text.  Any request may   *)
(* be made at any time, in the vocabulary of the two entry points (a lane  *)
(* and an arm for a downstream call, a universe for an acquisition event); *)
(* one that authorize / authorize_event grants is carried out and its cell *)
(* joins the done set.  harness/order.py: authorize, authorize_event.      *)
(***************************************************************************)
EXTENDS FrozenOrder

CONSTANTS
    Texts,          \* the order texts ORDER.md may hold
    ForeignFamily   \* a family outside the frozen universe

ASSUME WalkAssumption ==
    Texts \subseteq OrderTexts /\ ForeignFamily \notin Families

VARIABLES
    cells,          \* ORDER-EXPANSION.json: the expansion, persisted and frozen
    done            \* positions of the cells carried out

vars == <<cells, done>>

Calls == [block : Blocks, family : Families \cup {ForeignFamily},
          task : Tasks \cup {"T0"}, lane : Lanes, arm : Arms \cup {"harness"}]
Events == [block : Blocks, family : Families \cup {ForeignFamily},
           event : Range(AcqEvents) \cup {"T2"}, universe : ArmLetters]

CallGrant(r)  == Authorize(cells, r.block, r.family, r.task, r.lane, r.arm, done)
EventGrant(r) == AuthorizeEvent(cells, r.block, r.family, r.event, r.universe, done)

Init == cells \in {Expand(letters) : letters \in Texts} /\ done = {}

RunCall(r) ==
    /\ CallGrant(r).denial = "none"
    /\ done' = done \cup {CallGrant(r).cell}
    /\ UNCHANGED cells

RunEvent(r) ==
    /\ EventGrant(r).denial = "none"
    /\ done' = done \cup {EventGrant(r).cell}
    /\ UNCHANGED cells

Next == \/ \E r \in Calls : RunCall(r)
        \/ \E r \in Events : RunEvent(r)

Spec == Init /\ [][Next]_vars

-----------------------------------------------------------------------------
(* Every cell of the expansion is well formed and only cells of it are     *)
(* carried out (order.py _cell, expand).                                   *)
TypeOK ==
    /\ DOMAIN cells = 1..TotalCells
    /\ \A i \in 1..TotalCells :
          cells[i] \in [block : Blocks, family : Families,
                       event : Range(AcqEvents) \cup Tasks, universe : ArmLetters,
                       kind : {"acquisition-solve", "harness-event", "model-call"},
                       lane : Lanes, arm : Arms \cup {"acquisition", "harness"}]
    /\ done \in SUBSET (1..TotalCells)

(* Whatever is asked, the cells carried out are a prefix of the frozen     *)
(* expansion, and until it is exhausted exactly one request of the two     *)
(* vocabularies is granted, for the next cell: the lane and arm of a       *)
(* downstream request name its universe unambiguously in both blocks       *)
(* (order.py expected_cell, authorize, authorize_event).                   *)
OneNextRequest ==
    LET n == CHOOSE k \in 0..TotalCells : done = 1..k
        granted == {r \in Calls  : CallGrant(r).denial  = "none"} \cup
                   {r \in Events : EventGrant(r).denial = "none"}
    IN  /\ \E k \in 0..TotalCells : done = 1..k
        /\ n < TotalCells => \E r \in granted : granted = {r}
        /\ n = TotalCells => granted = {}

(* A downstream cell is carried out only after BOTH capability universes   *)
(* of its block and family have been through T0, T1, PROMOTION and         *)
(* CAPABILITY_LOCK (order.py authorize, docstring).                        *)
AcquireBeforeDownstream ==
    \A i \in done : cells[i].kind = "model-call" =>
        \A e \in Range(AcqEvents), u \in Range(CapUniverses) :
            \E j \in done : /\ j < i
                            /\ cells[j].block = cells[i].block
                            /\ cells[j].family = cells[i].family
                            /\ cells[j].event = e /\ cells[j].universe = u

(* No block and no family starts before the previous one is finished       *)
(* (ORDER.md: each block runs to completion before the next one starts).   *)
SequentialBlocks ==
    \A i, j \in done :
        (i < j /\ <<cells[i].block, cells[i].family>> # <<cells[j].block, cells[j].family>>)
          => \A k \in 1..TotalCells :
                (cells[k].block = cells[i].block /\ cells[k].family = cells[i].family)
                    => k \in done

(* The expansion enumerates every experimental cell exactly once: both     *)
(* capability universes' acquisition events and all four arms of every     *)
(* downstream task, for every block and family (order.py expand).          *)
EveryCellOnce ==
    LET key(i) == <<cells[i].block, cells[i].family, cells[i].event, cells[i].universe>>
    IN  /\ {key(i) : i \in 1..TotalCells}
             = (Blocks \X Families \X Range(AcqEvents) \X Range(CapUniverses))
                 \cup (Blocks \X Families \X Tasks \X ArmLetters)
        /\ \A i \in 1..TotalCells, j \in 1..TotalCells : i < j => key(i) # key(j)
=============================================================================
