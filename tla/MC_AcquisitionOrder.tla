------------------------ MODULE MC_AcquisitionOrder ------------------------
(***************************************************************************)
(* The order walked on small expansions, written out: one family, or two,  *)
(* of one block with a single downstream task.  ExpansionAssumption has    *)
(* TLC compare them with FrozenOrder's expansion of such an order text.    *)
(***************************************************************************)
EXTENDS AcquisitionOrder, Sequences

Acquisition == <<"T0", "T1", "PROMOTION", "CAPABILITY_LOCK">>

Family(f) == [u \in {"A", "B", "C", "D"} |->
                [block |-> "PQ", family |-> f, universe |-> u]]

FamilyEvents == Acquisition \o Acquisition \o <<"T2", "T2", "T2", "T2">>
FamilyUnits(U, arms) ==
    <<U["A"], U["A"], U["A"], U["A"], U["C"], U["C"], U["C"], U["C"],
      U[arms[1]], U[arms[2]], U[arms[3]], U[arms[4]]>>
AcqCells(U, from) ==
    [u \in {U["A"], U["C"]} |->
        [e \in AcqEvents |->
            from + (IF u = U["A"] THEN 0 ELSE 4)
                 + (CHOOSE i \in 1..4 : Acquisition[i] = e)]]

Fam05 == Family("fam05")
Fam03 == Family("fam03")
Arms05 == <<"A", "B", "C", "D">>
Arms03 == <<"C", "D", "A", "B">>

One_NCells  == 12
One_EventOf == FamilyEvents
One_UnitOf  == FamilyUnits(Fam05, Arms05)
One_Units   == {Fam05["A"], Fam05["C"]}
One_AcqCell == AcqCells(Fam05, 0)

Two_NCells  == 24
Two_EventOf == FamilyEvents \o FamilyEvents
Two_UnitOf  == FamilyUnits(Fam05, Arms05) \o FamilyUnits(Fam03, Arms03)
Two_Units   == One_Units \cup {Fam03["A"], Fam03["C"]}
Two_AcqCell == [u \in Two_Units |-> IF u \in One_Units THEN AcqCells(Fam05, 0)[u]
                                                      ELSE AcqCells(Fam03, 12)[u]]

Order == INSTANCE FrozenOrder
            WITH BlockOrder <- <<"PQ">>, FamilyOrder <- <<"fam05", "fam03">>,
                 Downstream <- <<"T2">>

ASSUME ExpansionAssumption ==
    LET letters == [k \in {"PQ"} \X {"fam05", "fam03"} \X {"T2"} |->
                      IF k[2] = "fam05" THEN Arms05 ELSE Arms03]
        cells == Order!Expand(letters)
    IN  /\ Len(Two_EventOf) = Len(cells) /\ Len(Two_UnitOf) = Len(cells)
        /\ \A i \in DOMAIN cells :
              /\ Two_EventOf[i] = cells[i].event
              /\ Two_UnitOf[i] = [block |-> cells[i].block, family |-> cells[i].family,
                                  universe |-> cells[i].universe]
=============================================================================
