---------------------------- MODULE MC_OrderWalk ----------------------------
EXTENDS OrderWalk

MC_BlockOrder  == <<"PQ", "QP">>
MC_FamilyOrder == <<"fam05", "fam03">>
MC_Downstream  == <<"T2", "T3">>

(* Treatment/control pairs in base order, flipped, and interleaved.        *)
ArmChoices == {<<"A", "B", "C", "D">>, <<"B", "A", "D", "C">>, <<"D", "A", "C", "B">>}

(* One of three arm sequences for every block and task, in both families.  *)
MC_Texts ==
    {[k \in Blocks \X Families \X Tasks |-> t[<<k[1], k[3]>>]] :
        t \in [Blocks \X Tasks -> ArmChoices]}
=============================================================================
