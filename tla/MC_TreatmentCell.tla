-------------------------- MODULE MC_TreatmentCell --------------------------
(* Bounded instance of TreatmentCell for TLC.                              *)
EXTENDS TreatmentCell

SomeArrivals == {[decision |-> "use_capability", notes |-> "reason"],
                 [decision |-> "fresh", notes |-> "reason"],
                 [decision |-> "fresh", notes |-> "blank"]}

(* Usage blocks: work, none, more cached than sent.                        *)
SomeUsages == {[input |-> 2, output |-> 1, cached |-> 1, total |-> 3],
               [input |-> 0, output |-> 0, cached |-> Absent, total |-> Absent],
               [input |-> 1, output |-> 1, cached |-> 2, total |-> 2]}
=============================================================================
