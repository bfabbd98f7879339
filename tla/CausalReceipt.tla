--------------------------- MODULE CausalReceipt ---------------------------
(***************************************************************************)
(* The causal receipt of a treatment cell, as a function of its three      *)
(* legs: the frozen adaptation programs, the determinant and the rerun     *)
(* check, the twelve conditions and five inequalities under which a causal *)
(* contribution counts as proven (harness/adaptation.py), and the reuse    *)
(* record that reports the outcome, with what its writer                   *)
(* (harness/reuse_log.py) and its reader (harness/order.py) accept.        *)
(* Bytes are model values, and the hash of bytes is the bytes.             *)
(***************************************************************************)
EXTENDS Integers

Legs == {"on", "off-noop", "pass-through"}
None == "none"                   \* a recorded null

(* Adaptation programs: F over the task's frozen bytes gives one canonical *)
(* pair under a schema that covers them and refuses under any other; the   *)
(* noop program lists the files whatever the schema.                       *)
AdaptTask(covered, program) ==
    CASE program = "NOOP_v1" -> "noop-pair"
      [] program = "F_v1" /\ covered -> "F-pair"
      [] OTHER -> "refused"

(* passthrough_v1: the data member of F's pair, byte for byte.             *)
Passthrough(pair) == IF pair = "F-pair" THEN "F-records" ELSE None

(* contract_sha_for: what names the program, its ABI and its policies.     *)
ContractFor(program) == [program |-> program, policy |-> "frozen"]

BuildDeterminant(engine, schema, task) ==
    [capability |-> engine, schema |-> schema, task |-> task,
     contract |-> ContractFor("F_v1")]

(* prove_determinism: two runs of F over differently ordered copies of the *)
(* same bytes must agree, else it raises; no captured byte can enter F.    *)
ProveDeterminism(covered) ==
    [first |-> AdaptTask(covered, "F_v1"), second |-> AdaptTask(covered, "F_v1"),
     captured |-> FALSE]

(* A checker's return code as a verdict; "report" is checker output that   *)
(* names no crash, "crash" one with a crash marker in it, None is silence. *)
Verdict(rc) == CASE rc = 0 -> "ship" [] rc = 1 -> "fix" [] OTHER -> "blocked"

-----------------------------------------------------------------------------
(* build_receipt: the task and the checker of a leg are the determinant's  *)
(* and the seal's, the rest is its execution evidence; only ON names the   *)
(* bytes it executed.                                                      *)
ProgramOf(leg) == IF leg = "off-noop" THEN "NOOP_v1" ELSE "F_v1"

EnrichLeg(leg, det, checker, adapted, e) ==
    [program |-> ProgramOf(leg), task |-> det.task, checker |-> checker,
     adapted |-> adapted, exe |-> IF leg = "on" THEN e.exe ELSE None,
     out |-> e.out, rc |-> e.rc, text |-> e.text, report |-> e.text,
     verdict |-> e.verdict]

(* derive_causal_contribution, its conditions by name.                     *)
DeterminantValid(det, detSha, reruns) ==
    det = detSha /\ reruns.first # "refused" /\ reruns.first = reruns.second
        /\ ~reruns.captured

LegsShareTaskAndChecker(det, l) ==
    /\ \A x \in Legs : l[x].task = det.task
    /\ \A x \in Legs : l[x].checker # None /\ l[x].checker = l["on"].checker

IdentitiesMatch(l) ==
    /\ l["on"].program = "F_v1" /\ l["off-noop"].program = "NOOP_v1"
    /\ l["on"].adapted = l["pass-through"].adapted

OnShips(det, l) ==
    l["on"].exe = det.capability /\ l["on"].verdict = "ship" /\ l["on"].rc = 0

\* bug: any verdict but ship over produced output counts
CountsAnyRefusal(l, x) == l[x].verdict # "ship" /\ l[x].out # None

(* A counterfactual's fix counts from return code 1 over produced output,  *)
(* with a report that is neither blank nor a crash of the checker.         *)
CountsAsNotShip(l, x) ==
    /\ l[x].verdict = "fix" /\ l[x].rc = 1 /\ l[x].out # None
    /\ l[x].text = "report" /\ l[x].report = l[x].text
    /\ l[x].checker = l["on"].checker

OutputsDiffer(l) ==
    /\ l["on"].out # None
    /\ l["on"].out # l["off-noop"].out /\ l["on"].out # l["pass-through"].out

DeriveCausalContribution(det, detSha, reruns, l) ==
    /\ DeterminantValid(det, detSha, reruns)
    /\ LegsShareTaskAndChecker(det, l)
    /\ IdentitiesMatch(l)
    /\ OnShips(det, l)
    /\ CountsAsNotShip(l, "off-noop") /\ CountsAsNotShip(l, "pass-through")
    /\ \A x \in Legs : l[x].verdict # None
    /\ OutputsDiffer(l)

-----------------------------------------------------------------------------
(* The reuse record.  write_record: a record that claims contribution must *)
(* carry evidence of one of two mechanisms; the predicates behind those    *)
(* two are not reached from the runner, which never names them.            *)
ReuseAccepted(rec) ==
    rec.contributed => rec.mechanism \in {"hash-linkage", "ablation-derived"}

\* bug: the output is taken as consumed because the engine was invoked
ReuseUnobserved(available, decision, output, graded, causal, notes) ==
    LET selected == available /\ decision = "use_capability"
        rejected == available /\ ~selected
    IN  [available |-> available, selected |-> selected, consumed |-> selected,
         contributed |-> selected /\ graded /\ causal,
         mechanism |-> IF graded THEN "a13-counterfactual-legs" ELSE None,
         rejected |-> rejected, reason |-> IF rejected THEN notes ELSE None]

(* The runner's record: the lifecycle it observed on the executed path.    *)
ReuseRecord(available, decision, output, graded, causal, notes) ==
    LET selected == available /\ decision = "use_capability"
        rejected == available /\ ~selected
    IN  [available |-> available, selected |-> selected,
         consumed |-> selected /\ output, contributed |-> selected /\ graded /\ causal,
         mechanism |-> IF ~available \/ rejected THEN None
                       ELSE IF graded THEN "a13-counterfactual-legs" ELSE "no-legs",
         rejected |-> rejected, reason |-> IF rejected THEN notes ELSE None]

(* order._reuse_ledger_reasons, for a whole record: the ledger agrees with *)
(* the arrival's decision, and a capability turned down is a reject with a *)
(* reason.                                                                 *)
ReuseLedgerValid(decision, rec) ==
    IF decision = "use_capability"
    THEN rec.selected /\ rec.available /\ rec.consumed /\ ~rec.rejected
    ELSE /\ ~rec.selected /\ ~rec.consumed
         /\ IF rec.available THEN rec.rejected /\ rec.reason \notin {None, "blank"}
            ELSE ~rec.rejected
=============================================================================
