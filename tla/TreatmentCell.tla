--------------------------- MODULE TreatmentCell ---------------------------
(***************************************************************************)
(* One estimand cell from its provider call to its evidence chain: the     *)
(* runner's main (benchmarks/fam-c/harness-run/run_arm_h1.py) driving the  *)
(* recorded call (harness/usage.py, harness/identity.py), the execution of *)
(* the answer, the three counterfactual legs inside the observed region    *)
(* (harness/a13_observer.py, harness/adaptation.py), their grading and     *)
(* receipt, the reuse record (harness/reuse_log.py) and the chain's gate.  *)
(*                                                                         *)
(* An attempt is one process, one step per file it writes; a process that  *)
(* raises or is killed ends, its files stay, and the cell is run again in  *)
(* the same directory by a new process.  Files with one name are written   *)
(* over by the next attempt, the artifacts of a call carry the call's id.  *)
(* Crash stands for a kill and for a refusal on bytes not modelled here.   *)
(* The chain itself is written in one step: EvidenceChain has its steps.   *)
(***************************************************************************)
EXTENDS UsageRules, CausalReceipt, FiniteSets

CONSTANTS
    Lanes,        \* lanes the cell may belong to
    Arrivals,     \* decisions and notes an answer within the contract may carry
    Usages,       \* usage blocks a provider may answer with
    Outputs,      \* bytes an engine or a solver may leave as its output
    Coverings,    \* how many registry schemas may cover the task's bytes
    MaxAttempts,  \* bound: processes started for the cell
    MaxFaults     \* bound: kills and edits

ASSUME TreatmentAssumption ==
    Lanes \subseteq DOMAIN LANES /\ MaxAttempts \in Nat /\ MaxFaults \in Nat

VARIABLES
    cell,        \* the cell: its lane, capability available or not, schemas
    attempts,    \* processes started; the last one's number
    proc,        \* the process: its program counter and what it holds
    observer,    \* a13_observer's counters, in that process
    paid,        \* attempt -> what became of its provider call
    stage,       \* attempts whose staged request is still there
    request, receipt, normalized,      \* attempt -> artifact of its call
    identity, arrival, reuse, manifest, chain,
    committed,   \* the identity record the chain's model-call link commits to
    outs,        \* leg -> attempt whose output bytes its file holds
    a13,         \* plan, journal, seal and grading -> attempt that wrote it
    causal,      \* A13-CAUSAL-RECEIPT.json
    faults

callFiles == <<stage, request, receipt, normalized>>
legFiles  == <<outs, a13, causal>>
runFiles  == <<identity, arrival, reuse, manifest, chain, committed>>
bounds    == <<cell, attempts, faults>>
vars      == <<bounds, proc, observer, paid, callFiles, legFiles, runFiles>>

Attempt == 1..MaxAttempts
Edited  == -1                  \* bytes nobody's run left

Sent    == Body("frozen", cell.lane)       \* the bytes on the wire
NoRun   == [exe |-> None, out |-> None, rc |-> -1, text |-> None, verdict |-> None]
NoRuns  == [x \in Legs |-> NoRun]
Idle    == [pc |-> "idle", decision |-> None, notes |-> None, pair |-> None,
            ran |-> NoRuns, judged |-> {}, trips |-> 0, legs |-> "none"]
Silent  == [calls |-> 0, depth |-> 0, trips |-> 0, journal |-> "open"]

(* Checker outcomes over an output: return code and kind of text.          *)
Grades == {[rc |-> 0, text |-> "report"], [rc |-> 1, text |-> "report"],
           [rc |-> 1, text |-> "crash"], [rc |-> 2, text |-> "report"]}
Graded(exe, out, g) ==
    [exe |-> exe, out |-> out, rc |-> g.rc, text |-> g.text, verdict |-> Verdict(g.rc)]

(* A run of the answer, graded; without an output it is not, but blocked,  *)
(* "missing output".  Only whether it ships is looked at again.            *)
Runs(exe) ==
    {Graded(exe, o, [rc |-> rc, text |-> "report"]) : o \in Outputs, rc \in 0..1}
        \cup {[NoRun EXCEPT !.exe = exe, !.text = "report", !.verdict = "blocked"]}

n        == attempts
At(pc)   == proc.pc = pc
Go(pc)   == proc' = [proc EXCEPT !.pc = pc]
Raise    == proc' = Idle

Init ==
    /\ cell \in [lane : Lanes, available : BOOLEAN, covering : Coverings]
    /\ attempts = 0 /\ proc = Idle /\ observer = Silent
    /\ paid = [a \in Attempt |-> "no"] /\ stage = {}
    /\ request = [a \in Attempt |-> NoFile]
    /\ receipt = [a \in Attempt |-> NoFile]
    /\ normalized = [a \in Attempt |-> NoFile]
    /\ identity = NoFile /\ arrival = NoFile /\ reuse = NoFile /\ manifest = NoFile
    /\ chain = 0 /\ committed = NoFile
    /\ outs = [x \in Legs |-> 0]
    /\ a13 = [x \in {"plan", "journal", "seal", "grading"} |-> 0]
    /\ causal = NoFile
    /\ faults = 0

-----------------------------------------------------------------------------
(* ------------------------- the recorded call --------------------------- *)

(* The owed cell is started, its request persisted under a private name.   *)
StageRequest ==
    /\ At("idle") /\ chain = 0 /\ attempts < MaxAttempts
    /\ attempts' = attempts + 1
    /\ stage' = stage \cup {attempts + 1}
    /\ proc' = [Idle EXCEPT !.pc = "send"]
    /\ observer' = Silent
    /\ UNCHANGED <<cell, faults, paid, request, receipt, normalized, legFiles, runFiles>>

(* A transport error, or a paid answer that is malformed or has no         *)
(* content: the finally clause unlinks the staged request.                 *)
CallFails ==
    /\ At("send")
    /\ paid' \in {paid, [paid EXCEPT ![n] = "discarded"]}
    /\ stage' = stage \ {n}
    /\ Raise
    /\ UNCHANGED <<bounds, observer, request, receipt, normalized, legFiles, runFiles>>

CallAnswered ==
    /\ At("send")
    /\ paid' = [paid EXCEPT ![n] = "usable"]
    /\ Go("answered")
    /\ UNCHANGED <<bounds, observer, callFiles, legFiles, runFiles>>

\* bug: the staged request is dropped and written again with the receipt
DropStage ==
    /\ At("answered")
    /\ stage' = stage \ {n}
    /\ Go("receipt")
    /\ UNCHANGED <<bounds, observer, paid, request, receipt, normalized, legFiles, runFiles>>

(* os.replace: the staged bytes take the call's name.                      *)
RenameRequest ==
    /\ At("answered")
    /\ stage' = stage \ {n}
    /\ request' = [request EXCEPT ![n] = Sent]
    /\ Go("receipt")
    /\ UNCHANGED <<bounds, observer, paid, receipt, normalized, legFiles, runFiles>>

WriteReceipt ==
    /\ At("receipt")
    /\ \E u \in Usages : receipt' = [receipt EXCEPT ![n] = ReceiptOf(cell.lane, Sent, u)]
    /\ Go("normalize")
    /\ UNCHANGED <<bounds, observer, paid, stage, request, normalized, legFiles, runFiles>>

(* write_normalized_usage, straight after the call: it raises on a usage   *)
(* block its adapter refuses.                                              *)
WriteNormalized ==
    /\ At("normalize")
    /\ IF Normalizable(receipt[n])
       THEN /\ normalized' = [normalized EXCEPT ![n] = NormalizedOf(receipt[n])]
            /\ Go("identify")
       ELSE Raise /\ UNCHANGED normalized
    /\ UNCHANGED <<bounds, observer, paid, stage, request, receipt, legFiles, runFiles>>

Response(echo) == [by |-> n, echoed |-> echo, id |-> "given"]

\* bug: identity.json is written once
KeepIdentity ==
    /\ At("identify")
    /\ \/ /\ \E echo \in {"acceptable", "other"} :
               identity' = IF identity # NoFile THEN identity
                           ELSE IdentityOf(cell.lane, receipt[n], Response(echo))
          /\ Go("prereg")
       \/ Raise /\ UNCHANGED identity
    /\ UNCHANGED <<bounds, observer, paid, callFiles, legFiles, arrival, reuse, manifest,
                   chain, committed>>

(* record_identity: nothing is written without an echoed model and a       *)
(* response id; the echo itself is compared with the prereg afterwards.    *)
RecordIdentity ==
    /\ At("identify")
    /\ \/ /\ \E echo \in {"acceptable", "other"} :
               identity' = IdentityOf(cell.lane, receipt[n], Response(echo))
          /\ Go("prereg")
       \/ Raise /\ UNCHANGED identity
    /\ UNCHANGED <<bounds, observer, paid, callFiles, legFiles, arrival, reuse, manifest,
                   chain, committed>>

CheckPrereg ==
    /\ At("prereg")
    /\ IF CheckAgainstPrereg(cell.lane, identity) THEN Go("arrive") ELSE Raise
    /\ UNCHANGED <<bounds, observer, paid, callFiles, legFiles, runFiles>>

(* note_provider_call, then extract: an answer outside the contract raises *)
(* after the call was paid.                                                *)
Arrive ==
    /\ At("arrive")
    /\ observer' = [observer EXCEPT !.calls = @ + 1]
    /\ \/ \E a \in Arrivals :
             /\ arrival' = [file |-> "arrival", by |-> n, decision |-> a.decision,
                            notes |-> a.notes]
             /\ proc' = [proc EXCEPT !.pc = "execute", !.decision = a.decision,
                                     !.notes = a.notes]
       \/ Raise /\ UNCHANGED arrival
    /\ UNCHANGED <<bounds, paid, callFiles, legFiles, identity, reuse, manifest, chain,
                   committed>>

-----------------------------------------------------------------------------
(* --------------------- execution and the three legs -------------------- *)

(* execute_arrival: the locked engine on the model's pair, or the model's  *)
(* solver; refused when the cell has no capability to use.  The legs run   *)
(* for an engine execution only.                                           *)
Execute ==
    /\ At("execute")
    /\ IF proc.decision = "use_capability" /\ ~cell.available
       THEN Raise /\ UNCHANGED outs
       ELSE LET engine == proc.decision = "use_capability" IN
            \E r \in Runs(IF engine THEN "K" ELSE "solver"),
               pair \in {"F-pair", "model-pair"} :
              /\ ~engine => pair = "model-pair"
              /\ outs' = [outs EXCEPT !["on"] = IF r.out = None THEN @ ELSE n]
              /\ proc' = [proc EXCEPT !.pc = IF engine THEN "enter" ELSE "record",
                                      !.pair = pair, !.ran["on"] = r]
    /\ UNCHANGED <<bounds, observer, paid, callFiles, a13, causal, runFiles>>

(* The grading plan is written, provider calls are stubbed, region_enter.  *)
RegionEnter(o) == [o EXCEPT !.depth = @ + 1, !.trips = 0, !.journal = "open"]

EnterRegion ==
    /\ At("enter")
    /\ a13' = [a13 EXCEPT !["plan"] = n]
    /\ observer' = RegionEnter(observer)
    /\ Go("resolve")
    /\ UNCHANGED <<bounds, paid, callFiles, outs, causal, runFiles>>

(* The hook vetoes a denied event and records it.  What is raised is a     *)
(* RuntimeError: reading the frozen bytes turns it into an omission, and   *)
(* resolving the schema takes it for a schema that does not cover.         *)
RecordTrip(o) == [o EXCEPT !.trips = @ + 1]

Omit == proc' = [proc EXCEPT !.pc = "exit"]

ResolveSchema ==
    /\ At("resolve")
    /\ \/ Omit /\ observer' \in {observer, RecordTrip(observer)}
       \/ \E lost \in {k \in 0..1 : k <= cell.covering} :
             /\ observer' \in {RecordTrip(observer)}
                                \cup IF lost = 0 THEN {observer} ELSE {}
             /\ IF cell.covering - lost = 1 THEN Go("off") ELSE Omit
    /\ UNCHANGED <<bounds, paid, callFiles, legFiles, runFiles>>

(* The same engine on the noop pair, executed and not graded.              *)
OffLeg ==
    /\ At("off")
    /\ \E o \in Outputs \cup {None} :
          /\ outs' = [outs EXCEPT !["off-noop"] = IF o = None THEN @ ELSE n]
          /\ proc' = [proc EXCEPT !.pc = "pass",
                                  !.ran["off-noop"] = [NoRun EXCEPT !.out = o]]
    /\ UNCHANGED <<bounds, observer, paid, callFiles, a13, causal, runFiles>>

(* F's own data document as the answer, the engine left out.               *)
PassLeg ==
    /\ At("pass")
    /\ LET o == Passthrough(AdaptTask(TRUE, "F_v1")) IN
       /\ outs' = [outs EXCEPT !["pass-through"] = n]
       /\ proc' = [proc EXCEPT !.pc = "journal", !.ran["pass-through"] = [NoRun EXCEPT !.out = o]]
    /\ UNCHANGED <<bounds, observer, paid, callFiles, a13, causal, runFiles>>

(* trip_slice: the trips since the region was entered.                     *)
TripSlice(o) == o.trips

(* The trips are sampled and the journal closed and written; a launch      *)
(* history other than [snapshot-verify, engine] raises before.  A trip     *)
(* between the sample and the journal raises too, so one step does.        *)
SealJournal ==
    /\ At("journal")
    /\ \/ /\ a13' = [a13 EXCEPT !["journal"] = n]
          /\ observer' = [observer EXCEPT !.journal = "closed"]
          /\ proc' = [proc EXCEPT !.pc = "seal", !.trips = TripSlice(observer)]
       \/ Raise /\ UNCHANGED <<a13, observer>>
    /\ UNCHANGED <<bounds, paid, callFiles, outs, causal, runFiles>>

Seal ==
    /\ At("seal")
    /\ a13' = [a13 EXCEPT !["seal"] = n]
    /\ proc' = [proc EXCEPT !.pc = "exit", !.legs = "sealed"]
    /\ UNCHANGED <<bounds, observer, paid, callFiles, outs, causal, runFiles>>

\* bug: the region is left only by the path that closes the journal
RegionClosed(o) == [o EXCEPT !.depth = IF o.journal = "closed" THEN @ - 1 ELSE @]

(* The finally clause, on every way out: region_exit, the stubs undone.    *)
RegionExit(o) == [o EXCEPT !.depth = IF @ > 0 THEN @ - 1 ELSE @]

ExitRegion ==
    /\ At("exit")
    /\ observer' = RegionExit(observer)
    /\ Go(IF proc.legs = "sealed" THEN "grade" ELSE "record")
    /\ UNCHANGED <<bounds, paid, callFiles, legFiles, runFiles>>

\* bug: the output file only has to be there
SealedFileThere == \A x \in Legs : proc.ran[x].out # None => outs[x] # 0

(* grade_a13_legs: a sealed output must still be on disk, byte for byte.   *)
SealedBytesKept == \A x \in Legs : proc.ran[x].out # None => outs[x] = n

(* ON is graded again and must repeat its verdict; the counterfactuals are *)
(* graded here for the first time, and not at all without an output.       *)
Grade ==
    /\ At("grade")
    /\ IF SealedBytesKept
       THEN \/ \E off, pass \in Grades :
                  /\ proc' = [proc EXCEPT
                       !.pc = "prove", !.legs = "graded",
                       !.judged = {x \in Legs : outs[x] = n},
                       !.ran["off-noop"] = IF @.out = None THEN @ ELSE Graded("K", @.out, off),
                       !.ran["pass-through"] = Graded(None, @.out, pass)]
                  /\ a13' = [a13 EXCEPT !["grading"] = n]
            \/ proc.ran["on"].out # None /\ Raise /\ UNCHANGED a13
       ELSE Raise /\ UNCHANGED a13
    /\ UNCHANGED <<bounds, observer, paid, callFiles, outs, causal, runFiles>>

(* The receipt, derived from the sealed legs and their grades.             *)
LegEvidence ==
    LET det == BuildDeterminant("K", "S", "T")
        adapted(x) == CASE x = "on" -> proc.pair
                        [] x = "off-noop" -> AdaptTask(TRUE, "NOOP_v1")
                        [] OTHER -> AdaptTask(TRUE, "F_v1")
    IN  [x \in Legs |-> EnrichLeg(x, det, "checker", adapted(x), proc.ran[x])]

(* What a proven receipt must mean, from what ran and from the bytes that  *)
(* were on disk when the checker read them: the locked engine shipped on   *)
(* F's own pair, and neither the noop pair through that engine nor F's     *)
(* data alone passed a checker that worked.                                *)
Caused ==
    /\ proc.ran["on"].exe = "K" /\ proc.pair = "F-pair" /\ proc.ran["on"].rc = 0
    /\ \A x \in {"off-noop", "pass-through"} :
          /\ proc.ran[x].rc = 1 /\ proc.ran[x].text = "report"
          /\ proc.ran[x].out # proc.ran["on"].out
    /\ proc.judged = Legs

WriteCausal ==
    /\ At("prove")
    /\ LET det == BuildDeterminant("K", "S", "T") IN
       causal' = [file |-> "causal", by |-> n, trips |-> proc.trips, caused |-> Caused,
                  proven |-> DeriveCausalContribution(det, det, ProveDeterminism(TRUE),
                                                      LegEvidence)]
    /\ proc' = [proc EXCEPT !.pc = "record", !.judged = {}, !.ran["off-noop"] = NoRun,
                            !.ran["pass-through"] = NoRun]
    /\ UNCHANGED <<bounds, observer, paid, callFiles, outs, a13, runFiles>>

-----------------------------------------------------------------------------
(* ------------------------- record, manifest, chain --------------------- *)

WriteReuse ==
    /\ At("record")
    /\ LET causes == proc.legs = "graded" /\ causal.proven
           rec == ReuseRecord(cell.available, proc.decision, proc.ran["on"].out # None,
                              proc.legs = "graded", causes, proc.notes) IN
       IF ReuseAccepted(rec)
       THEN reuse' = [file |-> "reuse", by |-> n, record |-> rec] /\ Go("manifest")
       ELSE Raise /\ UNCHANGED reuse
    /\ UNCHANGED <<bounds, observer, paid, callFiles, legFiles, identity, arrival, manifest,
                   chain, committed>>

\* bug: the manifest names the leg files found in the directory
LegFilesFound == {x \in {"journal", "seal", "grading"} : a13[x] # 0}

(* The manifest names the seal, grading, journal and receipt of this       *)
(* process's legs, and none when they were omitted.                        *)
LegFilesNamed ==
    IF proc.legs = "graded" THEN {"journal", "seal", "grading"} ELSE {}

WriteManifest ==
    /\ At("manifest")
    /\ manifest' = [file |-> "manifest", by |-> n, lane |-> cell.lane,
                    legs |-> LegFilesNamed, output |-> proc.ran["on"].out # None]
    /\ proc' = [Idle EXCEPT !.pc = "chain"]
    /\ UNCHANGED <<bounds, observer, paid, callFiles, legFiles, identity, arrival, reuse,
                   chain, committed>>

(* _wire_chain: every binding of the call is verified on the files before  *)
(* the first link; then the model-call link commits to the identity record *)
(* as it is now, and the cell is complete.                                 *)
ChainGate ==
    /\ VerifyRequestBinding(receipt[n], request[n], identity)
    /\ VerifyAdapterBinding(receipt[n], cell.lane)
    /\ VerifyNormalizedUsage(normalized[n], receipt[n])
    /\ VerifyIdentityBinding(identity, receipt[n])

WireChain ==
    /\ At("chain")
    /\ chain' = IF ChainGate THEN n ELSE 0
    /\ committed' = IF ChainGate THEN identity ELSE NoFile
    /\ Raise
    /\ UNCHANGED <<bounds, observer, paid, callFiles, legFiles, identity, arrival, reuse,
                   manifest>>

-----------------------------------------------------------------------------
Crash ==
    /\ ~At("idle") /\ faults < MaxFaults
    /\ faults' = faults + 1
    /\ Raise
    /\ UNCHANGED <<cell, attempts, observer, paid, callFiles, legFiles, runFiles>>

(* A receipt with another usage block, its hash recomputed or not, or      *)
(* relabeled with another adapter.                                         *)
Rewritten(r) ==
    ({[r EXCEPT !.usage = u] : u \in Usages}
        \cup {[r EXCEPT !.usage = u, !.usageSha = u] : u \in Usages}
        \cup {[r EXCEPT !.adapter = id] : id \in DOMAIN PROVIDER_NORMALIZERS}) \ {r}

(* An artifact of the last call is rewritten by hand, its own hash         *)
(* recomputed or not, a receipt also together with a normalized artifact   *)
(* written anew over it: before the chain's gate, the first to read them   *)
(* again, or once the cell is complete.                                    *)
EditCall ==
    /\ faults < MaxFaults /\ identity # NoFile /\ identity.by = n
    /\ At("chain") \/ chain = n
    /\ faults' = faults + 1
    /\ \/ \E r \in Rewritten(receipt[n]) :
             /\ receipt' = [receipt EXCEPT ![n] = r]
             /\ normalized' \in {normalized} \cup
                    IF Normalizable(r) THEN {[normalized EXCEPT ![n] = NormalizedOf(r)]}
                    ELSE {}
             /\ UNCHANGED <<request, identity>>
       \/ \E restamped \in BOOLEAN :
             /\ normalized' = [normalized EXCEPT ![n].metrics.work = @ + 1,
                                                 ![n].intact = restamped]
             /\ UNCHANGED <<request, receipt, identity>>
       \/ /\ request' = [request EXCEPT ![n].params = "other"]
          /\ UNCHANGED <<receipt, normalized, identity>>
       \/ /\ \/ identity' = [identity EXCEPT !.params = "other"]
             \/ \E said \in {"other", "none"} :
                   \/ identity' = [identity EXCEPT !.echoed = said]
                   \/ identity' = [identity EXCEPT !.id = said]
          /\ UNCHANGED <<request, receipt, normalized>>
    /\ UNCHANGED <<cell, attempts, proc, observer, paid, stage, legFiles, arrival, reuse,
                   manifest, chain, committed>>

(* An output file is rewritten by hand before the grading, which is the    *)
(* last to read it.                                                        *)
EditOutput ==
    /\ faults < MaxFaults
    /\ proc.pc \in {"enter", "resolve", "off", "pass", "journal", "seal", "exit", "grade"}
    /\ faults' = faults + 1
    /\ \E x \in Legs : outs[x] > 0 /\ outs' = [outs EXCEPT ![x] = Edited]
    /\ UNCHANGED <<cell, attempts, proc, observer, paid, callFiles, a13, causal, runFiles>>

Call == \/ StageRequest \/ CallFails \/ CallAnswered \/ RenameRequest \/ WriteReceipt
        \/ WriteNormalized \/ RecordIdentity \/ CheckPrereg \/ Arrive

RunLegs == \/ EnterRegion \/ ResolveSchema \/ OffLeg \/ PassLeg \/ SealJournal \/ Seal
           \/ ExitRegion \/ Grade \/ WriteCausal

Next == \/ Call \/ Execute \/ RunLegs
        \/ WriteReuse \/ WriteManifest \/ WireChain
        \/ Crash \/ EditCall \/ EditOutput

Spec == Init /\ [][Next]_vars
-----------------------------------------------------------------------------
TypeOK ==
    /\ attempts \in 0..MaxAttempts /\ faults \in 0..MaxFaults /\ chain \in 0..MaxAttempts
    /\ proc.pc \in {"idle", "send", "answered", "receipt", "normalize", "identify",
                    "prereg", "arrive", "execute", "enter", "resolve", "off", "pass",
                    "journal", "seal", "exit", "grade", "prove", "record", "manifest",
                    "chain"}
    /\ proc.ran \in [Legs -> [exe : {"K", "solver", None}, out : Outputs \cup {"F-records", None},
                              rc : -1..2, text : {"report", "crash", None},
                              verdict : {"ship", "fix", "blocked", None}]]
    /\ observer.calls \in 0..1 /\ observer.depth \in 0..1 /\ observer.trips \in 0..1
    /\ ~At("idle") => (observer.depth = 1 <=> proc.pc \in {"resolve", "off", "pass",
                                                           "journal", "seal", "exit"})
    /\ paid \in [Attempt -> {"no", "discarded", "usable"}]
    /\ stage \subseteq Attempt
    /\ outs \in [Legs -> {Edited} \cup 0..MaxAttempts]
    /\ a13 \in [{"plan", "journal", "seal", "grading"} -> 0..MaxAttempts]

(* A receipt that says the capability caused the outcome says it of bytes  *)
(* this attempt produced: the locked engine on F's pair shipped, and both  *)
(* counterfactuals were refused by a checker that worked, whatever files   *)
(* an earlier attempt left and whatever was edited before the grading      *)
(* (derive_causal_contribution; grade_a13_legs re-hashes the sealed bytes).*)
ProvenMeansCaused == causal # NoFile /\ causal.proven => causal.caused

(* A paid call whose answer could be used always leaves its request bytes, *)
(* under the staged or the final name; what follows is written in order,   *)
(* so an artifact never stands without the one it was derived from         *)
(* (recorded_call: persisted bytes first; call: normalization is capture). *)
PaidCallsTraced ==
    \A a \in Attempt :
        /\ paid[a] = "usable" => a \in stage \/ request[a] # NoFile
        /\ receipt[a] # NoFile => request[a] # NoFile
        /\ normalized[a] # NoFile => receipt[a] # NoFile
        /\ identity # NoFile /\ identity.by = a => normalized[a] # NoFile

(* Everything a completed cell's evidence names was written by the attempt *)
(* that completed it: no identity, arrival, ledger or leg file of an       *)
(* attempt that died is taken over (the manifest is genesis of the chain). *)
CompletedCellOwnsItsEvidence ==
    chain # 0 =>
        /\ identity.by = chain /\ arrival.by = chain
        /\ reuse.by = chain /\ manifest.by = chain
        /\ \A x \in manifest.legs : a13[x] = chain
        /\ manifest.legs # {} => causal.by = chain
        /\ manifest.output => outs["on"] \in {chain, Edited}

(* The artifacts of a call are those some answer to the bytes sent would   *)
(* have left: a usage block, a model echoed and a response id, no matter   *)
(* which, with everything else as the attempt wrote or derived it.         *)
LeftByAnAnswer(a) ==
    \E u \in Usages, echo \in {"acceptable", "other"}, id \in {"given", "other"} :
        LET r == ReceiptOf(cell.lane, Sent, u) IN
        /\ Normalizable(r)
        /\ request[a] = Sent /\ receipt[a] = r /\ normalized[a] = NormalizedOf(r)
        /\ identity = IdentityOf(cell.lane, r, [by |-> a, echoed |-> echo, id |-> id])

(* A completed cell passes admissibility's usage gates exactly when it     *)
(* spent model work and its call's artifacts fit together as those of an   *)
(* answer to the bytes sent.  So every edit that breaks a binding is       *)
(* found, with hashes recomputed or not, a receipt relabeled for another   *)
(* adapter even with its normalized artifact written anew; what passes is  *)
(* another usage block with its artifact anew, another echo, another id    *)
(* (verify_normalized_usage, verify_adapter_binding,                       *)
(* verify_identity_binding).                                               *)
AdmittedIffCoherent ==
    chain # 0 =>
        (UsageGates(manifest.lane, receipt[chain], normalized[chain], request[chain],
                    identity)
            <=> LeftByAnAnswer(chain) /\ NormalizeUsage(receipt[chain]).work > 0)

(* What the gates let through of the identity, promotion does not: a run   *)
(* whose identity evidence promotes has the record record_identity wrote,  *)
(* model echoed and parameters included, whether it was edited before the  *)
(* chain committed to it or since.  Only the response id, which nothing is *)
(* compared with, may have been replaced before (_identity_evidence:       *)
(* "post-hoc identity/echo edits -> deny").                                *)
PromotableIdentityRecorded ==
    chain # 0 /\ IdentityEvidence(manifest.lane, receipt[chain], identity, committed) =>
        identity = IdentityOf(cell.lane, receipt[chain],
                              [by |-> chain, echoed |-> "acceptable", id |-> identity.id])

(* The ledger the runner writes is one the order accepts, but for the two  *)
(* completed cells it refuses for ever: a capability used without output   *)
(* and a capability turned down without a reason (_reuse_ledger_reasons).  *)
LedgerAcceptedUnlessUnfinished ==
    chain # 0 =>
        (ReuseLedgerValid(arrival.decision, reuse.record)
            <=> IF arrival.decision = "use_capability" THEN manifest.output
                ELSE cell.available => arrival.notes \notin {None, "blank"})

(* A cell whose legs prove the contribution can record it: the attempt     *)
(* that proved it goes on to the manifest (run_arm_h1.main:                *)
(* "materially_contributed is the DERIVED causal outcome of the executed   *)
(* counterfactual legs").                                                  *)
ContributionRecorded ==
    causal # NoFile /\ causal.proven /\ causal.by = attempts /\ faults = 0 =>
        ~At("idle")
=============================================================================
