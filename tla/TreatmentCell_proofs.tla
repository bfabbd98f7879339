------------------------ MODULE TreatmentCell_proofs ------------------------
(***************************************************************************)
(* One estimand cell, for every set of arrivals, usage blocks and outputs, *)
(* and every number of attempts, kills and edits.  The invariant says, for *)
(* each point of the program, which files the running attempt has written  *)
(* by then; what an attempt that ended left behind is bound by nothing but *)
(* its own order.                                                          *)
(***************************************************************************)
EXTENDS TreatmentCell, TLAPS

CallPcs   == {"send", "answered", "receipt", "normalize", "identify"}
RegionPcs == {"resolve", "off", "pass", "journal", "seal", "exit"}
Pcs       == {"idle", "prereg", "arrive", "execute", "enter", "grade", "prove",
              "record", "manifest", "chain"} \cup CallPcs \cup RegionPcs
Later     == Pcs \ ({"idle"} \cup CallPcs)
Answered  == Later \ {"prereg", "arrive"}

LegRun == [exe : {"K", "solver", None}, out : Outputs \cup {"F-records", None},
           rc : -1..2, text : {"report", "crash", None},
           verdict : {"ship", "fix", "blocked", None}]

Process ==
    [pc : Pcs, decision : {a.decision : a \in Arrivals} \cup {None},
     notes : {a.notes : a \in Arrivals} \cup {None},
     pair : {"F-pair", "model-pair", None}, ran : [Legs -> LegRun],
     judged : SUBSET Legs, trips : 0..1, legs : {"none", "sealed", "graded"}]

LegFiles == {"plan", "journal", "seal", "grading"}

Types ==
    /\ attempts \in 0..MaxAttempts /\ faults \in 0..MaxFaults /\ chain \in 0..MaxAttempts
    /\ proc \in Process /\ (~At("idle") => attempts \in Attempt)
    /\ observer \in [calls : 0..1, depth : 0..1, trips : 0..1, journal : {"open", "closed"}]
    /\ paid \in [Attempt -> {"no", "discarded", "usable"}] /\ stage \subseteq Attempt
    /\ outs \in [Legs -> {Edited} \cup 0..MaxAttempts]
    /\ a13 \in [LegFiles -> 0..MaxAttempts]

(* The observer through the process: it has counted no call before the     *)
(* answer, it is inside the region exactly between enter and exit, and no  *)
(* trip precedes the schema.                                               *)
ObserverInv ==
    /\ proc.pc \in CallPcs \cup {"prereg", "arrive"} => observer.calls = 0
    /\ ~At("idle") => (observer.depth = 1 <=> proc.pc \in RegionPcs)
    /\ At("resolve") => observer.trips = 0

(* A file that was written; editing leaves it one.                         *)
Written(f) == DOMAIN f # DOMAIN NoFile

(* The artifacts of a call, and which of them the running attempt has.     *)
TracedInv ==
    /\ DOMAIN request = Attempt /\ DOMAIN receipt = Attempt /\ DOMAIN normalized = Attempt
    /\ \A a \in Attempt :
          /\ request[a] = NoFile \/ Written(request[a])
          /\ receipt[a] = NoFile \/ Written(receipt[a])
          /\ normalized[a] = NoFile \/ Written(normalized[a])
          /\ a > attempts => paid[a] # "usable"
    /\ \/ identity = NoFile
       \/ Written(identity) /\ "by" \in DOMAIN identity /\ identity.by \in Attempt
    /\ At("send") => paid[n] # "usable"
    /\ proc.pc \in {"send", "answered"} => n \in stage
    /\ At("receipt") => request[n] # NoFile
    /\ At("normalize") => receipt[n] # NoFile
    /\ At("identify") => normalized[n] # NoFile

(* The files of the legs, and what the process holds of them.              *)
LegsInv ==
    /\ proc.legs = "none" \/ proc.pc \in {"exit", "grade", "prove", "record", "manifest"}
    /\ proc.pc \in {"exit", "grade"} => proc.legs # "graded"
    /\ proc.pc \in {"grade", "prove"} => proc.legs # "none"
    /\ At("prove") => /\ proc.legs = "graded"
                      /\ \A x \in Legs : proc.ran[x].out # None => x \in proc.judged
    /\ proc.pc \in {"record", "manifest"} => proc.legs # "sealed"
    /\ At("seal") \/ proc.legs # "none" => a13["journal"] = n
    /\ proc.legs # "none" => a13["seal"] = n
    /\ proc.legs = "graded" => a13["grading"] = n
    /\ proc.legs = "graded" /\ ~At("prove") => causal.by = n
    /\ ~At("idle") /\ proc.ran["on"].out # None => outs["on"] \in {n, Edited}

CausedInv == causal = NoFile \/ (causal.proven => causal.caused)

(* What the running attempt has recorded of itself.                        *)
OwnInv ==
    /\ chain # 0 => At("idle") /\ chain = n
    /\ proc.pc \in Later => identity # NoFile /\ identity.by = n
    /\ proc.pc \in Answered \ {"chain"} => /\ arrival.by = n
                               /\ arrival.decision = proc.decision
                               /\ arrival.notes = proc.notes
    /\ At("manifest") => reuse.by = n

(* What the manifest, and with it the chain, says of the attempt's files.  *)
ChainedInv ==
    At("chain") \/ chain # 0 =>
        /\ identity # NoFile /\ identity.by = n /\ arrival.by = n
        /\ reuse.by = n /\ manifest.by = n
        /\ manifest.legs \subseteq {"journal", "seal", "grading"}
        /\ \A x \in manifest.legs : a13[x] = n
        /\ manifest.legs # {} => causal.by = n
        /\ manifest.output => outs["on"] \in {n, Edited}

(* The reuse record of the running attempt, as the order will judge it.    *)
ValidUnlessUnfinished(decision, notes, output) ==
    ReuseLedgerValid(decision, reuse.record)
        <=> IF decision = "use_capability" THEN output
            ELSE cell.available => notes \notin {None, "blank"}

LedgerInv ==
    /\ proc.pc \in Answered \ {"execute", "chain"} /\ proc.decision = "use_capability" =>
          cell.available
    /\ At("manifest") =>
          ValidUnlessUnfinished(proc.decision, proc.notes, proc.ran["on"].out # None)
    /\ At("chain") \/ chain # 0 =>
          ValidUnlessUnfinished(arrival.decision, arrival.notes, manifest.output)

(* The artifacts of the running attempt's call, all from one usage block,  *)
(* with the model echoed and the id its response carried.                  *)
WrittenFrom(u, echo, id) ==
    LET r == ReceiptOf(cell.lane, Sent, u) IN
    /\ Normalizable(r)
    /\ request[n] = Sent /\ receipt[n] = r /\ normalized[n] = NormalizedOf(r)
    /\ identity = IdentityOf(cell.lane, r, [by |-> n, echoed |-> echo, id |-> id])

(* What an edit leaves of them: a receipt for the bytes sent, a normalized *)
(* artifact of some such receipt, and an identity record of this attempt.  *)
ReceiptRecord ==
    [file : {"receipt"}, endpoint : {LANES[cell.lane].provider},
     model : {LANES[cell.lane].provider}, request : {Sent}, usage : Usages,
     usageSha : Usages, adapter : DOMAIN PROVIDER_NORMALIZERS]

NormalizedWith(r, metrics, intact) ==
    [file |-> "normalized", adapter |-> r.adapter, metrics |-> metrics,
     receipt |-> r, intact |-> intact]

NormalizedShaped ==
    /\ \E metrics, intact : \E r \in ReceiptRecord :
          normalized[n] = NormalizedWith(r, metrics, intact)
    /\ normalized[n].intact \in BOOLEAN

IdentityRecord ==
    [file : {"identity"}, by : {n}, endpoint : {LANES[cell.lane].provider},
     model : {LANES[cell.lane].provider}, request : {Sent}, params : {"frozen", "other"},
     echoed : {"acceptable", "other", "none"}, id : {"given", "other", "none"}]

Shaped ==
    receipt[n] \in ReceiptRecord /\ NormalizedShaped /\ identity \in IdentityRecord

(* The call's artifacts at each point: written in order up to the chain,   *)
(* open to edits from there.                                               *)
DerivedInv ==
    /\ cell.lane \in DOMAIN LANES
    /\ proc.pc \in {"receipt", "normalize", "identify"} => request[n] = Sent
    /\ At("normalize") => \E u \in Usages : receipt[n] = ReceiptOf(cell.lane, Sent, u)
    /\ At("identify") =>
          \E u \in Usages :
              LET r == ReceiptOf(cell.lane, Sent, u) IN
              Normalizable(r) /\ receipt[n] = r /\ normalized[n] = NormalizedOf(r)
    /\ At("prereg") =>
          \E u \in Usages, echo \in {"acceptable", "other"} : WrittenFrom(u, echo, "given")
    /\ proc.pc \in Later \ {"prereg", "chain"} =>
          \E u \in Usages : WrittenFrom(u, "acceptable", "given")
    /\ At("chain") \/ chain # 0 => manifest.lane = cell.lane /\ Shaped

(* The identity record the chain committed to had the parameters sent.     *)
CommittedInv == chain # 0 => committed.params = committed.request.params

Inductive ==
    /\ Types /\ ObserverInv /\ TracedInv /\ PaidCallsTraced /\ LegsInv /\ CausedInv
    /\ OwnInv /\ ChainedInv /\ LedgerInv /\ DerivedInv /\ CommittedInv

-----------------------------------------------------------------------------
(* A process that ended, and one that just started, are processes.         *)
LEMMA IdleTyped ==
    \A pc \in Pcs : LET p == [Idle EXCEPT !.pc = pc] IN
        /\ p \in Process /\ p.pc = pc /\ p.legs = "none"
        /\ \A x \in Legs : p.ran[x].out = None
<1>1. NoRun \in LegRun /\ NoRuns \in [Legs -> LegRun]
  BY DEF NoRun, NoRuns, LegRun
<1> SUFFICES ASSUME NEW pc \in Pcs
             PROVE  LET p == [Idle EXCEPT !.pc = pc] IN
                       /\ p \in Process /\ p.pc = pc /\ p.legs = "none"
                       /\ \A x \in Legs : p.ran[x].out = None
  OBVIOUS
<1> DEFINE p == [Idle EXCEPT !.pc = pc]
<1>2. p = [pc |-> pc, decision |-> None, notes |-> None, pair |-> None, ran |-> NoRuns,
           judged |-> {}, trips |-> 0, legs |-> "none"]
  BY DEF Idle
<1>3. p \in Process
  BY <1>1, <1>2 DEF Process
<1>4. \A x \in Legs : p.ran[x].out = None
  BY <1>2 DEF NoRuns, NoRun
<1> QED
  BY <1>2, <1>3, <1>4

LEMMA IdleFacts ==
    Idle \in Process /\ Idle.pc = "idle" /\ Idle.legs = "none"
        /\ \A x \in Legs : Idle.ran[x].out = None
<1>1. Idle = [Idle EXCEPT !.pc = "idle"]
  BY DEF Idle
<1>2. "idle" \in Pcs
  BY DEF Pcs
<1>3. LET p == [Idle EXCEPT !.pc = "idle"] IN
         p \in Process /\ p.pc = "idle" /\ p.legs = "none" /\ \A x \in Legs : p.ran[x].out = None
  BY <1>2, IdleTyped
<1> QED
  BY ONLY <1>1, <1>3

(* A graded run is a run, with its output and return code as given.        *)
LEMMA GradedTyped ==
    ASSUME NEW exe \in {"K", "solver", None}, NEW out \in Outputs \cup {"F-records", None},
           NEW rc \in 0..2, NEW text \in {"report", "crash"}
    PROVE  LET r == Graded(exe, out, [rc |-> rc, text |-> text])
           IN  r \in LegRun /\ r.out = out
  BY DEF Graded, LegRun, Verdict

(* Execute leaves a run of the answer whose output, if any, is this        *)
(* attempt's.                                                              *)
LEMMA ExecuteEffect ==
    ASSUME Types, Execute
    PROVE  \/ proc' = Idle /\ outs' = outs
           \/ \E r \in LegRun, pair \in {"F-pair", "model-pair"}, pc \in {"enter", "record"} :
                 /\ proc' = [proc EXCEPT !.pc = pc, !.pair = pair, !.ran["on"] = r]
                 /\ proc.decision = "use_capability" => cell.available
                 /\ outs' = [outs EXCEPT !["on"] = IF r.out = None THEN @ ELSE n]
<1>1. CASE proc.decision = "use_capability" /\ ~cell.available
  BY <1>1 DEF Execute, Raise
<1>2. CASE ~(proc.decision = "use_capability" /\ ~cell.available)
  <2> DEFINE engine == proc.decision = "use_capability"
             exe == IF engine THEN "K" ELSE "solver"
  <2>1. PICK r \in Runs(exe), pair \in {"F-pair", "model-pair"} :
            /\ outs' = [outs EXCEPT !["on"] = IF r.out = None THEN @ ELSE n]
            /\ proc' = [proc EXCEPT !.pc = IF engine THEN "enter" ELSE "record",
                                    !.pair = pair, !.ran["on"] = r]
    BY <1>2 DEF Execute
  <2>2. r \in LegRun
    <3>1. CASE \E o \in Outputs, rc \in 0..1 :
                  r = Graded(exe, o, [rc |-> rc, text |-> "report"])
      BY <3>1, GradedTyped
    <3>2. CASE r = [NoRun EXCEPT !.exe = exe, !.text = "report", !.verdict = "blocked"]
      <4>1. r = [exe |-> exe, out |-> None, rc |-> -1, text |-> "report",
                 verdict |-> "blocked"]
        BY <3>2 DEF NoRun
      <4> QED
        BY <4>1 DEF LegRun
    <3> QED
      BY <2>1, <3>1, <3>2 DEF Runs
  <2>3. (IF engine THEN "enter" ELSE "record") \in {"enter", "record"}
    OBVIOUS
  <2> QED
    BY <1>2, <2>1, <2>2, <2>3
<1> QED
  BY <1>1, <1>2

(* Grade keeps what the legs put out; a judged leg's file holds it.        *)
LEMMA GradeEffect ==
    ASSUME Types, Grade
    PROVE  \/ proc' = Idle /\ a13' = a13
           \/ /\ \E ran \in [Legs -> LegRun] :
                    /\ \A x \in Legs : ran[x].out = proc.ran[x].out
                    /\ proc' = [proc EXCEPT !.pc = "prove", !.legs = "graded", !.ran = ran,
                                            !.judged = {x \in Legs : outs[x] = n}]
              /\ \A x \in Legs : proc.ran[x].out # None => outs[x] = n
              /\ a13' = [a13 EXCEPT !["grading"] = n]
<1>1. CASE Raise /\ UNCHANGED a13
  BY <1>1 DEF Raise
<1>2. CASE ~(Raise /\ UNCHANGED a13)
  <2>1. PICK off \in Grades, pass \in Grades :
          /\ proc' = [proc EXCEPT
               !.pc = "prove", !.legs = "graded",
               !.judged = {x \in Legs : outs[x] = n},
               !.ran["off-noop"] = IF @.out = None THEN @ ELSE Graded("K", @.out, off),
               !.ran["pass-through"] = Graded(None, @.out, pass)]
          /\ SealedBytesKept /\ a13' = [a13 EXCEPT !["grading"] = n]
    BY <1>2 DEF Grade
  <2> DEFINE noop == proc.ran["off-noop"]
             through == proc.ran["pass-through"]
             ran == [proc.ran EXCEPT
                       !["off-noop"] = IF noop.out = None THEN noop
                                       ELSE Graded("K", noop.out, off),
                       !["pass-through"] = Graded(None, through.out, pass)]
  <2>2. proc' = [proc EXCEPT !.pc = "prove", !.legs = "graded", !.ran = ran,
                             !.judged = {x \in Legs : outs[x] = n}]
    BY <2>1 DEF Types, Process, Legs
  <2>3. noop \in LegRun /\ through \in LegRun /\ proc.ran \in [Legs -> LegRun]
    BY DEF Types, Process, Legs
  <2>4. /\ noop.out \in Outputs \cup {"F-records", None}
        /\ through.out \in Outputs \cup {"F-records", None}
    BY <2>3 DEF LegRun
  <2>5. \A g \in Grades, exe \in {"K", None}, out \in Outputs \cup {"F-records", None} :
            Graded(exe, out, g) \in LegRun /\ Graded(exe, out, g).out = out
    BY GradedTyped DEF Grades
  <2>6. ran \in [Legs -> LegRun] /\ \A x \in Legs : ran[x].out = proc.ran[x].out
    BY <2>3, <2>4, <2>5 DEF Legs
  <2> QED
    BY <2>1, <2>2, <2>6 DEF SealedBytesKept
<1> QED
  BY <1>1, <1>2

(* Between the steps of a process, all but its program counter stays.      *)
LEMMA GoTyped ==
    ASSUME proc \in Process
    PROVE  \A pc \in Pcs : [proc EXCEPT !.pc = pc] \in Process
  BY DEF Process

(* Every step leaves a process with values of its types.                   *)
LEMMA ProcessKept == ASSUME Types, [Next]_vars PROVE proc' \in Process
<1>1. proc \in Process
  BY DEF Types
<1>2. CASE proc' = proc
  BY <1>1, <1>2
<1>3. CASE proc' = Idle \/ \E pc \in Pcs : proc' = [Idle EXCEPT !.pc = pc]
  BY <1>3, IdleFacts, IdleTyped
<1>4. CASE \E pc \in Pcs : proc' = [proc EXCEPT !.pc = pc]
  BY <1>1, <1>4, GoTyped
<1>5. CASE Arrive
  <2>1. CASE proc' = Idle
    BY <2>1, IdleFacts
  <2>2. CASE proc' # Idle
    <3>1. PICK a \in Arrivals : proc' = [proc EXCEPT !.pc = "execute",
                                          !.decision = a.decision, !.notes = a.notes]
      BY <1>5, <2>2 DEF Arrive, Raise
    <3>2. /\ a.decision \in {x.decision : x \in Arrivals} \cup {None}
          /\ a.notes \in {x.notes : x \in Arrivals} \cup {None}
      OBVIOUS
    <3> QED
      BY <1>1, <3>1, <3>2 DEF Process, Pcs
  <2> QED
    BY <2>1, <2>2
<1>6. CASE Execute
  <2>1. CASE proc' = Idle
    BY <2>1, IdleFacts
  <2>2. CASE proc' # Idle
    <3>1. PICK r \in LegRun, pair \in {"F-pair", "model-pair"}, pc \in {"enter", "record"} :
              proc' = [proc EXCEPT !.pc = pc, !.pair = pair, !.ran["on"] = r]
      BY <1>6, <2>2, ExecuteEffect
    <3> QED
      BY <1>1, <3>1 DEF Process, Pcs, Legs
  <2> QED
    BY <2>1, <2>2
<1>7. CASE OffLeg
  <2>1. PICK o \in Outputs \cup {None} :
            proc' = [proc EXCEPT !.pc = "pass", !.ran["off-noop"] = [NoRun EXCEPT !.out = o]]
    BY <1>7 DEF OffLeg
  <2>2. [NoRun EXCEPT !.out = o] \in LegRun
    BY DEF NoRun, LegRun
  <2> QED
    BY <1>1, <2>1, <2>2 DEF Process, Pcs, RegionPcs, Legs
<1>8. CASE PassLeg
  <2>1. proc' = [proc EXCEPT !.pc = "journal",
                             !.ran["pass-through"] = [NoRun EXCEPT !.out = "F-records"]]
    BY <1>8 DEF PassLeg, Passthrough, AdaptTask
  <2>2. [NoRun EXCEPT !.out = "F-records"] \in LegRun
    BY DEF NoRun, LegRun
  <2> QED
    BY <1>1, <2>1, <2>2 DEF Process, Pcs, RegionPcs, Legs
<1>9. CASE SealJournal
  <2>1. proc' = Idle \/ proc' = [proc EXCEPT !.pc = "seal", !.trips = observer.trips]
    BY <1>9 DEF SealJournal, TripSlice, Raise
  <2>2. observer.trips \in 0..1
    BY DEF Types
  <2> QED
    BY <1>1, <2>1, <2>2, IdleFacts DEF Process, Pcs, RegionPcs
<1>10. CASE Seal
  BY <1>1, <1>10 DEF Seal, Process, Pcs, RegionPcs
<1>11. CASE Grade
  <2>1. CASE proc' = Idle
    BY <2>1, IdleFacts
  <2>2. CASE proc' # Idle
    <3>1. PICK ran \in [Legs -> LegRun] :
              proc' = [proc EXCEPT !.pc = "prove", !.legs = "graded", !.ran = ran,
                                   !.judged = {x \in Legs : outs[x] = n}]
      BY <1>11, <2>2, GradeEffect
    <3> QED
      BY <1>1, <3>1 DEF Process, Pcs
  <2> QED
    BY <2>1, <2>2
<1>12. CASE WriteCausal
  <2>1. proc' = [proc EXCEPT !.pc = "record", !.judged = {}, !.ran["off-noop"] = NoRun,
                             !.ran["pass-through"] = NoRun]
    BY <1>12 DEF WriteCausal
  <2>2. NoRun \in LegRun
    BY DEF NoRun, LegRun
  <2> QED
    BY <1>1, <2>1, <2>2 DEF Process, Pcs, Legs
<1>13. CASE \/ StageRequest \/ CallFails \/ CallAnswered \/ RenameRequest \/ WriteReceipt
            \/ WriteNormalized \/ RecordIdentity \/ CheckPrereg
  BY <1>13, <1>3, <1>4
     DEF StageRequest, CallFails, CallAnswered, RenameRequest, WriteReceipt,
         WriteNormalized, RecordIdentity, CheckPrereg, Go, Raise, Pcs, CallPcs
<1>14. CASE EnterRegion \/ ResolveSchema \/ ExitRegion
  BY <1>14, <1>4 DEF EnterRegion, ResolveSchema, Omit, ExitRegion, Go, Pcs, RegionPcs
<1>15. CASE WriteReuse \/ WriteManifest \/ WireChain \/ Crash
  BY <1>15, <1>3, <1>4 DEF WriteReuse, WriteManifest, WireChain, Crash, Go, Raise, Pcs
<1>16. CASE EditCall \/ EditOutput \/ UNCHANGED vars
  BY <1>16, <1>2 DEF EditCall, EditOutput, vars
<1> QED
  BY <1>5, <1>6, <1>7, <1>8, <1>9, <1>10, <1>11, <1>12, <1>13, <1>14, <1>15, <1>16
     DEF Next, Call, RunLegs

(* The observer's counters stay counters of at most one.                   *)
LEMMA ObserverTyped ==
    ASSUME Types, ObserverInv, [Next]_vars
    PROVE  observer' \in [calls : 0..1, depth : 0..1, trips : 0..1,
                          journal : {"open", "closed"}]
<1>1. observer \in [calls : 0..1, depth : 0..1, trips : 0..1, journal : {"open", "closed"}]
  BY DEF Types
<1>2. CASE observer' = observer
  BY <1>1, <1>2
<1>3. CASE StageRequest
  BY <1>3 DEF StageRequest, Silent
<1>4. CASE Arrive
  <2>1. observer.calls = 0 /\ observer' = [observer EXCEPT !.calls = @ + 1]
    BY <1>4 DEF Arrive, ObserverInv, At
  <2> QED
    BY <1>1, <2>1
<1>5. CASE EnterRegion
  <2>1. observer.depth = 0
    BY <1>1, <1>5 DEF EnterRegion, ObserverInv, At, RegionPcs
  <2>2. \A d, t \in 0..1 :
           [observer EXCEPT !.depth = d, !.trips = t, !.journal = "open"]
              \in [calls : 0..1, depth : 0..1, trips : 0..1, journal : {"open", "closed"}]
    BY <1>1
  <2>3. observer' = [observer EXCEPT !.depth = observer.depth + 1, !.trips = 0,
                                     !.journal = "open"]
    BY <1>5 DEF EnterRegion, RegionEnter
  <2>4. observer.depth + 1 \in 0..1 /\ 0 \in 0..1
    BY <2>1
  <2> QED
    BY <2>2, <2>3, <2>4
<1>6. CASE ResolveSchema
  <2>1. observer.trips = 0
    BY <1>6 DEF ResolveSchema, ObserverInv, At
  <2>2. observer' = observer \/ observer' = [observer EXCEPT !.trips = @ + 1]
    BY <1>6 DEF ResolveSchema, RecordTrip
  <2> QED
    BY <1>1, <2>1, <2>2
<1>7. CASE SealJournal
  BY <1>1, <1>7 DEF SealJournal
<1>8. CASE ExitRegion
  BY <1>1, <1>8 DEF ExitRegion, RegionExit
<1> QED
  BY <1>2, <1>3, <1>4, <1>5, <1>6, <1>7, <1>8
     DEF Next, Call, RunLegs, vars, CallFails, CallAnswered, RenameRequest, WriteReceipt,
         WriteNormalized, RecordIdentity, CheckPrereg, Execute, OffLeg, PassLeg, Seal,
         Grade, WriteCausal, WriteReuse, WriteManifest, WireChain, Crash, EditCall,
         EditOutput

(* The counts of attempts and faults, and the attempt a chain names.       *)
LEMMA CountsTyped ==
    ASSUME Types, [Next]_vars
    PROVE  /\ attempts' \in 0..MaxAttempts /\ faults' \in 0..MaxFaults
           /\ chain' \in 0..MaxAttempts
           /\ (~At("idle") => attempts \in Attempt)'
<1> USE TreatmentAssumption DEF Types, At, Attempt
<1>1. CASE StageRequest
  BY <1>1 DEF StageRequest, runFiles
<1>2. CASE WireChain
  BY <1>2, IdleFacts DEF WireChain, Raise, bounds, n
<1>3. CASE Crash
  BY <1>3, IdleFacts DEF Crash, Raise, runFiles
<1>4. CASE EditCall \/ EditOutput
  BY <1>4 DEF EditCall, EditOutput, runFiles
<1>5. CASE UNCHANGED <<attempts, faults, chain>> /\ (~At("idle") \/ proc' = proc)
  BY <1>5
<1> QED
  BY <1>1, <1>2, <1>3, <1>4, <1>5
     DEF Next, Call, RunLegs, vars, bounds, runFiles, CallFails, CallAnswered,
         RenameRequest, WriteReceipt, WriteNormalized, RecordIdentity, CheckPrereg,
         Arrive, Execute, EnterRegion, ResolveSchema, OffLeg, PassLeg, SealJournal, Seal,
         ExitRegion, Grade, WriteCausal, WriteReuse, WriteManifest

(* The files that are named by an attempt.                                 *)
LEMMA FilesTyped ==
    ASSUME Types, [Next]_vars
    PROVE  /\ paid' \in [Attempt -> {"no", "discarded", "usable"}] /\ stage' \subseteq Attempt
           /\ outs' \in [Legs -> {Edited} \cup 0..MaxAttempts]
           /\ a13' \in [LegFiles -> 0..MaxAttempts]
<1> USE DEF Types, n
<1>1. CASE UNCHANGED <<paid, stage, outs, a13>>
  BY <1>1
<1>2. CASE StageRequest
  BY <1>2, TreatmentAssumption DEF StageRequest, legFiles, Attempt
<1>3. CASE CallFails \/ CallAnswered \/ RenameRequest
  BY <1>3 DEF CallFails, CallAnswered, RenameRequest, callFiles, legFiles
<1>4. CASE Execute
  <2>1. UNCHANGED <<paid, stage, a13>>
    BY <1>4 DEF Execute, callFiles
  <2>2. outs' = outs \/ outs' = [outs EXCEPT !["on"] = n]
    <3>1. CASE outs' # outs
      <4>1. PICK r \in LegRun : outs' = [outs EXCEPT !["on"] = IF r.out = None THEN @ ELSE n]
        BY <1>4, <3>1, ExecuteEffect
      <4> QED
        BY <4>1, <3>1
    <3> QED
      BY <3>1
  <2> QED
    BY <2>1, <2>2
<1>5. CASE OffLeg \/ PassLeg
  <2>1. UNCHANGED <<paid, stage, a13>>
    BY <1>5 DEF OffLeg, PassLeg, callFiles
  <2>2. outs' = outs \/ \E x \in Legs : outs' = [outs EXCEPT ![x] = n]
    <3>1. CASE OffLeg
      <4>1. PICK o \in Outputs \cup {None} :
                outs' = [outs EXCEPT !["off-noop"] = IF o = None THEN @ ELSE n]
        BY <3>1 DEF OffLeg
      <4> QED
        BY <4>1 DEF Legs
    <3>2. CASE PassLeg
      BY <3>2 DEF PassLeg, Legs
    <3> QED
      BY <1>5, <3>1, <3>2
  <2> QED
    BY <2>1, <2>2
<1>6. CASE EnterRegion \/ SealJournal \/ Seal
  BY <1>6 DEF EnterRegion, SealJournal, Seal, callFiles, LegFiles
<1>7. CASE Grade
  <2>1. UNCHANGED <<paid, stage, outs>>
    BY <1>7 DEF Grade, callFiles
  <2>2. a13' = a13 \/ a13' = [a13 EXCEPT !["grading"] = n]
    BY <1>7, GradeEffect
  <2> QED
    BY <2>1, <2>2 DEF LegFiles
<1>8. CASE EditOutput
  BY <1>8 DEF EditOutput, callFiles
<1> QED
  BY <1>1, <1>2, <1>3, <1>4, <1>5, <1>6, <1>7, <1>8
     DEF Next, Call, RunLegs, vars, bounds, callFiles, legFiles, WriteReceipt,
         WriteNormalized, RecordIdentity, CheckPrereg, Arrive, ResolveSchema, ExitRegion,
         WriteCausal, WriteReuse, WriteManifest, WireChain, Crash, EditCall

LEMMA TypesKept == ASSUME Types, ObserverInv, [Next]_vars PROVE Types'
  BY ProcessKept, ObserverTyped, CountsTyped, FilesTyped DEF Types

-----------------------------------------------------------------------------
(* What four steps leave in the process and in the files they write.       *)
LEMMA ArriveFields ==
    ASSUME Types, Arrive
    PROVE  /\ At("arrive") /\ observer'.trips = observer.trips /\ observer'.depth = observer.depth
           /\ UNCHANGED <<bounds, paid, callFiles, legFiles, identity, reuse, manifest, chain>>
           /\ \/ proc' = Idle /\ arrival' = arrival
              \/ /\ proc'.pc = "execute" /\ proc'.legs = proc.legs
                 /\ proc'.ran = proc.ran /\ arrival'.by = n
                 /\ arrival'.decision = proc'.decision /\ arrival'.notes = proc'.notes
<1>1. /\ At("arrive") /\ observer' = [observer EXCEPT !.calls = @ + 1]
      /\ UNCHANGED <<bounds, paid, callFiles, legFiles, identity, reuse, manifest, chain>>
  BY DEF Arrive
<1>2. CASE proc' = Idle /\ arrival' = arrival
  BY <1>1, <1>2 DEF Types
<1>3. CASE ~(proc' = Idle /\ arrival' = arrival)
  <2>1. PICK a \in Arrivals :
          /\ arrival' = [file |-> "arrival", by |-> n, decision |-> a.decision,
                         notes |-> a.notes]
          /\ proc' = [proc EXCEPT !.pc = "execute", !.decision = a.decision,
                                  !.notes = a.notes]
    BY <1>3 DEF Arrive, Raise
  <2> QED
    BY <1>1, <2>1 DEF Types, Process
<1> QED
  BY <1>2, <1>3

LEMMA ExecuteFields ==
    ASSUME Types, Execute
    PROVE  /\ At("execute")
           /\ UNCHANGED <<bounds, observer, paid, callFiles, a13, causal, runFiles>>
           /\ \/ proc' = Idle /\ outs' = outs
              \/ /\ proc'.pc \in {"enter", "record"} /\ proc'.legs = proc.legs
                 /\ proc'.decision = proc.decision /\ proc'.notes = proc.notes
                 /\ proc.decision = "use_capability" => cell.available
                 /\ proc'.ran["on"].out # None => outs'["on"] = n
<1>1. /\ At("execute")
      /\ UNCHANGED <<bounds, observer, paid, callFiles, a13, causal, runFiles>>
  BY DEF Execute
<1>2. CASE proc' = Idle /\ outs' = outs
  BY <1>1, <1>2
<1>3. CASE ~(proc' = Idle /\ outs' = outs)
  <2>1. PICK r \in LegRun, pair \in {"F-pair", "model-pair"}, pc \in {"enter", "record"} :
           /\ proc' = [proc EXCEPT !.pc = pc, !.pair = pair, !.ran["on"] = r]
           /\ proc.decision = "use_capability" => cell.available
           /\ outs' = [outs EXCEPT !["on"] = IF r.out = None THEN @ ELSE n]
    BY <1>3, ExecuteEffect
  <2>2. /\ proc'.pc = pc /\ proc'.legs = proc.legs /\ proc'.decision = proc.decision
        /\ proc'.notes = proc.notes /\ proc'.ran["on"] = r
    BY <2>1 DEF Types, Process, Legs
  <2>3. r.out # None => outs'["on"] = n
    BY <2>1 DEF Types, Legs
  <2> QED
    BY <1>1, <2>1, <2>2, <2>3
<1> QED
  BY <1>2, <1>3

LEMMA SealJournalFields ==
    ASSUME Types, SealJournal
    PROVE  /\ At("journal")
           /\ UNCHANGED <<bounds, paid, callFiles, outs, causal, runFiles>>
           /\ \/ proc' = Idle /\ a13' = a13 /\ observer' = observer
              \/ /\ proc'.pc = "seal" /\ proc'.legs = proc.legs
                 /\ proc'.decision = proc.decision /\ proc'.notes = proc.notes
                 /\ proc'.ran = proc.ran /\ proc'.trips = observer'.trips
                 /\ observer'.trips = observer.trips /\ observer'.depth = observer.depth
                 /\ a13' = [a13 EXCEPT !["journal"] = n] /\ a13'["journal"] = n
<1>1. /\ At("journal")
      /\ UNCHANGED <<bounds, paid, callFiles, outs, causal, runFiles>>
  BY DEF SealJournal
<1>2. CASE proc' = Idle /\ a13' = a13 /\ observer' = observer
  BY <1>1, <1>2
<1>3. CASE ~(proc' = Idle /\ a13' = a13 /\ observer' = observer)
  <2>1. /\ a13' = [a13 EXCEPT !["journal"] = n]
        /\ observer' = [observer EXCEPT !.journal = "closed"]
        /\ proc' = [proc EXCEPT !.pc = "seal", !.trips = observer.trips]
    BY <1>3 DEF SealJournal, TripSlice, Raise
  <2>2. /\ proc'.pc = "seal" /\ proc'.legs = proc.legs /\ proc'.decision = proc.decision
        /\ proc'.notes = proc.notes /\ proc'.ran = proc.ran /\ proc'.trips = observer.trips
    BY <2>1 DEF Types, Process
  <2>3. observer'.trips = observer.trips /\ observer'.depth = observer.depth
    BY <2>1 DEF Types
  <2>4. a13'["journal"] = n
    BY <2>1 DEF Types, LegFiles
  <2> QED
    BY <1>1, <2>1, <2>2, <2>3, <2>4
<1> QED
  BY <1>2, <1>3

LEMMA GradeFields ==
    ASSUME Types, Grade
    PROVE  /\ At("grade")
           /\ UNCHANGED <<bounds, observer, paid, callFiles, outs, causal, runFiles>>
           /\ \/ proc' = Idle /\ a13' = a13
              \/ /\ proc'.pc = "prove" /\ proc'.legs = "graded"
                 /\ proc'.decision = proc.decision /\ proc'.notes = proc.notes
                 /\ proc'.trips = proc.trips
                 /\ \A x \in Legs : /\ proc'.ran[x].out = proc.ran[x].out
                                    /\ proc'.ran[x].out # None => x \in proc'.judged
                 /\ a13' = [a13 EXCEPT !["grading"] = n] /\ a13'["grading"] = n
<1>1. /\ At("grade")
      /\ UNCHANGED <<bounds, observer, paid, callFiles, outs, causal, runFiles>>
  BY DEF Grade
<1>2. CASE proc' = Idle /\ a13' = a13
  BY <1>1, <1>2
<1>3. CASE ~(proc' = Idle /\ a13' = a13)
  <2>1. /\ \A x \in Legs : proc.ran[x].out # None => outs[x] = n
        /\ a13' = [a13 EXCEPT !["grading"] = n]
    BY <1>3, GradeEffect
  <2>2. PICK ran \in [Legs -> LegRun] :
            /\ \A x \in Legs : ran[x].out = proc.ran[x].out
            /\ proc' = [proc EXCEPT !.pc = "prove", !.legs = "graded", !.ran = ran,
                                    !.judged = {x \in Legs : outs[x] = n}]
    BY <1>3, GradeEffect
  <2>3. /\ proc'.pc = "prove" /\ proc'.legs = "graded" /\ proc'.decision = proc.decision
        /\ proc'.notes = proc.notes /\ proc'.trips = proc.trips /\ proc'.ran = ran
        /\ proc'.judged = {x \in Legs : outs[x] = n}
    BY <2>2 DEF Types, Process
  <2>4. a13'["grading"] = n
    BY <2>1 DEF Types, LegFiles
  <2> QED
    BY <1>1, <2>1, <2>2, <2>3, <2>4
<1> QED
  BY <1>2, <1>3

(* What the steps write is a file, and stays one when edited.              *)
LEMMA WrittenFacts ==
    /\ Written(Sent)
    /\ \A l, r, u : Written(ReceiptOf(l, r, u))
    /\ \A r : Written(NormalizedOf(r))
    /\ \A l, r, e : LET i == IdentityOf(l, r, e)
                    IN  Written(i) /\ "by" \in DOMAIN i /\ i.by = e.by
    /\ ~Written(NoFile)
<1>1. DOMAIN NoFile = {"file"}
  BY DEF NoFile
<1>2. "model" \in DOMAIN Sent
  BY DEF Sent, Body
<1>3. \A l, r, u : "usage" \in DOMAIN ReceiptOf(l, r, u)
  BY DEF ReceiptOf
<1>4. \A r : "metrics" \in DOMAIN NormalizedOf(r)
  BY DEF NormalizedOf
<1>5. \A l, r, e : LET i == IdentityOf(l, r, e) IN "by" \in DOMAIN i /\ i.by = e.by
  BY DEF IdentityOf
<1> QED
  BY <1>1, <1>2, <1>3, <1>4, <1>5 DEF Written

LEMMA EditedWritten ==
    \A f, x, v : /\ DOMAIN [f EXCEPT ![x] = v] = DOMAIN f
                 /\ Written(f) => Written([f EXCEPT ![x] = v])
  BY DEF Written

(* A call leaves its artifacts in order, and a usable answer a trace.      *)
LEMMA CallKept ==
    ASSUME Types, TracedInv, PaidCallsTraced, [Next]_vars
    PROVE  TracedInv' /\ PaidCallsTraced'
<1>a. attempts \in Nat /\ (~At("idle") => n \in Attempt)
  BY TreatmentAssumption DEF Types, n
<1>b. \A pc \in Pcs : [proc EXCEPT !.pc = pc].pc = pc
  BY DEF Types, Process
<1>c. Idle.pc = "idle" /\ [Idle EXCEPT !.pc = "send"].pc = "send"
         /\ [Idle EXCEPT !.pc = "chain"].pc = "chain"
  BY DEF Idle
<1> USE DEF At, n
<1>1. CASE StageRequest
  <2>1. /\ proc'.pc = "send" /\ attempts' = attempts + 1 /\ stage' = stage \cup {attempts + 1}
        /\ UNCHANGED <<paid, request, receipt, normalized, identity>>
    BY <1>1, <1>c DEF StageRequest, runFiles
  <2>2. attempts' \in Attempt
    BY <1>1, <1>a, TreatmentAssumption DEF StageRequest, Types, Attempt
  <2>3. paid[attempts'] # "usable"
    BY <2>1, <2>2, <1>a DEF TracedInv
  <2>4. \A a \in Attempt : a > attempts' => a > attempts
    BY <1>a, <2>1 DEF Attempt
  <2> QED
    BY <2>1, <2>3, <2>4 DEF TracedInv, PaidCallsTraced
<1>2. CASE CallFails
  <2>1. /\ proc'.pc = "idle" /\ paid' \in {paid, [paid EXCEPT ![n] = "discarded"]}
        /\ stage' = stage \ {n} /\ paid[n] # "usable" /\ n \in Attempt
        /\ UNCHANGED <<attempts, request, receipt, normalized, identity>>
    BY <1>2, <1>a, <1>c DEF CallFails, Raise, TracedInv, bounds, runFiles
  <2>2. \A a \in Attempt : paid'[a] = "usable" => paid[a] = "usable" /\ a # n
    BY <2>1 DEF Types
  <2> QED
    BY <2>1, <2>2 DEF TracedInv, PaidCallsTraced
<1>3. CASE CallAnswered
  <2>1. /\ proc'.pc = "answered" /\ n \in Attempt /\ n \in stage
        /\ paid' = [paid EXCEPT ![n] = "usable"]
        /\ UNCHANGED <<attempts, stage, request, receipt, normalized, identity>>
    BY <1>3, <1>a, <1>b
       DEF CallAnswered, Go, TracedInv, bounds, callFiles, runFiles, Pcs, CallPcs
  <2>2. \A a \in Attempt : paid'[a] = "usable" => paid[a] = "usable" \/ a = n
    BY <2>1 DEF Types
  <2>3. \A a \in Attempt : a > attempts => a # n
    BY <1>a DEF Attempt
  <2> QED
    BY <2>1, <2>2, <2>3 DEF TracedInv, PaidCallsTraced
<1>4. CASE RenameRequest
  <2>1. /\ proc'.pc = "receipt" /\ n \in Attempt /\ stage' = stage \ {n}
        /\ request' = [request EXCEPT ![n] = Sent]
        /\ UNCHANGED <<attempts, paid, receipt, normalized, identity>>
    BY <1>4, <1>a, <1>b DEF RenameRequest, Go, bounds, runFiles, Pcs, CallPcs
  <2>2. Written(Sent) /\ Sent # NoFile
    BY WrittenFacts
  <2> QED
    BY <2>1, <2>2 DEF TracedInv, PaidCallsTraced
<1>5. CASE WriteReceipt
  <2>1. PICK u : receipt' = [receipt EXCEPT ![n] = ReceiptOf(cell.lane, Sent, u)]
    BY <1>5 DEF WriteReceipt
  <2>2. /\ proc'.pc = "normalize" /\ n \in Attempt /\ request[n] # NoFile
        /\ UNCHANGED <<attempts, paid, stage, request, normalized, identity>>
    BY <1>5, <1>a, <1>b DEF WriteReceipt, Go, TracedInv, bounds, runFiles, Pcs, CallPcs
  <2>3. Written(ReceiptOf(cell.lane, Sent, u)) /\ ReceiptOf(cell.lane, Sent, u) # NoFile
    BY WrittenFacts
  <2> QED
    BY <2>1, <2>2, <2>3 DEF TracedInv, PaidCallsTraced
<1>6. CASE WriteNormalized
  <2>1. /\ n \in Attempt /\ receipt[n] # NoFile
        /\ UNCHANGED <<attempts, paid, stage, request, receipt, identity>>
    BY <1>6, <1>a DEF WriteNormalized, TracedInv, bounds, runFiles
  <2>2. \/ normalized' = normalized /\ proc'.pc = "idle"
        \/ /\ normalized' = [normalized EXCEPT ![n] = NormalizedOf(receipt[n])]
           /\ proc'.pc = "identify"
    <3>1. CASE Normalizable(receipt[n])
      <4>1. /\ normalized' = [normalized EXCEPT ![n] = NormalizedOf(receipt[n])]
            /\ proc' = [proc EXCEPT !.pc = "identify"]
        BY <1>6, <3>1 DEF WriteNormalized, Go
      <4>2. "identify" \in Pcs
        BY DEF Pcs, CallPcs
      <4> QED
        BY <4>1, <4>2, <1>b
    <3>2. CASE ~Normalizable(receipt[n])
      BY <1>6, <3>2, <1>c DEF WriteNormalized, Raise
    <3> QED
      BY <3>1, <3>2
  <2>3. Written(NormalizedOf(receipt[n])) /\ NormalizedOf(receipt[n]) # NoFile
    BY WrittenFacts
  <2> QED
    BY <2>1, <2>2, <2>3 DEF TracedInv, PaidCallsTraced
<1>7. CASE RecordIdentity
  <2>1. /\ n \in Attempt /\ normalized[n] # NoFile
        /\ UNCHANGED <<attempts, paid, stage, request, receipt, normalized>>
    BY <1>7, <1>a DEF RecordIdentity, TracedInv, bounds, callFiles
  <2>2. \/ identity' = identity
        \/ \E e : e.by = n /\ identity' = IdentityOf(cell.lane, receipt[n], e)
    BY <1>7 DEF RecordIdentity, Response
  <2>3. \/ identity' = identity
        \/ Written(identity') /\ "by" \in DOMAIN identity' /\ identity'.by = n
    BY <2>2, WrittenFacts
  <2>4. proc'.pc \in {"prereg", "idle"}
    <3>1. proc' = Idle \/ proc' = [proc EXCEPT !.pc = "prereg"]
      BY <1>7 DEF RecordIdentity, Go, Raise
    <3>2. "prereg" \in Pcs
      BY DEF Pcs
    <3> QED
      BY <3>1, <3>2, <1>b, <1>c
  <2> QED
    BY <2>1, <2>3, <2>4 DEF TracedInv, PaidCallsTraced
<1>8. CASE /\ UNCHANGED <<attempts, paid, stage, request, receipt, normalized, identity>>
           /\ \/ proc'.pc \notin {"send", "answered", "receipt", "normalize", "identify"}
              \/ proc'.pc = proc.pc
  BY <1>8 DEF TracedInv, PaidCallsTraced
<1>9. CASE CheckPrereg \/ EnterRegion \/ OffLeg \/ PassLeg \/ Seal \/ ExitRegion
  BY <1>9, <1>8, <1>c
     DEF CheckPrereg, EnterRegion, OffLeg, PassLeg, Seal, ExitRegion, Go, Raise, Types,
         Process, bounds, callFiles, runFiles
<1>10. CASE ResolveSchema \/ WriteCausal \/ WriteReuse \/ WriteManifest \/ WireChain
  BY <1>10, <1>8, <1>c
     DEF ResolveSchema, Omit, WriteCausal, WriteReuse, WriteManifest, WireChain, Go, Raise,
         Types, Process, bounds, callFiles, runFiles
<1>11. CASE Crash \/ EditOutput \/ UNCHANGED vars
  BY <1>11, <1>8, <1>c DEF Crash, EditOutput, vars, Raise, bounds, callFiles, runFiles
<1>12. CASE Arrive \/ Execute \/ SealJournal \/ Grade
  BY <1>12, <1>8, <1>c, ArriveFields, ExecuteFields, SealJournalFields, GradeFields
     DEF bounds, callFiles, runFiles
<1>13. CASE EditCall
  <2>1. /\ n \in Attempt /\ Written(identity) /\ identity.by = n /\ "by" \in DOMAIN identity
        /\ Written(receipt[n]) /\ Written(normalized[n]) /\ Written(request[n])
        /\ UNCHANGED <<attempts, proc, paid, stage>>
    BY <1>13 DEF EditCall, TracedInv, PaidCallsTraced
  <2>2. CASE /\ UNCHANGED <<request, identity>>
             /\ \E r : Written(r) /\ receipt' = [receipt EXCEPT ![n] = r]
             /\ \E m : Written(m) /\ normalized' = [normalized EXCEPT ![n] = m]
    BY <2>1, <2>2, WrittenFacts DEF TracedInv, PaidCallsTraced
  <2>3. CASE /\ UNCHANGED <<request, receipt, identity>>
             /\ \E r : Written(r) /\ normalized' = [normalized EXCEPT ![n] = r]
    BY <2>1, <2>3, WrittenFacts DEF TracedInv, PaidCallsTraced
  <2>4. CASE /\ UNCHANGED <<receipt, normalized, identity>>
             /\ \E r : Written(r) /\ request' = [request EXCEPT ![n] = r]
    BY <2>1, <2>4, WrittenFacts DEF TracedInv, PaidCallsTraced
  <2>5. CASE /\ UNCHANGED <<request, receipt, normalized>>
             /\ Written(identity') /\ "by" \in DOMAIN identity' /\ identity'.by = n
    BY <2>1, <2>5, WrittenFacts DEF TracedInv, PaidCallsTraced
  <2>6. CASE /\ UNCHANGED <<request, identity>>
             /\ \E r \in Rewritten(receipt[n]) :
                   /\ receipt' = [receipt EXCEPT ![n] = r]
                   /\ normalized' \in {normalized} \cup
                          IF Normalizable(r) THEN {[normalized EXCEPT ![n] = NormalizedOf(r)]}
                          ELSE {}
    <3>1. PICK r \in Rewritten(receipt[n]) :
             /\ receipt' = [receipt EXCEPT ![n] = r]
             /\ normalized' \in {normalized, [normalized EXCEPT ![n] = NormalizedOf(r)]}
      BY <2>6
    <3>2. Written(r)
      BY <2>1, <3>1 DEF Rewritten, Written
    <3>3. CASE normalized' = normalized
      BY <2>1, <2>6, <3>1, <3>2, <3>3, WrittenFacts DEF TracedInv, PaidCallsTraced
    <3>4. CASE normalized' = [normalized EXCEPT ![n] = NormalizedOf(r)]
      BY <2>2, <2>6, <3>1, <3>2, <3>4, WrittenFacts
    <3> QED
      BY <3>1, <3>3, <3>4
  <2>8. CASE /\ UNCHANGED <<request, receipt, identity>>
             /\ \E restamped \in BOOLEAN :
                   normalized' = [normalized EXCEPT ![n].metrics.work = @ + 1,
                                                    ![n].intact = restamped]
    <3>1. PICK restamped \in BOOLEAN :
             normalized' = [normalized EXCEPT ![n].metrics.work = @ + 1,
                                              ![n].intact = restamped]
      BY <2>8
    <3> DEFINE w == normalized[n].metrics.work + 1
               r == [normalized[n] EXCEPT !.metrics.work = w, !.intact = restamped]
    <3>2. normalized' = [normalized EXCEPT ![n] = r]
      BY <2>1, <3>1 DEF TracedInv
    <3>3. Written(r)
      BY <2>1 DEF Written
    <3> QED
      BY <2>3, <2>8, <3>2, <3>3
  <2>9. CASE /\ UNCHANGED <<receipt, normalized, identity>>
             /\ request' = [request EXCEPT ![n].params = "other"]
    BY <2>1, <2>4, <2>9 DEF Written
  <2>10. CASE /\ UNCHANGED <<request, receipt, normalized>>
              /\ \/ identity' = [identity EXCEPT !.params = "other"]
                 \/ \E said \in {"other", "none"} :
                       \/ identity' = [identity EXCEPT !.echoed = said]
                       \/ identity' = [identity EXCEPT !.id = said]
    BY <2>1, <2>5, <2>10 DEF Written
  <2> QED
    BY <1>13, <2>6, <2>8, <2>9, <2>10 DEF EditCall
<1> QED
  BY <1>1, <1>2, <1>3, <1>4, <1>5, <1>6, <1>7, <1>9, <1>10, <1>11, <1>12, <1>13
     DEF Next, Call, RunLegs

-----------------------------------------------------------------------------
(* The process is observed exactly between entering and leaving the region.*)
LEMMA ObserverKept == ASSUME Types, ObserverInv, [Next]_vars PROVE ObserverInv'
<1> USE DEF ObserverInv, At, Go, Raise, Idle, CallPcs, RegionPcs
<1>1. CASE StageRequest
  BY <1>1 DEF StageRequest, Silent
<1>2. CASE \/ CallFails \/ CallAnswered \/ RenameRequest \/ WriteReceipt
           \/ WriteNormalized \/ RecordIdentity \/ CheckPrereg
  BY <1>2 DEF CallFails, CallAnswered, RenameRequest, WriteReceipt, WriteNormalized,
              RecordIdentity, CheckPrereg, Types, Process
<1>3. CASE Arrive
  BY <1>3, ArriveFields
<1>4. CASE Execute
  BY <1>4, ExecuteFields
<1>5. CASE EnterRegion
  BY <1>5 DEF EnterRegion, RegionEnter, Types, Process
<1>6. CASE ResolveSchema
  BY <1>6 DEF ResolveSchema, Omit, RecordTrip, Types, Process
<1>7. CASE OffLeg \/ PassLeg
  BY <1>7 DEF OffLeg, PassLeg, Types, Process
<1>8. CASE SealJournal
  BY <1>8, SealJournalFields
<1>9. CASE Seal
  BY <1>9 DEF Seal, Types, Process
<1>10. CASE ExitRegion
  BY <1>10 DEF ExitRegion, RegionExit, Types, Process
<1>11. CASE Grade
  BY <1>11, GradeFields
<1>12. CASE WriteCausal
  BY <1>12 DEF WriteCausal, Types, Process
<1>13. CASE WriteReuse \/ WriteManifest \/ WireChain \/ Crash
  BY <1>13 DEF WriteReuse, WriteManifest, WireChain, Crash, Types, Process
<1>14. CASE EditCall \/ EditOutput \/ UNCHANGED vars
  BY <1>14 DEF EditCall, EditOutput, vars
<1> QED
  BY <1>1, <1>2, <1>3, <1>4, <1>5, <1>6, <1>7, <1>8, <1>9, <1>10, <1>11, <1>12,
     <1>13, <1>14 DEF Next, Call, RunLegs

(* The legs the process holds are those its files hold.                    *)
LEMMA LegsKept == ASSUME Types, ObserverInv, LegsInv, [Next]_vars PROVE LegsInv'
<1> USE DEF LegsInv, At, Go, Raise, n, bounds, callFiles, legFiles, runFiles
<1>1. CASE proc'.pc \in {"idle", "send"} /\ proc'.legs = "none"
              /\ \A x \in Legs : proc'.ran[x].out = None
  BY <1>1 DEF Legs
<1>2. CASE StageRequest \/ Crash \/ WireChain
  <2>1. proc' = Idle \/ proc' = [Idle EXCEPT !.pc = "send"]
    BY <1>2 DEF StageRequest, Crash, WireChain
  <2>2. "send" \in Pcs
    BY DEF Pcs, CallPcs
  <2> DEFINE Fresh(p) == /\ p.pc \in {"idle", "send"} /\ p.legs = "none"
                         /\ \A x \in Legs : p.ran[x].out = None
  <2>3. Fresh(Idle) /\ Fresh([Idle EXCEPT !.pc = "send"])
    BY <2>2, IdleFacts, IdleTyped
  <2>4. Fresh(proc')
    <3> HIDE DEF Fresh
    <3> QED
      BY ONLY <2>1, <2>3
  <2> QED
    BY ONLY <1>1, <2>4
<1>3. CASE \/ CallFails \/ CallAnswered \/ RenameRequest \/ WriteReceipt
           \/ WriteNormalized \/ RecordIdentity \/ CheckPrereg
  BY <1>1, <1>3, IdleFacts
     DEF CallFails, CallAnswered, RenameRequest, WriteReceipt, WriteNormalized,
         RecordIdentity, CheckPrereg, Types, Process
<1>4. CASE Arrive
  BY <1>1, <1>4, ArriveFields, IdleFacts
<1>5. CASE Execute
  BY <1>1, <1>5, ExecuteFields, IdleFacts
<1>6. CASE EnterRegion
  BY <1>6 DEF EnterRegion, RegionEnter, Types, Process, LegFiles
<1>7. CASE ResolveSchema
  BY <1>7 DEF ResolveSchema, Omit, RecordTrip, Types, Process
<1>8. CASE OffLeg
  BY <1>8 DEF OffLeg, Types, Process, Legs
<1>9. CASE PassLeg
  BY <1>9 DEF PassLeg, Types, Process, Legs
<1>10. CASE SealJournal
  BY <1>1, <1>10, SealJournalFields, IdleFacts
<1>11. CASE Seal
  BY <1>11 DEF Seal, Types, Process, LegFiles
<1>12. CASE ExitRegion
  BY <1>12 DEF ExitRegion, RegionExit, Types, Process
<1>13. CASE Grade
  <2>1. CASE proc' = Idle
    BY <1>1, <2>1, IdleFacts
  <2>2. CASE proc' # Idle
    <3>1. /\ At("grade") /\ UNCHANGED <<attempts, observer, outs, causal>>
          /\ proc'.pc = "prove" /\ proc'.legs = "graded"
          /\ \A x \in Legs : /\ proc'.ran[x].out = proc.ran[x].out
                             /\ proc'.ran[x].out # None => x \in proc'.judged
          /\ a13' = [a13 EXCEPT !["grading"] = n] /\ a13'["grading"] = n
      BY <1>13, <2>2, GradeFields
    <3>2. a13'["journal"] = a13["journal"] /\ a13'["seal"] = a13["seal"]
      BY <3>1 DEF Types, LegFiles
    <3>3. proc.legs = "sealed" /\ "on" \in Legs
      BY <3>1 DEF Types, Process, Legs
    <3> QED
      BY <3>1, <3>2, <3>3
  <2> QED
    BY <2>1, <2>2
<1>14. CASE WriteCausal
  <2>1. /\ At("prove") /\ causal'.by = n
        /\ UNCHANGED <<attempts, observer, outs, a13>>
        /\ proc' = [proc EXCEPT !.pc = "record", !.judged = {}, !.ran["off-noop"] = NoRun,
                                !.ran["pass-through"] = NoRun]
    BY <1>14 DEF WriteCausal
  <2>2. proc'.pc = "record" /\ proc'.legs = proc.legs /\ proc'.ran["on"] = proc.ran["on"]
    BY <2>1 DEF Types, Process, Legs
  <2> QED
    BY <2>1, <2>2
<1>15. CASE WriteReuse
  BY <1>1, <1>15, IdleFacts DEF WriteReuse, Types, Process
<1>16. CASE WriteManifest
  <2>1. proc'.pc = "chain" /\ proc'.legs = "none" /\ \A x \in Legs : proc'.ran[x].out = None
    BY <1>16, IdleTyped DEF WriteManifest, Pcs
  <2> QED
    BY <2>1 DEF Legs
<1>17. CASE EditCall \/ UNCHANGED vars
  BY <1>17 DEF EditCall, vars
<1>18. CASE EditOutput
  <2>1. PICK x \in Legs : outs' = [outs EXCEPT ![x] = Edited]
    BY <1>18 DEF EditOutput
  <2>2. outs'["on"] = outs["on"] \/ outs'["on"] = Edited
    BY <2>1 DEF Types, Legs
  <2> QED
    BY <1>18, <2>2 DEF EditOutput
<1> QED
  BY <1>2, <1>3, <1>4, <1>5, <1>6, <1>7, <1>8, <1>9, <1>10, <1>11, <1>12, <1>13, <1>14,
     <1>15, <1>16, <1>17, <1>18 DEF Next, Call, RunLegs

(* A receipt is proven by the legs this process ran and judged.            *)
LEMMA CausedKept == ASSUME Types, LegsInv, CausedInv, [Next]_vars PROVE CausedInv'
<1>1. CASE WriteCausal
  <2> DEFINE det == BuildDeterminant("K", "S", "T")
             proven == DeriveCausalContribution(det, det, ProveDeterminism(TRUE), LegEvidence)
  <2>1. At("prove") /\ causal'.proven = proven /\ causal'.caused = Caused
    BY <1>1 DEF WriteCausal
  <2>2. proven => Caused
    <3> SUFFICES ASSUME proven PROVE Caused
      OBVIOUS
    <3>1. /\ LegEvidence["on"] = EnrichLeg("on", det, "checker", proc.pair, proc.ran["on"])
          /\ LegEvidence["off-noop"] =
               EnrichLeg("off-noop", det, "checker", "noop-pair", proc.ran["off-noop"])
          /\ LegEvidence["pass-through"] =
               EnrichLeg("pass-through", det, "checker", "F-pair", proc.ran["pass-through"])
      BY DEF LegEvidence, Legs, AdaptTask
    <3>2. /\ proc.ran["on"].exe = "K" /\ proc.ran["on"].rc = 0
          /\ proc.pair = "F-pair"
      BY <3>1 DEF DeriveCausalContribution, OnShips, IdentitiesMatch, EnrichLeg,
                  BuildDeterminant
    <3>3. \A x \in {"off-noop", "pass-through"} :
             /\ proc.ran[x].rc = 1 /\ proc.ran[x].text = "report"
             /\ proc.ran[x].out # None
      BY <3>1 DEF DeriveCausalContribution, CountsAsNotShip, EnrichLeg
    <3>4. /\ proc.ran["on"].out # None
          /\ \A x \in {"off-noop", "pass-through"} : proc.ran[x].out # proc.ran["on"].out
      BY <3>1 DEF DeriveCausalContribution, OutputsDiffer, EnrichLeg
    <3>5. proc.judged = Legs
      BY <2>1, <3>3, <3>4 DEF LegsInv, Types, Process, Legs, At
    <3> QED
      BY <3>2, <3>3, <3>4, <3>5 DEF Caused
  <2> QED
    BY <2>1, <2>2 DEF CausedInv
<1>2. CASE causal' = causal
  BY <1>2 DEF CausedInv
<1> QED
  BY <1>1, <1>2
     DEF Next, Call, RunLegs, vars, legFiles, StageRequest, CallFails, CallAnswered,
         RenameRequest, WriteReceipt, WriteNormalized, RecordIdentity, CheckPrereg, Arrive,
         Execute, EnterRegion, ResolveSchema, OffLeg, PassLeg, SealJournal, Seal,
         ExitRegion, Grade, WriteReuse, WriteManifest, WireChain, Crash, EditCall,
         EditOutput

(* An edited identity record is still that of its response.                *)
LEMMA EditedIdentity ==
    ASSUME TracedInv, EditCall PROVE identity' # NoFile /\ identity'.by = identity.by
<1>1. Written(identity) /\ "by" \in DOMAIN identity
  BY DEF EditCall, TracedInv
<1>2. CASE identity' = identity
  BY <1>1, <1>2, WrittenFacts
<1>3. CASE \/ identity' = [identity EXCEPT !.params = "other"]
           \/ \E said \in {"other", "none"} :
                 \/ identity' = [identity EXCEPT !.echoed = said]
                 \/ identity' = [identity EXCEPT !.id = said]
  <2>1. Written(identity')
    BY <1>1, <1>3 DEF Written
  <2>2. identity'.by = identity.by
    BY <1>1, <1>3
  <2> QED
    BY <2>1, <2>2, WrittenFacts
<1> QED
  BY <1>2, <1>3 DEF EditCall

(* What the attempt's own files are called by, up to its manifest.         *)
LEMMA OwnKept == ASSUME Types, TracedInv, OwnInv, [Next]_vars PROVE OwnInv'
<1> USE DEF OwnInv, At, Go, Raise, Idle, n, Later, Answered, Pcs, CallPcs, RegionPcs,
            bounds, runFiles
<1>1. CASE StageRequest
  BY <1>1 DEF StageRequest
<1>2. CASE \/ CallFails \/ CallAnswered \/ RenameRequest \/ WriteReceipt \/ WriteNormalized
  BY <1>2 DEF CallFails, CallAnswered, RenameRequest, WriteReceipt, WriteNormalized, Types,
              Process
<1>3. CASE RecordIdentity
  <2>1. At("identify") /\ UNCHANGED <<attempts, chain>>
    BY <1>3 DEF RecordIdentity
  <2>2. \/ proc' = Idle
        \/ proc'.pc = "prereg" /\ identity' # NoFile /\ identity'.by = n
    <3>1. CASE proc' # Idle
      <4>1. PICK echo \in {"acceptable", "other"} :
              identity' = IdentityOf(cell.lane, receipt[n],
                                     [by |-> n, echoed |-> echo, id |-> "given"])
        BY <1>3, <3>1 DEF RecordIdentity, Response
      <4>2. proc'.pc = "prereg"
        BY <1>3, <3>1 DEF RecordIdentity, Types, Process
      <4> QED
        BY <4>1, <4>2, WrittenFacts
    <3> QED
      BY <3>1
  <2> QED
    BY <2>1, <2>2
<1>4. CASE CheckPrereg
  BY <1>4 DEF CheckPrereg, Types, Process
<1>5. CASE Arrive
  BY <1>5, ArriveFields
<1>6. CASE Execute
  BY <1>6, ExecuteFields
<1>7. CASE EnterRegion \/ ResolveSchema
  BY <1>7 DEF EnterRegion, ResolveSchema, Omit, Types, Process
<1>16. CASE OffLeg
  BY <1>16 DEF OffLeg, Types, Process
<1>17. CASE PassLeg
  BY <1>17 DEF PassLeg, Types, Process
<1>8. CASE SealJournal
  BY <1>8, SealJournalFields
<1>9. CASE Seal \/ ExitRegion \/ WriteCausal
  BY <1>9 DEF Seal, ExitRegion, WriteCausal, Types, Process
<1>10. CASE Grade
  BY <1>10, GradeFields
<1>11. CASE WriteReuse
  BY <1>11 DEF WriteReuse, Types, Process
<1>12. CASE WriteManifest
  BY <1>12 DEF WriteManifest
<1>13. CASE WireChain
  BY <1>13 DEF WireChain
<1>14. CASE Crash \/ EditOutput \/ UNCHANGED vars
  BY <1>14 DEF Crash, EditOutput, vars
<1>15. CASE EditCall
  <2>1. UNCHANGED <<attempts, proc, arrival, reuse, chain>>
    BY <1>15 DEF EditCall
  <2>2. identity' # NoFile /\ identity'.by = identity.by
    BY <1>15, EditedIdentity
  <2> QED
    BY <2>1, <2>2
<1> QED
  BY <1>1, <1>2, <1>3, <1>4, <1>5, <1>6, <1>7, <1>8, <1>9, <1>10, <1>11, <1>12, <1>13,
     <1>14, <1>15, <1>16, <1>17 DEF Next, Call, RunLegs

(* What a manifest names, and a chain closes over, is of one attempt.      *)
LEMMA ChainedKept ==
    ASSUME Types, TracedInv, LegsInv, OwnInv, ChainedInv, [Next]_vars PROVE ChainedInv'
<1>1. CASE ~At("chain") /\ chain = 0 /\ chain' = 0 /\ proc'.pc # "chain"
  BY <1>1 DEF ChainedInv, At
<1>2. chain # 0 => At("idle")
  BY DEF OwnInv
<1> USE DEF At, Go, Raise, Idle, runFiles
<1>3. CASE StageRequest
  BY <1>1, <1>3 DEF StageRequest
<1>4. CASE \/ CallFails \/ CallAnswered \/ RenameRequest \/ WriteReceipt
           \/ WriteNormalized \/ RecordIdentity \/ CheckPrereg
  BY <1>1, <1>2, <1>4
     DEF CallFails, CallAnswered, RenameRequest, WriteReceipt, WriteNormalized,
         RecordIdentity, CheckPrereg, Types, Process
<1>5. CASE Arrive \/ Execute \/ SealJournal \/ Grade
  BY <1>1, <1>2, <1>5, ArriveFields, ExecuteFields, SealJournalFields, GradeFields
<1>6. CASE EnterRegion \/ ResolveSchema \/ OffLeg \/ PassLeg
  BY <1>1, <1>2, <1>6 DEF EnterRegion, ResolveSchema, Omit, OffLeg, PassLeg, Types, Process
<1>7. CASE Seal \/ ExitRegion \/ WriteCausal
  BY <1>1, <1>2, <1>7 DEF Seal, ExitRegion, WriteCausal, Types, Process
<1>13. CASE WriteReuse
  BY <1>1, <1>2, <1>13 DEF WriteReuse, Types, Process
<1>8. CASE WriteManifest
  <2>1. /\ At("manifest") /\ proc'.pc = "chain"
        /\ manifest'.by = n /\ manifest'.legs = LegFilesNamed
        /\ manifest'.output = (proc.ran["on"].out # None)
        /\ UNCHANGED <<bounds, outs, a13, causal, identity, arrival, reuse, chain>>
    BY <1>8 DEF WriteManifest, legFiles
  <2>2. /\ identity # NoFile /\ identity.by = n /\ arrival.by = n /\ reuse.by = n
        /\ attempts' = attempts
    BY <2>1 DEF OwnInv, Later, Answered, Pcs, CallPcs, RegionPcs, bounds
  <2>3. /\ LegFilesNamed \subseteq {"journal", "seal", "grading"}
        /\ \A x \in LegFilesNamed : a13[x] = n
        /\ LegFilesNamed # {} => causal.by = n
    BY <2>1 DEF LegFilesNamed, LegsInv
  <2>4. proc.ran["on"].out # None => outs["on"] \in {n, Edited}
    BY <2>1 DEF LegsInv
  <2> QED
    BY <2>1, <2>2, <2>3, <2>4 DEF ChainedInv, n
<1>9. CASE WireChain
  BY <1>9 DEF WireChain, ChainedInv, bounds, legFiles, n
<1>10. CASE Crash \/ UNCHANGED vars
  BY <1>1, <1>2, <1>10 DEF Crash, vars, ChainedInv, bounds, legFiles, n
<1>11. CASE EditOutput
  BY <1>1, <1>2, <1>11 DEF EditOutput, ChainedInv
<1>12. CASE EditCall
  <2>1. UNCHANGED <<attempts, proc, outs, a13, causal, arrival, reuse, manifest, chain>>
    BY <1>12 DEF EditCall, legFiles
  <2>2. identity' # NoFile /\ identity'.by = identity.by
    BY <1>12, EditedIdentity
  <2> QED
    BY <2>1, <2>2 DEF ChainedInv, n
<1> QED
  BY <1>3, <1>4, <1>5, <1>6, <1>7, <1>8, <1>9, <1>10, <1>11, <1>12, <1>13
     DEF Next, Call, RunLegs

(* The reuse record stays the one the arrival and the run call for.        *)
LEMMA LedgerKept == ASSUME Types, OwnInv, LedgerInv, [Next]_vars PROVE LedgerInv'
<1> USE DEF At, Go, Raise, Idle, n, Later, Answered, Pcs, CallPcs, RegionPcs, bounds,
            runFiles, ValidUnlessUnfinished
<1>1. chain # 0 => At("idle")
  BY DEF OwnInv
<1>2. CASE StageRequest
  BY <1>2 DEF StageRequest, LedgerInv
<1>3. CASE \/ CallFails \/ CallAnswered \/ RenameRequest \/ WriteReceipt
           \/ WriteNormalized \/ RecordIdentity \/ CheckPrereg
  BY <1>1, <1>3 DEF CallFails, CallAnswered, RenameRequest, WriteReceipt, LedgerInv,
         WriteNormalized, RecordIdentity, CheckPrereg, Types, Process
<1>4. CASE Arrive
  BY <1>1, <1>4, ArriveFields DEF LedgerInv
<1>5. CASE Execute
  BY <1>1, <1>5, ExecuteFields DEF LedgerInv
<1>6. CASE EnterRegion \/ ResolveSchema
  BY <1>1, <1>6 DEF EnterRegion, ResolveSchema, Omit, LedgerInv, Types, Process
<1>7. CASE OffLeg
  BY <1>1, <1>7 DEF OffLeg, LedgerInv, Types, Process
<1>8. CASE PassLeg
  BY <1>1, <1>8 DEF PassLeg, LedgerInv, Types, Process
<1>9. CASE SealJournal
  BY <1>1, <1>9, SealJournalFields DEF LedgerInv
<1>10. CASE Seal \/ ExitRegion
  BY <1>1, <1>10 DEF Seal, ExitRegion, LedgerInv, Types, Process
<1>11. CASE Grade
  BY <1>1, <1>11, GradeFields DEF LedgerInv
<1>12. CASE WriteCausal
  BY <1>1, <1>12 DEF WriteCausal, LedgerInv, Types, Process
<1>13. CASE WriteReuse
  <2>1. CASE proc' = Idle /\ reuse' = reuse
    BY <1>1, <1>13, <2>1 DEF WriteReuse, LedgerInv
  <2>2. CASE ~(proc' = Idle /\ reuse' = reuse)
    <3> DEFINE causes == proc.legs = "graded" /\ causal.proven
               output == proc.ran["on"].out # None
               rec == ReuseRecord(cell.available, proc.decision, output,
                                  proc.legs = "graded", causes, proc.notes)
    <3>1. /\ At("record") /\ reuse'.record = rec /\ proc' = [proc EXCEPT !.pc = "manifest"]
          /\ UNCHANGED <<cell, arrival, manifest, chain>>
      BY <1>13, <2>2 DEF WriteReuse
    <3>2. /\ proc'.pc = "manifest" /\ proc'.decision = proc.decision
          /\ proc'.notes = proc.notes /\ proc'.ran = proc.ran
      BY <3>1 DEF Types, Process
    <3>3. proc.decision = "use_capability" => cell.available
      BY <3>1 DEF LedgerInv
    <3>4. ReuseLedgerValid(proc.decision, rec)
             <=> IF proc.decision = "use_capability" THEN output
                 ELSE cell.available => proc.notes \notin {None, "blank"}
      BY <3>3 DEF ReuseLedgerValid, ReuseRecord
    <3> QED
      BY <1>1, <3>1, <3>2, <3>3, <3>4 DEF LedgerInv
  <2> QED
    BY <2>1, <2>2
<1>14. CASE WriteManifest
  BY <1>1, <1>14 DEF WriteManifest, LedgerInv, OwnInv
<1>15. CASE WireChain
  BY <1>15 DEF WireChain, LedgerInv
<1>16. CASE Crash \/ EditOutput \/ EditCall \/ UNCHANGED vars
  BY <1>1, <1>16 DEF Crash, EditOutput, EditCall, vars, LedgerInv
<1> QED
  BY <1>2, <1>3, <1>4, <1>5, <1>6, <1>7, <1>8, <1>9, <1>10, <1>11, <1>12, <1>13,
     <1>14, <1>15, <1>16 DEF Next, Call, RunLegs

(* A lane's own adapter, and no other, is bound to that lane and to its    *)
(* endpoint and model.                                                     *)
LEMMA LaneAdapter ==
    \A lane \in DOMAIN LANES :
        /\ LANES[lane].adapter \in DOMAIN PROVIDER_NORMALIZERS
        /\ PROVIDER_NORMALIZERS[LANES[lane].adapter].bound.lane = lane
        /\ PROVIDER_NORMALIZERS[LANES[lane].adapter].bound.provider = LANES[lane].provider
        /\ \A id \in DOMAIN PROVIDER_NORMALIZERS :
              /\ PROVIDER_NORMALIZERS[id].bound.lane = lane
              /\ PROVIDER_NORMALIZERS[id].bound.provider = LANES[lane].provider
              => id = LANES[lane].adapter
  BY DEF LANES, PROVIDER_NORMALIZERS, Unbound

(* A step that leaves the artifacts alone and moves the program within one *)
(* of the stretches over which nothing is written, or ends it.             *)
LEMMA ArtifactsStay ==
    ASSUME DerivedInv,
           UNCHANGED <<cell, attempts, request, receipt, normalized, identity, manifest>>,
           chain' = chain,
           \/ proc'.pc \in {"idle", "send", "answered", proc.pc}
           \/ {proc.pc, proc'.pc} \subseteq Later \ {"prereg", "chain"}
    PROVE  DerivedInv'
<1>1. Sent' = Sent /\ n' = n
  BY DEF Sent, n
<1>2. \A u, echo, id : WrittenFrom(u, echo, id) <=> WrittenFrom(u, echo, id)'
  BY <1>1 DEF WrittenFrom
<1>3. Shaped <=> Shaped'
  BY <1>1 DEF Shaped, ReceiptRecord, NormalizedShaped, IdentityRecord
<1> QED
  BY <1>1, <1>2, <1>3 DEF DerivedInv, At, Later, Pcs, CallPcs, RegionPcs

(* So does a step that only moves the program.                             *)
LEMMA ShapedStays ==
    ASSUME Shaped, UNCHANGED <<cell, attempts, receipt, normalized, identity>>
    PROVE  Shaped'
<1>1. Sent' = Sent /\ n' = n
  BY DEF Sent, n
<1>2. ReceiptRecord' = ReceiptRecord /\ IdentityRecord' = IdentityRecord
  BY <1>1 DEF ReceiptRecord, IdentityRecord
<1>3. NormalizedShaped'
  BY <1>1, <1>2 DEF Shaped, NormalizedShaped
<1> QED
  BY <1>1, <1>2, <1>3 DEF Shaped

(* An edit leaves every artifact its shape.                                *)
LEMMA EditShaped ==
    ASSUME TracedInv, EditCall, Shaped PROVE Shaped'
<1>1. /\ UNCHANGED <<cell, attempts>> /\ n' = n /\ Sent' = Sent
      /\ n \in Attempt /\ DOMAIN normalized = Attempt /\ DOMAIN receipt = Attempt
  BY DEF EditCall, TracedInv, n, Sent
<1> DEFINE Shape(x) == \E metrics, intact : \E r \in ReceiptRecord :
                           x = NormalizedWith(r, metrics, intact)
<1>2. ReceiptRecord' = ReceiptRecord /\ IdentityRecord' = IdentityRecord
  BY <1>1 DEF ReceiptRecord, IdentityRecord
<1>3. SUFFICES receipt'[n] \in ReceiptRecord /\ Shape(normalized'[n])
                  /\ normalized'[n].intact \in BOOLEAN /\ identity' \in IdentityRecord
  BY <1>1, <1>2 DEF Shaped, NormalizedShaped
<1>4. /\ receipt[n] \in ReceiptRecord /\ Shape(normalized[n])
      /\ normalized[n].intact \in BOOLEAN /\ identity \in IdentityRecord
  BY DEF Shaped, NormalizedShaped
<1>a. ASSUME NEW r \in ReceiptRecord
      PROVE  Shape(NormalizedOf(r)) /\ NormalizedOf(r).intact = TRUE
  <2>1. NormalizedOf(r) = NormalizedWith(r, NormalizeUsage(r), TRUE)
    BY DEF NormalizedOf, NormalizedWith
  <2>2. Shape(NormalizedWith(r, NormalizeUsage(r), TRUE))
    OBVIOUS
  <2>3. NormalizedOf(r).intact = TRUE
    BY DEF NormalizedOf
  <2> QED
    BY <2>1, <2>2, <2>3
<1> DEFINE Rework(x, work, restamped) == [x EXCEPT !.metrics = work, !.intact = restamped]
<1>b. ASSUME NEW x, NEW work, NEW restamped, Shape(x)
      PROVE  Shape(Rework(x, work, restamped)) /\ Rework(x, work, restamped).intact = restamped
  <2>1. PICK metrics, intact : \E r \in ReceiptRecord : x = NormalizedWith(r, metrics, intact)
    BY <1>b
  <2>2. PICK r \in ReceiptRecord : x = NormalizedWith(r, metrics, intact)
    BY <2>1
  <2> DEFINE y == [x EXCEPT !.metrics = work]
  <2>3. y = NormalizedWith(r, work, intact)
    BY <2>2 DEF NormalizedWith
  <2>4. Rework(x, work, restamped) = [y EXCEPT !.intact = restamped]
    OBVIOUS
  <2> HIDE DEF y
  <2>5. [y EXCEPT !.intact = restamped] = NormalizedWith(r, work, restamped)
    BY <2>3 DEF NormalizedWith
  <2> HIDE DEF Rework
  <2>6. NormalizedWith(r, work, restamped).intact = restamped
    BY DEF NormalizedWith
  <2>7. Shape(NormalizedWith(r, work, restamped))
    OBVIOUS
  <2> QED
    BY <2>4, <2>5, <2>6, <2>7
<1> HIDE DEF Rework
<1> HIDE DEF Shape
<1>5. CASE /\ identity' = identity
           /\ \E r \in Rewritten(receipt[n]) :
                 /\ receipt' = [receipt EXCEPT ![n] = r]
                 /\ normalized' \in {normalized} \cup
                        IF Normalizable(r) THEN {[normalized EXCEPT ![n] = NormalizedOf(r)]}
                        ELSE {}
  <2>1. PICK r \in Rewritten(receipt[n]) :
           /\ receipt' = [receipt EXCEPT ![n] = r]
           /\ normalized' \in {normalized, [normalized EXCEPT ![n] = NormalizedOf(r)]}
    BY <1>5
  <2>2. r \in ReceiptRecord
    <3> DEFINE q == receipt[n]
    <3>1. \A u \in Usages : /\ [q EXCEPT !.usage = u] \in ReceiptRecord
                            /\ [q EXCEPT !.usage = u, !.usageSha = u] \in ReceiptRecord
      BY <1>4 DEF ReceiptRecord
    <3>2. \A id \in DOMAIN PROVIDER_NORMALIZERS : [q EXCEPT !.adapter = id] \in ReceiptRecord
      BY <1>4 DEF ReceiptRecord
    <3> QED
      BY <2>1, <3>1, <3>2 DEF Rewritten
  <2>3. Shape(NormalizedOf(r)) /\ NormalizedOf(r).intact \in BOOLEAN
    BY <1>a, <2>2
  <2>4. receipt'[n] = r /\ normalized'[n] \in {normalized[n], NormalizedOf(r)}
    BY <1>1, <2>1
  <2> QED
    BY <1>4, <1>5, <2>2, <2>3, <2>4
<1>6. CASE /\ UNCHANGED <<receipt, identity>>
           /\ \E restamped \in BOOLEAN :
                 normalized' = [normalized EXCEPT ![n].metrics.work = @ + 1,
                                                  ![n].intact = restamped]
  <2>1. PICK restamped \in BOOLEAN :
            normalized' = [normalized EXCEPT ![n].metrics.work = @ + 1,
                                             ![n].intact = restamped]
    BY <1>6
  <2> DEFINE work == [normalized[n].metrics EXCEPT !.work = @ + 1]
  <2>2. normalized'[n] = Rework(normalized[n], work, restamped)
    BY <1>1, <2>1 DEF Rework
  <2> HIDE DEF work
  <2>3. Shape(normalized'[n]) /\ normalized'[n].intact = restamped
    BY <1>4, <1>b, <2>2
  <2> QED
    BY <1>4, <1>6, <2>3
<1>7. CASE UNCHANGED <<receipt, normalized, identity>>
  BY <1>4, <1>7
<1>8. CASE /\ UNCHANGED <<receipt, normalized>>
           /\ \/ identity' = [identity EXCEPT !.params = "other"]
              \/ \E said \in {"other", "none"} :
                    \/ identity' = [identity EXCEPT !.echoed = said]
                    \/ identity' = [identity EXCEPT !.id = said]
  <2>1. [identity EXCEPT !.params = "other"] \in IdentityRecord
    BY <1>4 DEF IdentityRecord
  <2>2. \A said \in {"other", "none"} : /\ [identity EXCEPT !.echoed = said] \in IdentityRecord
                                        /\ [identity EXCEPT !.id = said] \in IdentityRecord
    BY <1>4 DEF IdentityRecord
  <2> QED
    BY <1>4, <1>8, <2>1, <2>2
<1> QED
  BY <1>5, <1>6, <1>7, <1>8 DEF EditCall

(* The artifacts of the running attempt's call are those of one usage      *)
(* block, written in their order, and keep their shape afterwards.         *)
LEMMA DerivedKept ==
    ASSUME Types, TracedInv, OwnInv, DerivedInv, [Next]_vars PROVE DerivedInv'
<1>1. /\ proc \in Process /\ (chain # 0 => At("idle") /\ chain = n)
      /\ (~At("idle") => n \in Attempt)
  BY DEF Types, OwnInv, n
<1>2. CASE StageRequest
  <2>1. /\ proc'.pc = "send" /\ chain' = 0 /\ cell' = cell
    BY <1>2 DEF StageRequest, Idle, runFiles
  <2> QED
    BY <2>1 DEF DerivedInv, At, Later, Pcs, CallPcs, RegionPcs
<1>3. CASE CallFails \/ CallAnswered \/ Crash \/ EditOutput \/ UNCHANGED vars
  <2>1. /\ UNCHANGED <<cell, attempts, request, receipt, normalized, identity, manifest>>
        /\ chain' = chain /\ proc'.pc \in {"idle", "answered", proc.pc}
    BY <1>1, <1>3 DEF CallFails, CallAnswered, Crash, EditOutput, vars, bounds, callFiles,
         runFiles, Raise, Go, Idle, Process
  <2> QED
    BY <2>1, ArtifactsStay
<1>4. CASE RenameRequest
  <2>1. /\ At("answered") /\ proc'.pc = "receipt" /\ request' = [request EXCEPT ![n] = Sent]
        /\ chain' = chain /\ UNCHANGED <<cell, attempts>>
    BY <1>1, <1>4 DEF RenameRequest, bounds, runFiles, Go, Process
  <2>2. request'[n] = Sent /\ n' = n /\ Sent' = Sent /\ chain = 0
    BY <1>1, <2>1 DEF TracedInv, n, Sent, At
  <2> QED
    BY <2>1, <2>2 DEF DerivedInv, At, Later, CallPcs
<1>5. CASE WriteReceipt
  <2>1. PICK u \in Usages : receipt' = [receipt EXCEPT ![n] = ReceiptOf(cell.lane, Sent, u)]
    BY <1>5 DEF WriteReceipt
  <2>2. /\ At("receipt") /\ proc'.pc = "normalize" /\ request' = request
        /\ chain' = chain /\ UNCHANGED <<cell, attempts>>
    BY <1>1, <1>5 DEF WriteReceipt, bounds, runFiles, Go, Process
  <2>3. /\ receipt'[n] = ReceiptOf(cell.lane, Sent, u)
        /\ n' = n /\ Sent' = Sent /\ chain = 0
    BY <1>1, <2>1, <2>2 DEF TracedInv, n, Sent, At
  <2> QED
    BY <2>2, <2>3 DEF DerivedInv, At, Later, CallPcs
<1>6. CASE WriteNormalized
  <2>1. /\ At("normalize") /\ UNCHANGED <<cell, attempts, request, receipt, identity, manifest>>
        /\ chain' = chain /\ chain = 0
    BY <1>1, <1>6 DEF WriteNormalized, bounds, runFiles, At
  <2>2. CASE Normalizable(receipt[n])
    <3>1. /\ normalized' = [normalized EXCEPT ![n] = NormalizedOf(receipt[n])]
          /\ proc'.pc = "identify"
      BY <1>1, <1>6, <2>2 DEF WriteNormalized, Go, Process
    <3>2. /\ normalized'[n] = NormalizedOf(receipt[n]) /\ n' = n /\ Sent' = Sent
      BY <1>1, <2>1, <3>1 DEF TracedInv, n, Sent, At
    <3> QED
      BY <2>1, <2>2, <3>1, <3>2 DEF DerivedInv, At, Later, CallPcs
  <2>3. CASE ~Normalizable(receipt[n])
    BY <1>6, <2>1, <2>3, ArtifactsStay DEF WriteNormalized, Raise, Idle
  <2> QED
    BY <2>2, <2>3
<1>7. CASE RecordIdentity
  <2>1. /\ At("identify") /\ chain' = chain /\ chain = 0
        /\ UNCHANGED <<cell, attempts, request, receipt, normalized, manifest>>
    BY <1>1, <1>7 DEF RecordIdentity, bounds, callFiles, At
  <2>2. CASE proc' = Idle /\ identity' = identity
    BY <2>1, <2>2, ArtifactsStay DEF Idle
  <2>3. CASE ~(proc' = Idle /\ identity' = identity)
    <3>1. PICK echo \in {"acceptable", "other"} :
            /\ identity' = IdentityOf(cell.lane, receipt[n],
                                      [by |-> n, echoed |-> echo, id |-> "given"])
            /\ proc'.pc = "prereg"
      BY <1>1, <1>7, <2>3 DEF RecordIdentity, Response, Raise, Go, Process
    <3>2. PICK u \in Usages :
             /\ Normalizable(ReceiptOf(cell.lane, Sent, u))
             /\ receipt[n] = ReceiptOf(cell.lane, Sent, u)
             /\ normalized[n] = NormalizedOf(receipt[n]) /\ request[n] = Sent
      BY <2>1 DEF DerivedInv, At
    <3>3. n' = n /\ Sent' = Sent
      BY <2>1 DEF n, Sent
    <3>4. WrittenFrom(u, echo, "given")'
      BY <2>1, <3>1, <3>2, <3>3 DEF WrittenFrom
    <3> QED
      BY <2>1, <3>1, <3>4 DEF DerivedInv, At, Later, CallPcs
  <2> QED
    BY <2>2, <2>3
<1>8. CASE CheckPrereg
  <2>1. /\ At("prereg") /\ chain' = chain /\ chain = 0
        /\ UNCHANGED <<cell, attempts, request, receipt, normalized, identity, manifest>>
    BY <1>1, <1>8 DEF CheckPrereg, bounds, callFiles, runFiles, At
  <2>2. CASE proc' = Idle
    BY <2>1, <2>2, ArtifactsStay DEF Idle
  <2>3. CASE proc' # Idle
    <3>1. CheckAgainstPrereg(cell.lane, identity) /\ proc'.pc = "arrive"
      BY <1>1, <1>8, <2>3 DEF CheckPrereg, Raise, Go, Process
    <3>2. PICK u \in Usages, echo \in {"acceptable", "other"} :
            WrittenFrom(u, echo, "given")
      BY <2>1 DEF DerivedInv
    <3>3. identity.echoed = echo
      BY <3>2 DEF WrittenFrom, IdentityOf
    <3>4. WrittenFrom(u, "acceptable", "given")
      BY <3>1, <3>2, <3>3 DEF CheckAgainstPrereg
    <3>5. n' = n /\ Sent' = Sent
      BY <2>1 DEF n, Sent
    <3>6. WrittenFrom(u, "acceptable", "given")'
      BY <2>1, <3>4, <3>5 DEF WrittenFrom
    <3> QED
      BY <2>1, <3>1, <3>6 DEF DerivedInv, At, Later, CallPcs
  <2> QED
    BY <2>2, <2>3
<1>9. CASE Arrive \/ Execute \/ SealJournal \/ Grade
  <2>1. /\ UNCHANGED <<cell, attempts, request, receipt, normalized, identity, manifest>>
        /\ chain' = chain
        /\ \/ proc'.pc = "idle"
           \/ {proc.pc, proc'.pc} \subseteq Later \ {"prereg", "chain"}
    BY <1>9, ArriveFields, ExecuteFields, SealJournalFields, GradeFields
       DEF bounds, callFiles, runFiles, At, Idle, Later, Pcs, CallPcs, RegionPcs
  <2> QED
    BY <2>1, ArtifactsStay
<1>10. CASE \/ EnterRegion \/ ResolveSchema \/ OffLeg \/ PassLeg \/ Seal \/ ExitRegion
            \/ WriteCausal
  <2>1. /\ UNCHANGED <<cell, attempts, request, receipt, normalized, identity, manifest>>
        /\ chain' = chain
    BY <1>10 DEF EnterRegion, ResolveSchema, OffLeg, PassLeg, Seal, ExitRegion, WriteCausal,
         bounds, callFiles, runFiles, legFiles
  <2>2. /\ proc.pc \in {"enter", "resolve", "off", "pass", "seal", "exit", "prove"}
        /\ proc'.pc \in {"resolve", "off", "exit", "pass", "journal", "grade", "record"}
    <3>1. CASE EnterRegion \/ ResolveSchema \/ ExitRegion
      BY <1>1, <3>1 DEF EnterRegion, ResolveSchema, Omit, ExitRegion, Go, At, Process
    <3>2. CASE OffLeg
      BY <1>1, <3>2 DEF OffLeg, At, Process
    <3>3. CASE PassLeg
      BY <1>1, <3>3 DEF PassLeg, At, Process
    <3>4. CASE Seal
      BY <1>1, <3>4 DEF Seal, At, Process
    <3>5. CASE WriteCausal
      BY <1>1, <3>5 DEF WriteCausal, At, Process
    <3> QED
      BY <1>10, <3>1, <3>2, <3>3, <3>4, <3>5
  <2>3. {proc.pc, proc'.pc} \subseteq Later \ {"prereg", "chain"}
    BY <2>2 DEF Later, Pcs, CallPcs, RegionPcs
  <2> QED
    BY <2>1, <2>3, ArtifactsStay
<1>11. CASE WriteReuse
  <2>1. /\ UNCHANGED <<cell, attempts, request, receipt, normalized, identity, manifest>>
        /\ chain' = chain
    BY <1>11 DEF WriteReuse, bounds, callFiles
  <2>2. \/ proc'.pc = "idle"
        \/ {proc.pc, proc'.pc} \subseteq Later \ {"prereg", "chain"}
    BY <1>1, <1>11 DEF WriteReuse, Raise, Idle, Go, At, Process, Later, Pcs, CallPcs, RegionPcs
  <2> QED
    BY <2>1, <2>2, ArtifactsStay
<1>12. CASE WriteManifest
  <2>1. /\ At("manifest") /\ proc'.pc = "chain" /\ chain' = chain /\ chain = 0
        /\ manifest'.lane = cell.lane
        /\ UNCHANGED <<cell, attempts, request, receipt, normalized, identity>>
    BY <1>1, <1>12 DEF WriteManifest, bounds, callFiles, Idle, At
  <2>2. PICK u \in Usages : WrittenFrom(u, "acceptable", "given")
    BY <2>1 DEF DerivedInv, At, Later, Pcs, CallPcs, RegionPcs
  <2>3. Shaped
    <3> DEFINE r == ReceiptOf(cell.lane, Sent, u)
    <3>1. /\ receipt[n] = r /\ normalized[n] = NormalizedOf(r)
          /\ identity = IdentityOf(cell.lane, r,
                                   [by |-> n, echoed |-> "acceptable", id |-> "given"])
      BY <2>2 DEF WrittenFrom
    <3>2. r \in ReceiptRecord /\ r.request = Sent
      BY LaneAdapter DEF DerivedInv, ReceiptRecord, ReceiptOf
    <3> HIDE DEF r
    <3>3. NormalizedShaped
      <4>1. NormalizedOf(r) = NormalizedWith(r, NormalizeUsage(r), TRUE)
        BY DEF NormalizedOf, NormalizedWith
      <4>2. NormalizedOf(r).intact \in BOOLEAN
        BY DEF NormalizedOf
      <4> QED
        BY <3>1, <3>2, <4>1, <4>2 DEF NormalizedShaped
    <3>4. identity \in IdentityRecord
      BY <3>1, <3>2 DEF IdentityRecord, IdentityOf, Sent, Body
    <3> QED
      BY <3>1, <3>2, <3>3, <3>4 DEF Shaped
  <2>4. Shaped'
    BY <2>1, <2>3, ShapedStays
  <2> QED
    BY <2>1, <2>4 DEF DerivedInv, At, Later, CallPcs
<1>13. CASE WireChain
  <2>1. /\ At("chain") /\ proc'.pc = "idle"
        /\ UNCHANGED <<cell, attempts, request, receipt, normalized, identity, manifest>>
    BY <1>13 DEF WireChain, bounds, callFiles, Raise, Idle
  <2>2. Shaped
    BY <2>1 DEF DerivedInv
  <2>3. Shaped'
    BY <2>1, <2>2, ShapedStays
  <2> QED
    BY <2>1, <2>3 DEF DerivedInv, At, Later, CallPcs
<1>14. CASE EditCall
  <2>1. /\ At("chain") \/ chain = n
        /\ UNCHANGED <<cell, attempts, proc, manifest, chain>> /\ n \in Attempt
    BY <1>14 DEF EditCall, TracedInv
  <2>2. Shaped
    BY <2>1 DEF DerivedInv, Attempt
  <2>3. Shaped'
    BY <1>14, <2>2, EditShaped
  <2>4. proc.pc \in {"chain", "idle"}
    BY <1>1, <2>1 DEF At, Attempt
  <2> QED
    BY <2>1, <2>3, <2>4 DEF DerivedInv, At, Later, CallPcs
<1> QED
  BY <1>2, <1>3, <1>4, <1>5, <1>6, <1>7, <1>8, <1>9, <1>10, <1>11, <1>12, <1>13, <1>14
     DEF Next, Call, RunLegs

(* The chain commits to an identity record its gate has verified.          *)
LEMMA CommittedKept == ASSUME CommittedInv, [Next]_vars PROVE CommittedInv'
<1>1. CASE WireChain
  BY <1>1 DEF WireChain, ChainGate, VerifyRequestBinding, CommittedInv
<1>2. CASE StageRequest
  BY <1>2 DEF StageRequest, runFiles, CommittedInv
<1>3. CASE UNCHANGED <<chain, committed>>
  BY <1>3 DEF CommittedInv
<1> QED
  BY <1>1, <1>2, <1>3
     DEF Next, Call, RunLegs, vars, runFiles, CallFails, CallAnswered, RenameRequest,
         WriteReceipt, WriteNormalized, RecordIdentity, CheckPrereg, Arrive, Execute,
         EnterRegion, ResolveSchema, OffLeg, PassLeg, SealJournal, Seal, ExitRegion, Grade,
         WriteCausal, WriteReuse, WriteManifest, Crash, EditCall, EditOutput

-----------------------------------------------------------------------------
(* A cell nobody has run yet.                                              *)
LEMMA InitInductive == Init => Inductive
<1> SUFFICES ASSUME Init PROVE Inductive
  OBVIOUS
<1>1. /\ proc = Idle /\ attempts = 0 /\ chain = 0 /\ identity = NoFile /\ causal = NoFile
      /\ \A a \in Attempt : /\ paid[a] = "no" /\ request[a] = NoFile
                            /\ receipt[a] = NoFile /\ normalized[a] = NoFile
  BY DEF Init
<1>2. proc.pc = "idle" /\ proc.legs = "none" /\ \A x \in Legs : proc.ran[x].out = None
  BY <1>1, IdleFacts
<1>3. Types
  <2>1. observer \in [calls : 0..1, depth : 0..1, trips : 0..1, journal : {"open", "closed"}]
    BY DEF Init, Silent
  <2>2. /\ attempts \in 0..MaxAttempts /\ faults \in 0..MaxFaults
        /\ chain \in 0..MaxAttempts
    BY TreatmentAssumption DEF Init
  <2>3. paid \in [Attempt -> {"no", "discarded", "usable"}] /\ stage \subseteq Attempt
    BY DEF Init
  <2>4. /\ outs \in [Legs -> {Edited} \cup 0..MaxAttempts]
        /\ a13 \in [LegFiles -> 0..MaxAttempts]
    BY TreatmentAssumption DEF Init, LegFiles
  <2> QED
    BY <1>1, <1>2, <2>1, <2>2, <2>3, <2>4, IdleFacts DEF Types, At
<1>4. ObserverInv
  BY <1>2 DEF ObserverInv, At, CallPcs
<1>5. TracedInv
  <2>1. DOMAIN request = Attempt /\ DOMAIN receipt = Attempt /\ DOMAIN normalized = Attempt
    BY DEF Init
  <2> QED
    BY <1>1, <1>2, <2>1 DEF TracedInv, At
<1>6. PaidCallsTraced
  BY <1>1 DEF PaidCallsTraced
<1>7. LegsInv /\ CausedInv
  BY <1>1, <1>2 DEF LegsInv, CausedInv, At, Legs
<1>8. OwnInv /\ ChainedInv /\ LedgerInv
  BY <1>1, <1>2 DEF OwnInv, ChainedInv, LedgerInv, At, Later, Answered, CallPcs
<1>9. DerivedInv /\ CommittedInv
  BY <1>1, <1>2, TreatmentAssumption DEF Init, DerivedInv, CommittedInv, At, Later, CallPcs
<1> QED
  BY <1>3, <1>4, <1>5, <1>6, <1>7, <1>8, <1>9 DEF Inductive

LEMMA AlwaysInductive == Spec => []Inductive
<1>1. Inductive /\ [Next]_vars => Inductive'
  BY TypesKept, ObserverKept, CallKept, LegsKept, CausedKept, OwnKept, ChainedKept,
     LedgerKept, DerivedKept, CommittedKept DEF Inductive
<1> QED
  BY <1>1, InitInductive, PTL DEF Spec

-----------------------------------------------------------------------------
(* Every variable keeps its type, and a live process is inside the         *)
(* observed region exactly between its entry and its exit                  *)
(* (a13_observer.region_enter, region_exit).                               *)
THEOREM TypeInvariant == Spec => []TypeOK
<1>1. Inductive => TypeOK
  <2> SUFFICES ASSUME Inductive PROVE TypeOK
    OBVIOUS
  <2>1. proc.pc \in Pcs /\ proc.ran \in [Legs -> LegRun]
    BY DEF Inductive, Types, Process
  <2>2. observer.calls \in 0..1 /\ observer.depth \in 0..1 /\ observer.trips \in 0..1
    BY DEF Inductive, Types
  <2> QED
    BY <2>1, <2>2
       DEF Inductive, Types, ObserverInv, TypeOK, Pcs, CallPcs, RegionPcs, LegRun, LegFiles
<1> QED
  BY <1>1, AlwaysInductive, PTL

(* A receipt of a proven contribution is of bytes its own attempt produced *)
(* and graded, whatever was left over or edited                            *)
(* (adaptation.derive_causal_contribution, run_arm_h1.grade_a13_legs).     *)
THEOREM ProvenMeansCausedHolds == Spec => []ProvenMeansCaused
<1>1. Inductive => ProvenMeansCaused
  BY DEF Inductive, CausedInv, ProvenMeansCaused
<1> QED
  BY <1>1, AlwaysInductive, PTL

(* A usable paid answer leaves its request, and no artifact of a call      *)
(* stands without the one before it (usage.recorded_call).                 *)
THEOREM PaidCallsTracedHolds == Spec => []PaidCallsTraced
<1>1. Inductive => PaidCallsTraced
  BY DEF Inductive
<1> QED
  BY <1>1, AlwaysInductive, PTL

(* A completed cell names no file of an attempt that died before it        *)
(* (run_arm_h1.main, _wire_chain).                                         *)
THEOREM CompletedCellOwnsItsEvidenceHolds == Spec => []CompletedCellOwnsItsEvidence
<1>1. Inductive => CompletedCellOwnsItsEvidence
  BY DEF Inductive, OwnInv, ChainedInv, CompletedCellOwnsItsEvidence, n
<1> QED
  BY <1>1, AlwaysInductive, PTL

(* The order accepts the ledger of every completed cell, but for the two   *)
(* unfinished cases (order._reuse_ledger_reasons).                         *)
THEOREM LedgerAcceptedHolds == Spec => []LedgerAcceptedUnlessUnfinished
<1>1. Inductive => LedgerAcceptedUnlessUnfinished
  BY DEF Inductive, LedgerInv, ValidUnlessUnfinished, LedgerAcceptedUnlessUnfinished
<1> QED
  BY <1>1, AlwaysInductive, PTL

(* The artifacts of an answer that spent work pass every gate, whatever    *)
(* model it echoed and whatever id it had.                                 *)
LEMMA WrittenPasses ==
    ASSUME cell.lane \in DOMAIN LANES, NEW u, NEW echo \in {"acceptable", "other"},
           NEW id \in {"given", "other"}, WrittenFrom(u, echo, id),
           NormalizeUsage(receipt[n]).work > 0
    PROVE  UsageGates(cell.lane, receipt[n], normalized[n], request[n], identity)
<1> DEFINE r == ReceiptOf(cell.lane, Sent, u)
           provider == LANES[cell.lane].provider
<1>1. /\ Normalizable(r) /\ request[n] = Sent /\ receipt[n] = r
      /\ normalized[n] = NormalizedOf(r)
      /\ identity = IdentityOf(cell.lane, r, [by |-> n, echoed |-> echo, id |-> id])
  BY DEF WrittenFrom
<1>2. /\ r.endpoint = provider /\ r.model = provider /\ r.request = Sent
      /\ r.adapter = LANES[cell.lane].adapter
  BY DEF ReceiptOf
<1>3. Sent.model = provider
  BY DEF Sent, Body
<1>4. /\ identity.endpoint = provider /\ identity.model = provider
      /\ identity.request = Sent /\ identity.params = Sent.params
      /\ identity.echoed # "none" /\ identity.id # "none"
  BY <1>1, <1>2 DEF IdentityOf
<1>5. /\ normalized[n].intact /\ normalized[n].receipt = r
      /\ normalized[n].adapter = r.adapter /\ normalized[n].metrics = NormalizeUsage(r)
  BY <1>1 DEF NormalizedOf
<1>6. request[n] # NoFile /\ r # NoFile /\ normalized[n] # NoFile /\ identity # NoFile
  BY <1>1, WrittenFacts
<1> HIDE DEF r, provider
<1>7. VerifyAdapterBinding(r, cell.lane)
  BY <1>2, LaneAdapter DEF VerifyAdapterBinding, AdapterNamed, BoundTo, SameProvider, provider
<1>8. VerifyRequestBinding(r, request[n], identity)
  BY <1>1, <1>2, <1>3, <1>4, <1>6 DEF VerifyRequestBinding
<1>9. VerifyIdentityBinding(identity, r)
  BY <1>2, <1>4 DEF VerifyIdentityBinding
<1>10. VerifyNormalizedUsage(normalized[n], r)
  BY <1>1, <1>5, <1>6 DEF VerifyNormalizedUsage
<1> QED
  BY <1>1, <1>5, <1>6, <1>7, <1>8, <1>9, <1>10 DEF UsageGates

(* What passes them is what some answer to the bytes sent would have left. *)
LEMMA PassesWritten ==
    ASSUME cell.lane \in DOMAIN LANES, Shaped,
           UsageGates(cell.lane, receipt[n], normalized[n], request[n], identity)
    PROVE  /\ receipt[n].usage \in Usages
           /\ identity.echoed \in {"acceptable", "other"} /\ identity.id \in {"given", "other"}
           /\ WrittenFrom(receipt[n].usage, identity.echoed, identity.id)
           /\ NormalizeUsage(receipt[n]).work > 0
<1> DEFINE r == receipt[n]
           provider == LANES[cell.lane].provider
<1>1. r \in ReceiptRecord /\ identity \in IdentityRecord
  BY DEF Shaped
<1>2. /\ Normalizable(r) /\ normalized[n].intact /\ normalized[n].receipt = r
      /\ normalized[n].metrics = NormalizeUsage(r) /\ normalized[n].metrics.work > 0
      /\ normalized[n].adapter = r.adapter
      /\ request[n] = r.request /\ identity.params = request[n].params
      /\ identity.echoed # "none" /\ identity.id # "none"
  BY DEF UsageGates, VerifyNormalizedUsage, VerifyRequestBinding, VerifyIdentityBinding
<1>3. r.adapter = LANES[cell.lane].adapter
  <2>1. /\ r.adapter \in DOMAIN PROVIDER_NORMALIZERS
        /\ PROVIDER_NORMALIZERS[r.adapter].bound.lane = cell.lane
        /\ PROVIDER_NORMALIZERS[r.adapter].bound.provider = r.endpoint
    BY DEF UsageGates, VerifyAdapterBinding, AdapterNamed, BoundTo, SameProvider
  <2>2. r.endpoint = provider
    BY <1>1 DEF ReceiptRecord
  <2> QED
    BY <2>1, <2>2, LaneAdapter
<1>4. r = ReceiptOf(cell.lane, Sent, r.usage) /\ r.request = Sent /\ r.usage \in Usages
  <2>1. r.usageSha = r.usage
    BY <1>2 DEF Normalizable
  <2> QED
    BY <1>1, <1>3, <2>1 DEF ReceiptRecord, ReceiptOf
<1>5. normalized[n] = NormalizedOf(r)
  <2>1. PICK metrics, intact : \E q \in ReceiptRecord :
            normalized[n] = NormalizedWith(q, metrics, intact)
    BY DEF Shaped, NormalizedShaped
  <2>2. PICK q \in ReceiptRecord : normalized[n] = NormalizedWith(q, metrics, intact)
    BY <2>1
  <2>3. q = r /\ metrics = NormalizeUsage(r) /\ normalized[n].intact = intact
    BY <1>2, <2>2 DEF NormalizedWith
  <2>4. normalized[n].intact = TRUE
    BY <1>2 DEF Shaped, NormalizedShaped
  <2> HIDE DEF r
  <2> QED
    BY <2>2, <2>3, <2>4 DEF NormalizedOf, NormalizedWith
<1>6. /\ identity.echoed \in {"acceptable", "other"} /\ identity.id \in {"given", "other"}
      /\ identity = IdentityOf(cell.lane, r, [by |-> n, echoed |-> identity.echoed,
                                              id |-> identity.id])
  BY <1>1, <1>2, <1>4 DEF IdentityRecord, IdentityOf
<1> QED
  BY <1>2, <1>4, <1>5, <1>6 DEF WrittenFrom

(* Admissibility's usage gates let a completed cell through exactly when   *)
(* it spent model work and its call's artifacts are those of one answer to *)
(* the bytes sent, after any number of edits                               *)
(* (admissibility.classify_run_dir, usage.verify_normalized_usage,         *)
(* identity.verify_identity_binding).                                      *)
THEOREM AdmittedIffCoherentHolds == Spec => []AdmittedIffCoherent
<1>1. Inductive => AdmittedIffCoherent
  <2> SUFFICES ASSUME Inductive, chain # 0
               PROVE  UsageGates(manifest.lane, receipt[chain], normalized[chain],
                                 request[chain], identity)
                        <=> LeftByAnAnswer(chain) /\ NormalizeUsage(receipt[chain]).work > 0
    BY DEF AdmittedIffCoherent
  <2>1. chain = n /\ manifest.lane = cell.lane /\ cell.lane \in DOMAIN LANES /\ Shaped
    BY DEF Inductive, OwnInv, DerivedInv
  <2>2. LeftByAnAnswer(n) <=> \E u \in Usages, echo \in {"acceptable", "other"},
                                 id \in {"given", "other"} : WrittenFrom(u, echo, id)
    BY DEF LeftByAnAnswer, WrittenFrom
  <2> QED
    BY <2>1, <2>2, WrittenPasses, PassesWritten
<1> QED
  BY <1>1, AlwaysInductive, PTL

(* The identity evidence of a completed cell is promoted only when the     *)
(* record is the one written for its receipt, response id aside, however   *)
(* often it was edited (promotion._identity_evidence).                     *)
THEOREM PromotableIdentityRecordedHolds == Spec => []PromotableIdentityRecorded
<1>1. Inductive => PromotableIdentityRecorded
  <2> SUFFICES ASSUME Inductive, chain # 0,
                      IdentityEvidence(manifest.lane, receipt[chain], identity, committed)
               PROVE  identity = IdentityOf(cell.lane, receipt[chain],
                                   [by |-> chain, echoed |-> "acceptable",
                                    id |-> identity.id])
    BY DEF PromotableIdentityRecorded
  <2>1. /\ chain = n /\ receipt[n].request = Sent /\ identity \in IdentityRecord
    BY DEF Inductive, OwnInv, DerivedInv, Shaped, ReceiptRecord
  <2>2. identity = committed /\ identity.echoed = "acceptable"
    BY DEF IdentityEvidence, CheckAgainstPrereg
  <2>3. identity.params = identity.request.params
    BY <2>2 DEF Inductive, CommittedInv
  <2> QED
    BY <2>1, <2>2, <2>3 DEF IdentityRecord, IdentityOf
<1> QED
  BY <1>1, AlwaysInductive, PTL
=============================================================================
