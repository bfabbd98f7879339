------------------------- MODULE PairLedger_proofs -------------------------
(***************************************************************************)
(* The replacement ledger under one process at a time, for every set of    *)
(* arms, settings and run ids and every number of runs and crashes.  The   *)
(* invariant joins what holds of any version of the record, on disk or in  *)
(* memory, with how a version in memory differs from the one on disk.      *)
(***************************************************************************)
EXTENDS PairLedger, SequenceTheorems, TLAPS

OneHolder == \A g, h \in Holders : g = h

Run     == [arm : Arms, kind : Kinds, named : BOOLEAN]
Answers == {"closed", "none", "recorded", "allowed", "refused", "completed"}

Record == [runs : Seq(Run), replacements : 0..1, status : Status,
           authorization : Authorizations \cup {NoAuthorization},
           expected : SUBSET Arms, done : [Arms -> RunIds \cup {NoRun}]]

(* A version of the record: nothing of a replacement before it is allowed, *)
(* every rerun one of its arms and of a named original, in its own run.    *)
Lawful(p) ==
    /\ p.replacements = 0 => /\ p.status \in {"unknown", "open"}
                             /\ \A a \in Arms : p.done[a] = NoRun
    /\ p.replacements = 1 => p.authorization.generation = 1
    /\ \A a \in Arms : p.done[a] # NoRun => a \in p.expected /\ Originals(p, a) # {}
    /\ \A a, b \in Arms : p.done[a] # NoRun /\ p.done[a] = p.done[b] => a = b
    /\ p.status = "replacement-complete" =>
          p.replacements = 1 /\ \A a \in p.expected : p.done[a] # NoRun

(* What a later version keeps of an earlier one.                           *)
Keeps(p, q) ==
    /\ IsPrefix(p.runs, q.runs)
    /\ \A a \in Arms : p.done[a] # NoRun => q.done[a] = p.done[a]
    /\ p.replacements = 1 => /\ q.authorization = p.authorization
                             /\ q.expected = p.expected
    /\ p.status = "missing-evidence" => q.status = p.status

Types ==
    /\ file \in Record /\ torn \in BOOLEAN
    /\ holder \in [Holders -> [answer : Answers, pair : Record]]
    /\ grants \in Nat /\ crashes \in 0..MaxCrashes

LawfulInv == Lawful(file) /\ \A h \in Holders : Lawful(Pair(h))

(* What is in memory is what is on disk, or what is about to replace it.   *)
CopyInv ==
    /\ grants = file.replacements
    /\ \A h \in Holders :
          /\ Ready(h) => Pair(h) = file
          /\ Saving(h) => /\ Keeps(file, Pair(h))
                          /\ Pair(h).replacements =
                               IF holder[h].answer = "allowed" THEN grants + 1 ELSE grants

Inductive == Types /\ LawfulInv /\ CopyInv

-----------------------------------------------------------------------------
(* The record each method leaves.                                          *)
Recorded(p, r) == [p EXCEPT !.runs = Append(@, r),
                            !.status = IF @ = "unknown" THEN "open" ELSE @]

Allowed(p, s) == [p EXCEPT !.replacements = @ + 1,
                           !.authorization = [generation |-> 1, settings |-> s],
                           !.expected = {r.arm : r \in ToSet(p.runs)},
                           !.status = "replaced-once"]

Refused(p) == [p EXCEPT !.status = "missing-evidence"]

Completed(p, m) ==
    LET done == [p.done EXCEPT ![m.arm] = m.run]
    IN  [p EXCEPT !.done = done,
                  !.status = IF \A a \in p.expected : done[a] # NoRun
                             THEN "replacement-complete" ELSE @]

(* Recording a run keeps the record lawful (record_run).                   *)
LEMMA RecordLawful ==
    ASSUME NEW p \in Record, Lawful(p), NEW r \in Run, NEW q,
           q = Recorded(p, r)
    PROVE  q \in Record /\ Lawful(q) /\ Keeps(p, q) /\ q.replacements = p.replacements
<1>1. /\ q.runs = Append(p.runs, r) /\ q.runs \in Seq(Run)
      /\ q.status = (IF p.status = "unknown" THEN "open" ELSE p.status)
      /\ q.replacements = p.replacements /\ q.authorization = p.authorization
      /\ q.expected = p.expected /\ q.done = p.done
  BY AppendProperties DEF Recorded, Record
<1>2. q \in Record
  <2>1. q = [runs |-> q.runs, replacements |-> p.replacements, status |-> q.status,
             authorization |-> p.authorization, expected |-> p.expected, done |-> p.done]
    BY <1>1 DEF Recorded, Record
  <2>2. /\ p.replacements \in 0..1 /\ p.expected \in SUBSET Arms
        /\ p.authorization \in Authorizations \cup {NoAuthorization}
        /\ p.done \in [Arms -> RunIds \cup {NoRun}] /\ q.status \in Status
    BY <1>1 DEF Record, Status
  <2> QED
    BY ONLY <1>1, <2>1, <2>2 DEF Record
<1>3. /\ Len(q.runs) = Len(p.runs) + 1
      /\ \A i \in 1..Len(p.runs) : q.runs[i] = p.runs[i]
  BY <1>1, AppendProperties DEF Record
<1>4. IsPrefix(p.runs, q.runs)
  <2>1. /\ p.runs \in Seq(Run) /\ q.runs \in Seq(Run) /\ Len(p.runs) \in Nat
    BY <1>1 DEF Record
  <2>2. SubSeq(p.runs, 1, Len(p.runs)) = SubSeq(q.runs, 1, Len(p.runs))
    BY <2>1, <1>3
  <2> QED
    BY <2>1, <2>2, <1>3 DEF IsPrefix
<1>5. \A a \in Arms : Originals(p, a) \subseteq Originals(q, a)
  BY <1>1, <1>3 DEF Originals, Record
<1>6. Lawful(q)
  BY <1>1, <1>5 DEF Lawful, Record, Status
<1> QED
  BY <1>1, <1>2, <1>4, <1>6 DEF Keeps

(* A version that leaves the runs alone has them as a prefix.              *)
LEMMA SameRuns ==
    ASSUME NEW p \in Record, NEW q, q.runs = p.runs
    PROVE  IsPrefix(p.runs, q.runs) /\ \A a \in Arms : Originals(q, a) = Originals(p, a)
  BY DEF IsPrefix, Originals, Record

(* Allowing the first replacement keeps the record lawful                  *)
(* (request_replacement).                                                  *)
LEMMA AllowLawful ==
    ASSUME NEW p \in Record, Lawful(p), p.replacements = 0, NEW s \in Settings, NEW q,
           q = Allowed(p, s)
    PROVE  q \in Record /\ Lawful(q) /\ Keeps(p, q) /\ q.replacements = 1
<1>1. /\ q.runs = p.runs /\ q.done = p.done /\ q.replacements = 1
      /\ q.authorization = [generation |-> 1, settings |-> s]
      /\ q.expected = {r.arm : r \in ToSet(p.runs)} /\ q.status = "replaced-once"
  BY DEF Allowed, Record
<1>2. q.expected \subseteq Arms
  <2>1. \A i \in DOMAIN p.runs : p.runs[i] \in Run
    BY ElementOfSeq DEF Record
  <2>2. \A r \in ToSet(p.runs) : r.arm \in Arms
    BY <2>1 DEF ToSet, Run
  <2> QED
    BY <1>1, <2>2
<1>3. q \in Record
  <2>1. q.authorization \in Authorizations
    BY <1>1 DEF Authorizations
  <2>2. q = [runs |-> p.runs, replacements |-> 1, status |-> "replaced-once",
             authorization |-> q.authorization, expected |-> q.expected, done |-> p.done]
    BY <1>1 DEF Allowed, Record
  <2>3. p.runs \in Seq(Run) /\ p.done \in [Arms -> RunIds \cup {NoRun}]
    BY DEF Record
  <2> QED
    BY ONLY <1>2, <2>1, <2>2, <2>3 DEF Record, Status
<1>4. Lawful(q)
  <2>1. q.authorization.generation = 1 /\ \A a \in Arms : q.done[a] = NoRun
    BY <1>1 DEF Lawful
  <2> QED
    BY ONLY <1>1, <2>1 DEF Lawful
<1>5. Keeps(p, q)
  BY <1>1, SameRuns DEF Keeps, Lawful, Record
<1> QED
  BY <1>1, <1>3, <1>4, <1>5

(* A second request only marks the pair (request_replacement).             *)
LEMMA RefuseLawful ==
    ASSUME NEW p \in Record, Lawful(p), p.replacements >= 1, NEW q,
           q = Refused(p)
    PROVE  q \in Record /\ Lawful(q) /\ Keeps(p, q) /\ q.replacements = p.replacements
<1>1. /\ q.runs = p.runs /\ q.done = p.done /\ q.replacements = p.replacements
      /\ q.authorization = p.authorization /\ q.expected = p.expected
      /\ q.status = "missing-evidence"
  BY DEF Refused, Record
<1>2. q \in Record
  BY <1>1 DEF Refused, Record, Status
<1>3. Lawful(q)
  BY <1>1, SameRuns DEF Lawful, Record
<1>4. Keeps(p, q)
  BY <1>1, SameRuns DEF Keeps
<1> QED
  BY <1>1, <1>2, <1>3, <1>4

(* A rerun that binds is linked to its arm and to nothing else             *)
(* (complete_replacement).                                                 *)
LEMMA CompleteLawful ==
    ASSUME NEW p \in Record, Lawful(p), NEW m \in Manifests, Binds(p, m), NEW q,
           q = Completed(p, m)
    PROVE  q \in Record /\ Lawful(q) /\ Keeps(p, q) /\ q.replacements = p.replacements
<1> DEFINE d == [p.done EXCEPT ![m.arm] = m.run]
<1>1. /\ m.arm \in Arms /\ m.run \in RunIds /\ m.arm \in p.expected
      /\ p.status = "replaced-once" /\ p.done[m.arm] = NoRun
      /\ \A a \in Arms : p.done[a] # m.run
      /\ Originals(p, m.arm) # {}
  BY DEF Binds, Manifests
<1>2. /\ q.runs = p.runs /\ q.replacements = p.replacements
      /\ q.authorization = p.authorization /\ q.expected = p.expected /\ q.done = d
      /\ q.status = IF \A a \in p.expected : d[a] # NoRun
                    THEN "replacement-complete" ELSE p.status
  BY DEF Completed, Record
<1>3. d \in [Arms -> RunIds \cup {NoRun}]
  BY <1>1 DEF Record
<1>4. q \in Record
  <2>1. q = [runs |-> p.runs, replacements |-> p.replacements, status |-> q.status,
             authorization |-> p.authorization, expected |-> p.expected, done |-> d]
    BY <1>2 DEF Completed, Record
  <2>2. q.status \in Status
    BY <1>1, <1>2 DEF Status
  <2>3. /\ p.runs \in Seq(Run) /\ p.replacements \in 0..1 /\ p.expected \in SUBSET Arms
        /\ p.authorization \in Authorizations \cup {NoAuthorization}
    BY DEF Record
  <2> HIDE DEF d
  <2> QED
    BY ONLY <1>3, <2>1, <2>2, <2>3 DEF Record
<1>5. \A a \in Arms : d[a] = IF a = m.arm THEN m.run ELSE p.done[a]
  BY <1>1 DEF Record
<1>6. p.replacements = 1
  BY <1>1 DEF Lawful, Record
<1>7. Lawful(q)
  <2>1. \A a \in Arms : q.done[a] # NoRun => a \in q.expected /\ Originals(q, a) # {}
    <3>1. \A a \in Arms : Originals(q, a) = Originals(p, a)
      BY <1>2, SameRuns
    <3>2. \A a \in Arms \ {m.arm} : q.done[a] = p.done[a]
      BY <1>2, <1>5
    <3>3. \A a \in Arms : p.done[a] # NoRun => a \in p.expected /\ Originals(p, a) # {}
      BY DEF Lawful
    <3> QED
      BY <1>1, <1>2, <3>1, <3>2, <3>3
  <2>2. \A a, b \in Arms : q.done[a] # NoRun /\ q.done[a] = q.done[b] => a = b
    BY <1>1, <1>2, <1>5 DEF Lawful
  <2> QED
    BY <2>1, <2>2, <1>1, <1>2, <1>6 DEF Lawful
<1>8. Keeps(p, q)
  BY <1>1, <1>2, <1>5, SameRuns DEF Keeps
<1> QED
  BY <1>2, <1>4, <1>7, <1>8

-----------------------------------------------------------------------------
(* The empty record is lawful.                                             *)
LEMMA InitInductive == Init => Inductive
<1> SUFFICES ASSUME Init PROVE Inductive
  OBVIOUS
<1>1. NewPair \in Record /\ Lawful(NewPair)
  BY EmptySeq DEF NewPair, Record, Lawful, Status, Run
<1>2. /\ file = NewPair /\ torn = FALSE /\ grants = 0 /\ crashes = 0
      /\ holder = [h \in Holders |-> [answer |-> "closed", pair |-> NewPair]]
  BY DEF Init
<1>3. Types
  <2>1. holder \in [Holders -> [answer : Answers, pair : Record]]
    BY <1>1, <1>2 DEF Answers
  <2>2. grants \in Nat /\ crashes \in 0..MaxCrashes
    BY <1>2, PairAssumption
  <2>3. file \in Record /\ torn \in BOOLEAN
    BY <1>1, <1>2
  <2> QED
    BY <2>1, <2>2, <2>3 DEF Types
<1>4. LawfulInv
  BY <1>1, <1>2 DEF LawfulInv, Pair
<1>5. CopyInv
  <2>1. file.replacements = 0
    BY <1>2 DEF NewPair
  <2> QED
    BY <1>2, <2>1 DEF CopyInv, Ready, Saving
<1> QED
  BY <1>3, <1>4, <1>5 DEF Inductive

(* A method that changes the copy and opens the file: all that is left to  *)
(* show of it is what it does to the copy.                                 *)
LEMMA BeginSaveInductive ==
    ASSUME Inductive, OneHolder, NEW h \in Holders, Ready(h), NEW q \in Record,
           NEW answer \in Answers \ {"closed", "none"}, BeginSave(h, q, answer),
           Lawful(q), Keeps(file, q),
           q.replacements = IF answer = "allowed" THEN grants + 1 ELSE grants
    PROVE  Inductive'
<1>1. /\ holder' = [holder EXCEPT ![h] = [answer |-> answer, pair |-> q]]
      /\ torn' = TRUE /\ UNCHANGED <<file, grants, crashes>>
  BY DEF BeginSave
<1>2. \A g \in Holders : g = h
  BY DEF OneHolder
<1>3. holder'[h].answer = answer /\ holder'[h].pair = q
  BY <1>1 DEF Inductive, Types
<1>4. Types'
  BY <1>1 DEF Inductive, Types, Answers
<1>5. LawfulInv'
  BY <1>1, <1>2, <1>3 DEF Inductive, LawfulInv, Pair
<1>6. CopyInv'
  BY <1>1, <1>2, <1>3 DEF Inductive, CopyInv, Pair, Ready, Saving
<1> QED
  BY <1>4, <1>5, <1>6 DEF Inductive

(* Every step of the one process, its death included, keeps the invariant. *)
LEMMA StepInductive == OneHolder /\ Inductive /\ [Next]_vars => Inductive'
<1> SUFFICES ASSUME OneHolder, Inductive, [Next]_vars PROVE Inductive'
  OBVIOUS
<1>1. CASE UNCHANGED vars
  BY <1>1 DEF vars, Inductive, Types, LawfulInv, CopyInv, Pair, Ready, Saving
<1>2. ASSUME NEW h \in Holders, Open(h) PROVE Inductive'
  <2>1. /\ holder' = [holder EXCEPT ![h] = [answer |-> "none", pair |-> file]]
        /\ UNCHANGED <<file, torn, grants, crashes>>
    BY <1>2 DEF Open
  <2>2. holder'[h].answer = "none" /\ holder'[h].pair = file
    BY <2>1 DEF Inductive, Types
  <2>3. Types'
    BY <2>1 DEF Inductive, Types, Answers
  <2> QED
    BY <2>1, <2>2, <2>3 DEF OneHolder, Inductive, LawfulInv, CopyInv, Pair, Ready, Saving
<1>3. ASSUME NEW h \in Holders, Close(h) PROVE Inductive'
  <2>1. /\ holder' = [holder EXCEPT ![h].answer = "closed"]
        /\ UNCHANGED <<file, torn, grants, crashes>>
    BY <1>3 DEF Close
  <2>2. holder'[h].answer = "closed" /\ holder'[h].pair = holder[h].pair
    BY <2>1 DEF Inductive, Types
  <2>3. Types'
    BY <2>1 DEF Inductive, Types, Answers
  <2> QED
    BY <2>1, <2>2, <2>3 DEF OneHolder, Inductive, LawfulInv, CopyInv, Pair, Ready, Saving
<1>4. ASSUME NEW h \in Holders, Crash(h) PROVE Inductive'
  <2>1. /\ holder' = [holder EXCEPT ![h].answer = "closed"]
        /\ crashes < MaxCrashes /\ crashes' = crashes + 1
        /\ UNCHANGED <<file, torn, grants>>
    BY <1>4 DEF Crash
  <2>2. holder'[h].answer = "closed" /\ holder'[h].pair = holder[h].pair
    BY <2>1 DEF Inductive, Types
  <2>3. Types'
    BY <2>1, PairAssumption DEF Inductive, Types, Answers
  <2> QED
    BY <2>1, <2>2, <2>3 DEF OneHolder, Inductive, LawfulInv, CopyInv, Pair, Ready, Saving
<1>5. ASSUME NEW h \in Holders, Save(h) PROVE Inductive'
  <2>1. /\ Saving(h) /\ file' = holder[h].pair /\ torn' \in {FALSE, ~torn}
        /\ grants' = IF holder[h].answer = "allowed" THEN grants + 1 ELSE grants
        /\ holder' = [holder EXCEPT ![h].answer = "none"] /\ UNCHANGED crashes
    BY <1>5 DEF Save, Pair
  <2>2. holder'[h].answer = "none" /\ holder'[h].pair = holder[h].pair
    BY <2>1 DEF Inductive, Types
  <2>3. grants' = file'.replacements
    BY <2>1 DEF Inductive, CopyInv, Pair
  <2>4. Types'
    <3>1. file' \in Record /\ holder' \in [Holders -> [answer : Answers, pair : Record]]
      BY <2>1 DEF Inductive, Types, Answers
    <3>2. torn' \in BOOLEAN /\ crashes' \in 0..MaxCrashes
      BY <2>1 DEF Inductive, Types
    <3> QED
      BY <3>1, <3>2, <2>1 DEF Inductive, Types
  <2> QED
    BY <2>1, <2>2, <2>3, <2>4
       DEF OneHolder, Inductive, LawfulInv, CopyInv, Pair, Ready, Saving
<1>6. ASSUME NEW h \in Holders, NEW a \in Arms, NEW k \in Kinds, NEW b \in BOOLEAN,
             RecordRun(h, a, k, b)
      PROVE  Inductive'
  <2> DEFINE r == [arm |-> a, kind |-> k, named |-> b]
             q == Recorded(Pair(h), r)
  <2>1. Ready(h) /\ BeginSave(h, q, "recorded") /\ r \in Run
    BY <1>6 DEF RecordRun, Run, Recorded
  <2>2. file = Pair(h) /\ Pair(h) \in Record /\ Lawful(Pair(h))
           /\ grants = Pair(h).replacements
    BY <2>1 DEF Inductive, Types, LawfulInv, CopyInv, Pair
  <2> HIDE DEF r
  <2>3. /\ q \in Record /\ Lawful(q) /\ Keeps(Pair(h), q)
        /\ q.replacements = Pair(h).replacements
    BY ONLY <2>1, <2>2, RecordLawful
  <2> HIDE DEF q
  <2>4. /\ "recorded" \in Answers \ {"closed", "none"} /\ Keeps(file, q)
        /\ q.replacements = IF "recorded" = "allowed" THEN grants + 1 ELSE grants
    BY <2>2, <2>3 DEF Answers
  <2> QED
    BY <2>1, <2>3, <2>4, BeginSaveInductive
<1>7. ASSUME NEW h \in Holders, NEW k \in Kinds, NEW s \in Settings, Request(h, k, s)
      PROVE  Inductive'
  <2>1. Ready(h) /\ (Allow(h, s) \/ RefuseSecond(h))
    BY <1>7 DEF Request
  <2>2. file = Pair(h) /\ Pair(h) \in Record /\ Lawful(Pair(h))
           /\ grants = Pair(h).replacements
    BY <2>1 DEF Inductive, Types, LawfulInv, CopyInv, Pair
  <2>3. CASE Allow(h, s)
    <3> DEFINE q == Allowed(Pair(h), s)
    <3>1. BeginSave(h, q, "allowed") /\ Pair(h).replacements = 0
      BY <2>3 DEF Allow, Allowed
    <3>2. q \in Record /\ Lawful(q) /\ Keeps(Pair(h), q) /\ q.replacements = 1
      BY ONLY <2>2, <3>1, AllowLawful, s \in Settings
    <3> HIDE DEF q
    <3>3. /\ "allowed" \in Answers \ {"closed", "none"} /\ Keeps(file, q)
          /\ q.replacements = IF "allowed" = "allowed" THEN grants + 1 ELSE grants
      BY <2>2, <3>1, <3>2 DEF Answers
    <3> QED
      BY <2>1, <3>1, <3>2, <3>3, BeginSaveInductive
  <2>4. CASE RefuseSecond(h)
    <3> DEFINE q == Refused(Pair(h))
    <3>1. BeginSave(h, q, "refused") /\ Pair(h).replacements >= 1
      BY <2>4 DEF RefuseSecond, Refused
    <3>2. /\ q \in Record /\ Lawful(q) /\ Keeps(Pair(h), q)
          /\ q.replacements = Pair(h).replacements
      BY ONLY <2>2, <3>1, RefuseLawful
    <3> HIDE DEF q
    <3>3. /\ "refused" \in Answers \ {"closed", "none"} /\ Keeps(file, q)
          /\ q.replacements = IF "refused" = "allowed" THEN grants + 1 ELSE grants
      BY <2>2, <3>2 DEF Answers
    <3> QED
      BY <2>1, <3>1, <3>2, <3>3, BeginSaveInductive
  <2> QED
    BY <2>1, <2>3, <2>4
<1>8. ASSUME NEW h \in Holders, NEW m \in Manifests, Complete(h, m) PROVE Inductive'
  <2> DEFINE q == Completed(Pair(h), m)
  <2>1. Ready(h) /\ Binds(Pair(h), m) /\ BeginSave(h, q, "completed")
    BY <1>8 DEF Complete, Completed
  <2>2. file = Pair(h) /\ Pair(h) \in Record /\ Lawful(Pair(h))
           /\ grants = Pair(h).replacements
    BY <2>1 DEF Inductive, Types, LawfulInv, CopyInv, Pair
  <2>3. /\ q \in Record /\ Lawful(q) /\ Keeps(Pair(h), q)
        /\ q.replacements = Pair(h).replacements
    BY ONLY <2>1, <2>2, CompleteLawful, m \in Manifests
  <2> HIDE DEF q
  <2>4. /\ "completed" \in Answers \ {"closed", "none"} /\ Keeps(file, q)
        /\ q.replacements = IF "completed" = "allowed" THEN grants + 1 ELSE grants
    BY <2>2, <2>3 DEF Answers
  <2> QED
    BY <2>1, <2>3, <2>4, BeginSaveInductive
<1> QED
  BY <1>1, <1>2, <1>3, <1>4, <1>5, <1>6, <1>7, <1>8 DEF Next

(* With one process at a time the invariant always holds.                  *)
LEMMA AlwaysInductive == ASSUME OneHolder PROVE Spec => []Inductive
<1>1. Inductive /\ [Next]_vars => Inductive'
  BY StepInductive
<1> QED
  BY <1>1, InitInductive, PTL DEF Spec

-----------------------------------------------------------------------------
(* The record on disk and the one in memory keep their types               *)
(* (PairLedger's methods).                                                 *)
THEOREM TypeInvariant == ASSUME OneHolder PROVE Spec => []TypeOK
<1>1. Inductive => TypeOK
  BY DEF Inductive, Types, TypeOK, Record, Run, Answers, Pair
<1> QED
  BY <1>1, AlwaysInductive, PTL

(* A pair is allowed a replacement at most once, however often its ledger  *)
(* is re-opened and wherever a process dies (request_replacement).         *)
THEOREM OneReplacementHolds == ASSUME OneHolder PROVE Spec => []OneReplacement
<1>1. Inductive => OneReplacement
  BY DEF Inductive, Types, CopyInv, OneReplacement, Record
<1> QED
  BY <1>1, AlwaysInductive, PTL

(* The gate of grading opens only for the allowed replacement, when every  *)
(* arm of it was rerun, each in a run of its own and for a named original  *)
(* (replacement_complete, complete_replacement).                           *)
THEOREM GateOpensLawfullyHolds == ASSUME OneHolder PROVE Spec => []GateOpensLawfully
<1>1. Inductive => GateOpensLawfully
  <2> SUFFICES ASSUME Inductive, file.status = "replacement-complete"
               PROVE  /\ grants = 1 /\ file.authorization.generation = 1
                      /\ {a \in Arms : file.done[a] # NoRun} = file.expected
                      /\ \A a \in file.expected : Originals(file, a) # {}
                      /\ \A a, b \in file.expected : file.done[a] = file.done[b] => a = b
    BY DEF GateOpensLawfully
  <2>1. file.replacements = 1 /\ file.expected \subseteq Arms /\ Lawful(file)
    BY DEF Inductive, Types, LawfulInv, Lawful, Record
  <2> QED
    BY <2>1 DEF Inductive, CopyInv, Lawful
<1> QED
  BY <1>1, AlwaysInductive, PTL

(* What the file records of a pair no later save takes back: originals,    *)
(* reruns, the authorization, the verdict missing-evidence                 *)
(* (invalid.py: "originals immutable and linked").                         *)
THEOREM OriginalsKeptHolds == ASSUME OneHolder PROVE Spec => OriginalsKept
<1> DEFINE Kept ==
      /\ IsPrefix(file.runs, file'.runs)
      /\ \A a \in Arms : file.done[a] # NoRun => file'.done[a] = file.done[a]
      /\ file.replacements = 1 => /\ file'.authorization = file.authorization
                                 /\ file'.expected = file.expected
      /\ file.status = "missing-evidence" => file'.status = file.status
<1>1. Inductive /\ [Next]_vars => [Kept]_vars
  <2> SUFFICES ASSUME Inductive, Next PROVE Kept
    OBVIOUS
  <2>1. ASSUME NEW h \in Holders, Save(h) PROVE Kept
    BY <2>1 DEF Save, Inductive, CopyInv, Keeps
  <2>2. CASE file' = file
    BY <2>2, SameRuns DEF Inductive, Types
  <2> QED
    BY <2>1, <2>2 DEF Next, Open, Close, Crash, RecordRun, Request, Allow, RefuseSecond,
                      Complete, BeginSave
<1> QED
  BY <1>1, AlwaysInductive, PTL DEF Spec, OriginalsKept
=============================================================================
