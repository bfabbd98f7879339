----------------------------- MODULE PairLedger -----------------------------
(***************************************************************************)
(* The replacement ledger of one paired comparison (harness/invalid.py).   *)
(* A ledger object reads the file once, when it is made; every method      *)
(* works on that copy and saves the whole of it.  A save opens the file    *)
(* for writing, which empties it, and the text reaches it at the close:    *)
(* two steps, with the file unreadable in between.                         *)
(***************************************************************************)
EXTENDS Naturals, Sequences, SequencesExt, FiniteSetsExt

CONSTANTS
    Holders,        \* processes that may hold a ledger object
    Arms,           \* the arms of the pair
    Settings,       \* frozen settings a replacement may be requested under
    RunIds,         \* run ids of replacement runs
    MaxRuns,        \* bound: runs recorded
    MaxCrashes      \* bound: processes that die while saving

ASSUME PairAssumption == MaxRuns \in Nat /\ MaxCrashes \in Nat

VARIABLES
    file,           \* the pair's record on disk
    torn,           \* the file does not parse
    holder,         \* process -> its copy, and the answer it gives once saved
    grants,         \* replacements allowed so far
    crashes

vars == <<file, torn, holder, grants, crashes>>

(* Failure kinds by class; no kind, and any unknown one, is an outcome.    *)
Kinds == {"outcome", "infrastructure"}
NoRun == "no run"
Status == {"unknown", "open", "replaced-once", "replacement-complete",
           "missing-evidence"}

(* The authorization, epoch and settings hashes stand or fall together.    *)
Authorizations == [generation : 1..2, settings : Settings]
NoAuthorization == [generation |-> 0, settings |-> "none"]

NewPair == [runs |-> << >>, replacements |-> 0, status |-> "unknown",
            authorization |-> NoAuthorization, expected |-> {},
            done |-> [a \in Arms |-> NoRun]]

(* What complete_replacement reads of a replacement manifest: `evidence' is*)
(* the arm its execution manifest and its chain's genesis name.            *)
Manifests == [arm : Arms, run : RunIds, authorization : Authorizations,
              replaces : 1..MaxRuns, evidence : Arms]

Ready(h) == holder[h].answer = "none"
Pair(h) == holder[h].pair

-----------------------------------------------------------------------------
Init ==
    /\ file = NewPair /\ torn = FALSE
    /\ holder = [h \in Holders |-> [answer |-> "closed", pair |-> NewPair]]
    /\ grants = 0 /\ crashes = 0

(* The constructor; a file that does not parse raises.                     *)
Open(h) ==
    /\ holder[h].answer = "closed" /\ ~torn
    /\ holder' = [holder EXCEPT ![h] = [answer |-> "none", pair |-> file]]
    /\ UNCHANGED <<file, torn, grants, crashes>>

Close(h) ==
    /\ Ready(h)
    /\ holder' = [holder EXCEPT ![h].answer = "closed"]
    /\ UNCHANGED <<file, torn, grants, crashes>>

(* _save: the copy is changed and the file opened; Save closes it.  Text   *)
(* another process has put there meanwhile may leave a remnant.            *)
BeginSave(h, pair, answer) ==
    /\ holder' = [holder EXCEPT ![h] = [answer |-> answer, pair |-> pair]]
    /\ torn' = TRUE
    /\ UNCHANGED <<file, grants, crashes>>

Saving(h) == holder[h].answer \notin {"closed", "none"}

Save(h) ==
    /\ Saving(h)
    /\ file' = Pair(h)
    /\ torn' \in {FALSE, ~torn}
    /\ grants' = IF holder[h].answer = "allowed" THEN grants + 1 ELSE grants
    /\ holder' = [holder EXCEPT ![h].answer = "none"]
    /\ UNCHANGED crashes

Crash(h) ==
    /\ Saving(h) /\ crashes < MaxCrashes
    /\ crashes' = crashes + 1
    /\ holder' = [holder EXCEPT ![h].answer = "closed"]
    /\ UNCHANGED <<file, torn, grants>>

(* record_run, whatever the pair's status; it may name a manifest.         *)
RecordRun(h, arm, kind, named) ==
    /\ Ready(h) /\ Len(Pair(h).runs) < MaxRuns
    /\ BeginSave(h, [Pair(h) EXCEPT
                       !.runs = Append(@, [arm |-> arm, kind |-> kind, named |-> named]),
                       !.status = IF @ = "unknown" THEN "open" ELSE @],
                 "recorded")

\* bug: an earlier replacement does not stand in the way of another
AllowAgain(h, settings) ==
    /\ BeginSave(h, [Pair(h) EXCEPT
                       !.replacements = @ + 1,
                       !.authorization = [generation |-> 1, settings |-> settings],
                       !.expected = {r.arm : r \in ToSet(Pair(h).runs)},
                       !.status = "replaced-once"],
                 "allowed")

Allow(h, settings) ==
    /\ Pair(h).replacements = 0
    /\ BeginSave(h, [Pair(h) EXCEPT
                       !.replacements = @ + 1,
                       !.authorization = [generation |-> 1, settings |-> settings],
                       !.expected = {r.arm : r \in ToSet(Pair(h).runs)},
                       !.status = "replaced-once"],
                 "allowed")

RefuseSecond(h) ==
    /\ Pair(h).replacements >= 1
    /\ BeginSave(h, [Pair(h) EXCEPT !.status = "missing-evidence"], "refused")

(* request_replacement: the caller's failure kind is taken at its word.    *)
Request(h, kind, settings) ==
    /\ Ready(h)
    /\ Pair(h).status # "unknown"
    /\ kind = "infrastructure"
    /\ Allow(h, settings) \/ RefuseSecond(h)

(* The manifests recorded for an arm; only the last one may be replaced.   *)
Originals(pair, arm) ==
    {i \in DOMAIN pair.runs : pair.runs[i].arm = arm /\ pair.runs[i].named}

\* bug: an arm already replaced is not refused
BindsAgain(pair, m) ==
    /\ pair.status = "replaced-once"
    /\ m.arm \in pair.expected
    /\ m.authorization = pair.authorization
    /\ Originals(pair, m.arm) # {} /\ m.replaces = Max(Originals(pair, m.arm))
    /\ m.evidence = m.arm
    /\ \A a \in Arms : pair.done[a] # m.run

\* bug: a run id of the other arm is accepted
BindsReplay(pair, m) ==
    /\ pair.status = "replaced-once"
    /\ m.arm \in pair.expected
    /\ m.authorization = pair.authorization
    /\ Originals(pair, m.arm) # {} /\ m.replaces = Max(Originals(pair, m.arm))
    /\ m.evidence = m.arm
    /\ pair.done[m.arm] = NoRun

(* complete_replacement's checks.  The recorded originals carry no run id, *)
(* so only replacement runs are compared with the new one's.               *)
Binds(pair, m) ==
    /\ pair.status = "replaced-once"
    /\ m.arm \in pair.expected
    /\ m.authorization = pair.authorization
    /\ Originals(pair, m.arm) # {} /\ m.replaces = Max(Originals(pair, m.arm))
    /\ m.evidence = m.arm
    /\ \A a \in Arms : pair.done[a] # m.run
    /\ pair.done[m.arm] = NoRun

Complete(h, m) ==
    /\ Ready(h) /\ Binds(Pair(h), m)
    /\ LET done == [Pair(h).done EXCEPT ![m.arm] = m.run]
       IN  BeginSave(h, [Pair(h) EXCEPT
                           !.done = done,
                           !.status = IF \A a \in Pair(h).expected : done[a] # NoRun
                                      THEN "replacement-complete" ELSE @],
                     "completed")

Next == \E h \in Holders :
           \/ Open(h) \/ Close(h) \/ Save(h) \/ Crash(h)
           \/ \E a \in Arms, k \in Kinds, b \in BOOLEAN : RecordRun(h, a, k, b)
           \/ \E k \in Kinds, s \in Settings : Request(h, k, s)
           \/ \E m \in Manifests : Complete(h, m)

Spec == Init /\ [][Next]_vars

-----------------------------------------------------------------------------
(* The record on disk and in every copy, and the answer being saved.       *)
TypeOK ==
    /\ \A pair \in {file} \cup {Pair(h) : h \in Holders} :
          /\ pair.runs \in Seq([arm : Arms, kind : Kinds, named : BOOLEAN])
          /\ pair.replacements \in 0..1 /\ pair.status \in Status
          /\ pair.authorization \in Authorizations \cup {NoAuthorization}
          /\ pair.expected \subseteq Arms
          /\ pair.done \in [Arms -> RunIds \cup {NoRun}]
    /\ torn \in BOOLEAN /\ grants \in Nat /\ crashes \in 0..MaxCrashes
    /\ \A h \in Holders : holder[h].answer \in
          {"closed", "none", "recorded", "allowed", "refused", "completed"}

(* No failure of the ledger's process, and no re-opening, lets a pair be   *)
(* replaced twice (invalid.py "permits EXACTLY ONE whole-pair              *)
(* replacement").  Two processes holding the ledger at once are not        *)
(* excluded by the code, and would break it.                               *)
OneReplacement == grants <= 1

(* The gate of grading, replacement_complete, is open only for an allowed  *)
(* replacement in which every arm recorded when it was allowed was rerun   *)
(* in a run of its own, and each rerun replaced a named original.          *)
GateOpensLawfully ==
    file.status = "replacement-complete" =>
        /\ grants = 1 /\ file.authorization.generation = 1
        /\ {a \in Arms : file.done[a] # NoRun} = file.expected
        /\ \A a \in file.expected : Originals(file, a) # {}
        /\ \A a, b \in file.expected : file.done[a] = file.done[b] => a = b

(* What the file once records it keeps: the originals in their order, the  *)
(* replacement of an arm, the verdict missing-evidence (invalid.py         *)
(* "originals immutable and linked").                                      *)
OriginalsKept ==
    [][/\ IsPrefix(file.runs, file'.runs)
       /\ \A a \in Arms : file.done[a] # NoRun => file'.done[a] = file.done[a]
       /\ file.replacements = 1 => /\ file'.authorization = file.authorization
                                  /\ file'.expected = file.expected
       /\ file.status = "missing-evidence" => file'.status = file.status]_vars

(* The gate opens only when both arms of the pair have been rerun          *)
(* (invalid.py replacement_complete: "True only with both replacement arms *)
(* linked").                                                               *)
BothArmsReplaced ==
    file.status = "replacement-complete" => \A a \in Arms : file.done[a] # NoRun
=============================================================================
