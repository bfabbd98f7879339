---------------------------- MODULE EvidenceChain ----------------------------
(***************************************************************************)
(* One cell's run directory: H1-RUN-MANIFEST.json and EVIDENCE-CHAIN.jsonl,*)
(* written by runner processes (run_arm_h1.main and _wire_chain) through   *)
(* chain.Chain, and judged by verify_chain.  Nothing excludes two runners  *)
(* from the same directory: there is no lock file, and the order gate is   *)
(* read once, before the model call.                                       *)
(***************************************************************************)
EXTENDS Integers, Sequences, SequencesExt

CONSTANTS
    Runners,        \* runner processes
    Wired,          \* the kinds of the links _wire_chain appends, in order
    MaxAttempts,    \* bound: runs started
    MaxCrashes      \* bound: runs that die

Kinds == {"genesis", "model-call", "capability-event", "candidate-validation",
          "evaluator", "grade"}

ASSUME ChainAssumption ==
    /\ MaxAttempts \in Nat /\ MaxCrashes \in Nat
    /\ Wired \in Seq(Kinds) /\ Len(Wired) >= 2
    /\ Wired[Len(Wired)] = "grade" /\ Wired[Len(Wired) - 1] = "evaluator"
    /\ \A i \in 1..(Len(Wired) - 2) :
          Wired[i] \in {"model-call", "capability-event", "candidate-validation"}

VARIABLES
    manifest,       \* the manifest file: its state and the attempt that wrote it
    chain,          \* the chain file: its links, and whether its last line is torn
    runner,         \* process -> phase, attempt, links in memory, links wired
    attempts, crashes,
    reported        \* attempts whose _wire_chain returned

vars == <<manifest, chain, runner, attempts, crashes, reported>>

Attempts == 1..MaxAttempts
Phases   == {"idle", "run", "manifest", "wire", "genesis", "link", "audit"}
Idle     == [phase |-> "idle", attempt |-> 0, links |-> << >>, wired |-> 0]

-----------------------------------------------------------------------------
(* A hash stands for everything it commits to: the record and, through     *)
(* prev, every record before it.  A payload is the attempt it comes from;  *)
(* a grade also binds an evaluator link.                                   *)
Root == << >>

HashOf(l) == Append(l.prev, <<l.kind, l.by, l.binds>>)

Link(kind, by, prev, binds) ==
    LET l == [kind |-> kind, by |-> by, prev |-> prev, binds |-> binds]
    IN  [kind |-> kind, by |-> by, prev |-> prev, binds |-> binds, hash |-> HashOf(l)]

\* bug: genesis does not name the run it opens
GenesisUnbound(a) == Link("genesis", 0, Root, Root)

Genesis(a) == Link("genesis", a, Root, Root)

LastEvaluator(links) ==
    LET S == {i \in DOMAIN links : links[i].kind = "evaluator"}
    IN  IF S = {} THEN Root ELSE links[CHOOSE i \in S : \A j \in S : j <= i].hash

\* bug: any rooted genesis is accepted, whatever manifest it binds
GenesisRooted(links, m) ==
    /\ links # << >>
    /\ links[1].kind = "genesis" /\ links[1].prev = Root

(* Chain.audit against the manifest of attempt m.                          *)
GenesisBinds(links, m) ==
    /\ links # << >>
    /\ links[1].kind = "genesis" /\ links[1].prev = Root
    /\ links[1].hash = HashOf(links[1])
    /\ links[1].by = m

\* bug: the predecessor's hash is not compared
LinkedUnordered(links) ==
    \A i \in 2..Len(links) : links[i].hash = HashOf(links[i])

Linked(links) ==
    \A i \in 2..Len(links) :
        /\ links[i].prev = links[i - 1].hash
        /\ links[i].hash = HashOf(links[i])
        /\ \A j \in 1..(i - 1) : links[j].hash # links[i].hash
        /\ links[i].kind \in Kinds \ {"genesis"}

\* bug: a grade is checked where there is one, but none is required
GradedIfAny(links) ==
    \A i \in DOMAIN links :
        links[i].kind = "grade" => i = Len(links) /\ links[i].binds = LastEvaluator(links)

Graded(links) ==
    /\ {i \in DOMAIN links : links[i].kind = "grade"} = {Len(links)}
    /\ LastEvaluator(links) # Root /\ Last(links).binds = LastEvaluator(links)

Intact(links, m) == GenesisBinds(links, m) /\ Linked(links) /\ Graded(links)

(* _model_run_state: a readable manifest and a chain verify_chain accepts. *)
Complete == /\ manifest.state = "written"
            /\ ~chain.torn
            /\ Intact(chain.links, manifest.by)

-----------------------------------------------------------------------------
Init ==
    /\ manifest = [state |-> "absent", by |-> 0]
    /\ chain = [links |-> << >>, torn |-> FALSE]
    /\ runner = [p \in Runners |-> Idle]
    /\ attempts = 0 /\ crashes = 0
    /\ reported = {}

In(p, phase) == runner[p].phase = phase
Stop(p) == runner' = [runner EXCEPT ![p] = Idle]
Go(p, phase) == runner' = [runner EXCEPT ![p].phase = phase]

\* bug: the gate does not refuse a run that is already complete
StartFirst(p) ==
    /\ In(p, "idle") /\ attempts < MaxAttempts
    /\ attempts' = attempts + 1
    /\ runner' = [runner EXCEPT ![p] = [phase |-> "run", attempt |-> attempts + 1,
                                         links |-> << >>, wired |-> 0]]
    /\ UNCHANGED <<manifest, chain, crashes, reported>>

(* The order gate: every earlier cell is done and this one is not.         *)
Start(p) ==
    /\ In(p, "idle") /\ attempts < MaxAttempts
    /\ ~Complete
    /\ attempts' = attempts + 1
    /\ runner' = [runner EXCEPT ![p] = [phase |-> "run", attempt |-> attempts + 1,
                                         links |-> << >>, wired |-> 0]]
    /\ UNCHANGED <<manifest, chain, crashes, reported>>

(* The run raises before its manifest, or a gate behind the manifest does. *)
Abandon(p) ==
    /\ In(p, "run") \/ In(p, "wire")
    /\ Stop(p)
    /\ UNCHANGED <<manifest, chain, attempts, crashes, reported>>

OpenManifest(p) ==
    /\ In(p, "run")
    /\ manifest' = [state |-> "torn", by |-> runner[p].attempt]
    /\ Go(p, "manifest")
    /\ UNCHANGED <<chain, attempts, crashes, reported>>

FinishManifest(p) ==
    /\ In(p, "manifest")
    /\ manifest' = [state |-> "written", by |-> runner[p].attempt]
    /\ Go(p, "wire")
    /\ UNCHANGED <<chain, attempts, crashes, reported>>

\* bug: the chain file is always started anew
ReadChainFresh(p) ==
    /\ In(p, "wire")
    /\ runner' = [runner EXCEPT ![p].links = << >>, ![p].phase = "genesis"]
    /\ UNCHANGED <<manifest, chain, attempts, crashes, reported>>

(* Chain.__init__: whatever links are there are taken over; a torn line    *)
(* does not parse.                                                         *)
ReadChain(p) ==
    /\ In(p, "wire")
    /\ IF chain.torn THEN Stop(p)
       ELSE runner' = [runner EXCEPT ![p].links = chain.links,
                          ![p].phase = IF chain.links = << >> THEN "genesis" ELSE "link"]
    /\ UNCHANGED <<manifest, chain, attempts, crashes, reported>>

(* Link 0 is written with mode "w": opening truncates whatever another     *)
(* process put there meanwhile, and the line then goes over whatever it    *)
(* appended since, of which a remnant may stay behind.                     *)
OpenGenesis(p) ==
    /\ In(p, "genesis") /\ runner[p].links = << >>
    /\ chain' = [links |-> << >>, torn |-> FALSE]
    /\ runner' = [runner EXCEPT ![p].links = <<Genesis(runner[p].attempt)>>]
    /\ UNCHANGED <<manifest, attempts, crashes, reported>>

FinishGenesis(p) ==
    /\ In(p, "genesis") /\ runner[p].links # << >>
    /\ \E t \in BOOLEAN : /\ t => chain.links # << >> \/ chain.torn
                         /\ chain' = [links |-> runner[p].links, torn |-> t]
    /\ Go(p, "link")
    /\ UNCHANGED <<manifest, attempts, crashes, reported>>

(* The next link _wire_chain owes, and Chain.append of it: the link        *)
(* continues the tip in memory, the line is appended to whatever the file  *)
(* holds.  After a torn line it is swallowed.                              *)
NextLink(p) ==
    LET kind == Wired[runner[p].wired + 1]
    IN  Link(kind, runner[p].attempt, Last(runner[p].links).hash,
             IF kind = "grade" THEN LastEvaluator(runner[p].links) ELSE Root)

AppendLink(p) ==
    /\ In(p, "link")
    /\ Last(runner[p].links).kind # "grade"
    /\ chain' = [chain EXCEPT !.links = IF chain.torn THEN @ ELSE Append(@, NextLink(p))]
    /\ runner' = [runner EXCEPT
                    ![p].links = Append(@, NextLink(p)),
                    ![p].wired = @ + 1,
                    ![p].phase = IF NextLink(p).kind = "grade" THEN "audit" ELSE "link"]
    /\ UNCHANGED <<manifest, attempts, crashes, reported>>

(* CHAIN-TERMINAL: an earlier attempt's grade is the last link.            *)
RefuseTerminal(p) ==
    /\ In(p, "link")
    /\ Last(runner[p].links).kind = "grade"
    /\ Stop(p)
    /\ UNCHANGED <<manifest, chain, attempts, crashes, reported>>

(* The closing audit reads the links in memory, not the file.              *)
Audit(p) ==
    /\ In(p, "audit")
    /\ reported' = IF Intact(runner[p].links, runner[p].attempt)
                   THEN reported \cup {runner[p].attempt} ELSE reported
    /\ Stop(p)
    /\ UNCHANGED <<manifest, chain, attempts, crashes>>

(* The process dies, or a link's own check raises; the line it was         *)
(* appending may be left torn.  A torn genesis refuses later runs as a     *)
(* whole one does, and dying after the grade leaves the files a finished   *)
(* run leaves: neither is a case of its own.                               *)
Crash(p) ==
    /\ ~In(p, "idle") /\ ~In(p, "audit") /\ crashes < MaxCrashes
    /\ crashes' = crashes + 1
    /\ \/ chain' = chain
       \/ In(p, "link") /\ chain' = [chain EXCEPT !.torn = TRUE]
    /\ Stop(p)
    /\ UNCHANGED <<manifest, attempts, reported>>

Next == \E p \in Runners :
           \/ Start(p) \/ Abandon(p) \/ OpenManifest(p) \/ FinishManifest(p)
           \/ ReadChain(p) \/ OpenGenesis(p) \/ FinishGenesis(p)
           \/ AppendLink(p) \/ RefuseTerminal(p) \/ Audit(p) \/ Crash(p)

Spec == Init /\ [][Next]_vars

-----------------------------------------------------------------------------
LinkType(l) ==
    /\ l.kind \in Kinds /\ l.by \in Attempts
    /\ l.hash = HashOf(l)

(* Every link, on disk and in memory, names a started run and its hash is  *)
(* that of its content (chain.py append).                                  *)
TypeOK ==
    /\ manifest \in [state : {"absent", "torn", "written"}, by : 0..MaxAttempts]
    /\ chain.torn \in BOOLEAN
    /\ \A i \in DOMAIN chain.links : LinkType(chain.links[i])
    /\ \A p \in Runners :
          /\ runner[p].phase \in Phases /\ runner[p].attempt \in 0..attempts
          /\ \A i \in DOMAIN runner[p].links : LinkType(runner[p].links[i])
    /\ attempts \in 0..MaxAttempts /\ crashes \in 0..MaxCrashes
    /\ reported \subseteq Attempts

(* However runners and crashes interleave in one directory, the chain of a *)
(* run that verifies ends in the whole sequence of links of one attempt:   *)
(* no verdict rests on another attempt's call, no link of the sequence is  *)
(* missing or doubled (chain.py "any broken link excludes the run").       *)
GradedByOne ==
    Complete =>
        LET n == Len(chain.links) - Len(Wired) IN
        /\ n >= 1
        /\ \A i \in DOMAIN Wired :
              /\ chain.links[n + i].kind = Wired[i]
              /\ chain.links[n + i].by = Last(chain.links).by

(* Retries and crashes one after the other never mix: a run that verifies  *)
(* is, from genesis to grade, the work of its manifest's attempt alone.    *)
(* With two runners at once this fails: one that finds the other's genesis *)
(* closes the chain over it, and the other's manifest verifies it.         *)
OneAuthor ==
    Complete => /\ \A i \in DOMAIN chain.links : chain.links[i].by = manifest.by
                /\ [i \in DOMAIN chain.links |-> chain.links[i].kind]
                      = <<"genesis">> \o Wired

(* Deleting, exchanging or altering links of a chain that verifies is      *)
(* found (chain.py "Deletion, reordering, and substitution are all         *)
(* detectable because each record commits to its predecessor").            *)
TamperEvident ==
    Complete =>
        LET links == chain.links IN
        /\ \A i \in DOMAIN links : ~Intact(RemoveAt(links, i), manifest.by)
        /\ \A i, j \in DOMAIN links : i < j =>
              ~Intact([links EXCEPT ![i] = links[j], ![j] = links[i]], manifest.by)
        /\ \A i \in DOMAIN links, a \in 0..MaxAttempts, k \in Kinds :
              <<k, a>> # <<links[i].kind, links[i].by>> =>
                 ~Intact([links EXCEPT ![i].by = a, ![i].kind = k], manifest.by)

(* A run whose runner reported success is complete on disk, and stays so.  *)
ReportedComplete == reported # {} => Complete

(* The manifest on disk is never written again once _wire_chain has        *)
(* returned (run_arm_h1.py "must never be rewritten after this call").     *)
ManifestFinal == [][reported # {} => manifest' = manifest]_vars

-----------------------------------------------------------------------------
(* With one runner at a time, the directory is one cell of                 *)
(* AcquisitionOrder, and what the runner does here is what its run actions *)
(* say there.  The cell is a control cell: no acquisition owns it.         *)
Solo == runner[CHOOSE p \in Runners : TRUE]

RunView ==
    CASE Complete -> "closed"
      [] ~Complete /\ (chain.links # << >> \/ chain.torn) -> "opened"
      [] chain.links = << >> /\ ~chain.torn /\ manifest.state # "absent" -> "manifest"
      [] OTHER -> "absent"

Foreign == Solo.links # << >> /\ Solo.links[1].by # Solo.attempt

OpView ==
    CASE Solo.phase = "run" -> "run"
      [] Solo.phase \in {"manifest", "wire", "genesis"} -> "wire"
      [] Solo.phase = "link" -> IF Foreign THEN "wire" ELSE "chain"
      [] Solo.phase = "audit" -> IF Complete THEN "idle" ELSE "wire"
      [] OTHER -> "idle"

Order == INSTANCE AcquisitionOrder WITH
    NCells <- 1, EventOf <- <<"T2">>,
    UnitOf <- <<[block |-> "PQ", family |-> "fam05", universe |-> "B"]>>,
    Units <- {}, AcqCell <- << >>, Verdicts <- {"ship"},
    run <- <<RunView>>,
    verdict <- <<IF manifest.state = "absent" THEN "none" ELSE "ship">>,
    validated <- <<"none">>,
    arts <- << >>, receipt <- << >>, outcome <- << >>, lock <- << >>, notLocked <- << >>,
    proc <- [op |-> OpView, cell |-> IF OpView = "idle" THEN 0 ELSE 1]

(* Every step of the run directory is a step of the order's runner, or     *)
(* none (run_arm_h1.main, order.py _model_run_state).                      *)
RunImplemented == Order!Spec
=============================================================================
