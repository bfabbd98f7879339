----------------------- MODULE EvidenceSerial_proofs -----------------------
(***************************************************************************)
(* Theorems of EvidenceChain for runners that follow one another: what a   *)
(* single author makes of the run directory, and that the directory is a   *)
(* cell of AcquisitionOrder.                                               *)
(***************************************************************************)
EXTENDS EvidenceChain_proofs

(* One process at a time; any number of attempts and crashes.              *)
OneRunner == \E p : Runners = {p}

(* The links of one attempt, from its genesis on, each continuing the one  *)
(* before it.                                                              *)
IsWork(links, a) ==
    /\ Len(links) \in 1..(Len(Wired) + 1)
    /\ \A i \in 1..Len(links) :
          /\ links[i].by = a
          /\ links[i].kind = IF i = 1 THEN "genesis" ELSE Wired[i - 1]
          /\ links[i].prev = IF i = 1 THEN Root ELSE links[i - 1].hash
          /\ i = Len(Wired) + 1 => links[i].binds = links[i - 1].hash

Begun     == {"manifest", "wire", "genesis", "link", "audit"}
Chaining  == {"link", "audit"}
OwnChain  == chain.links[1].by = manifest.by

(* What an attempt finds and leaves, in the order it goes through it.      *)
Serial ==
    /\ manifest.by <= attempts
    /\ chain.links # << >> =>
          /\ chain.links[1].by <= manifest.by
          /\ OwnChain => IsWork(chain.links, manifest.by)
    /\ Solo.phase = "run" => Solo.attempt > manifest.by /\ ~Complete
    /\ Solo.phase \in Begun =>
          /\ manifest.by = Solo.attempt
          /\ manifest.state = IF Solo.phase = "manifest" THEN "torn" ELSE "written"
    /\ Solo.phase \in {"manifest", "wire"} =>
          (chain.links # << >> => chain.links[1].by < manifest.by)
    /\ Solo.phase = "genesis" => chain.links = << >> /\ ~chain.torn
    /\ Solo.phase \in Chaining =>
          /\ chain.links = Solo.links /\ chain.links # << >> /\ ~chain.torn
          /\ OwnChain => /\ Len(chain.links) = Solo.wired + 1
                         /\ Solo.phase = "audit" <=> Solo.wired = Len(Wired)
    /\ reported # {} => Complete /\ Solo.phase = "idle"

-----------------------------------------------------------------------------
(* The one runner's state.                                                 *)
LEMMA SoloIs ==
    ASSUME OneRunner, NEW p \in Runners
    PROVE  Solo = runner[p] /\ Solo' = runner'[p]
<1>1. PICK q : Runners = {q}
  BY DEF OneRunner
<1>2. (CHOOSE x \in Runners : TRUE) = p
  BY <1>1
<1> QED
  BY <1>2 DEF Solo

LEMMA SoloTyped ==
    ASSUME OneRunner, Inductive
    PROVE  Solo \in RunnerSet /\ RunnerInv(Solo, attempts)
<1>1. PICK q : Runners = {q}
  BY DEF OneRunner
<1> QED
  BY <1>1, SoloIs DEF Inductive, Typed

(* The last link of an attempt's work that is not finished is no grade.    *)
LEMMA WorkOpen ==
    ASSUME NEW links \in Seq(LinkSet), NEW a, IsWork(links, a), Len(links) # Len(Wired) + 1
    PROVE  Last(links).kind # "grade"
<1>1. /\ Len(links) \in Nat /\ Len(links) \in 1..Len(links)
      /\ Len(links) \in 1..(Len(Wired) + 1)
  BY LenProperties DEF IsWork
<1>2. links[Len(links)].kind = IF Len(links) = 1 THEN "genesis" ELSE Wired[Len(links) - 1]
  BY <1>1 DEF IsWork
<1>3. Len(links) # 1 => Len(links) - 1 \in 1..Len(Wired) /\ Len(links) - 1 # Len(Wired)
  <2>1. Len(Wired) \in Nat
    BY WiredFacts
  <2> DEFINE n == Len(links)
             w == Len(Wired)
  <2>2. n \in 1..(w + 1) /\ n # w + 1 /\ w \in Nat
    BY <1>1, <2>1
  <2> HIDE DEF n, w
  <2>3. n # 1 => n - 1 \in 1..w /\ n - 1 # w
    BY <2>2
  <2> QED
    BY <2>3 DEF n, w
<1> QED
  BY <1>2, <1>3, WiredFacts DEF Last

(* A finished one verifies: the links are those of _wire_chain, each hash  *)
(* is longer than the one before it, and the grade binds the evaluator.    *)
LEMMA WorkIntact ==
    ASSUME NEW links \in Seq(LinkSet), NEW a, IsWork(links, a), Len(links) = Len(Wired) + 1
    PROVE  Intact(links, a)
<1> DEFINE n == Len(links)
<1>1. /\ n \in Nat /\ n >= 3 /\ DOMAIN links = 1..n /\ Len(Wired) = n - 1
      /\ \A i \in 1..n : links[i] \in LinkSet
  BY LenProperties, ElementOfSeq, WiredFacts, ChainAssumption
<1>2. /\ links # << >> /\ 1 \in 1..n
      /\ links[1].kind = "genesis" /\ links[1].prev = Root /\ links[1].by = a
  BY <1>1, EmptySeq DEF IsWork
<1>3. \A i \in 2..n : i \in 1..n /\ i # 1 /\ i - 1 \in 1..(n - 1)
  BY <1>1
<1>4. \A i \in 2..n : links[i].prev = links[i - 1].hash /\ links[i].kind = Wired[i - 1]
  BY <1>3 DEF IsWork
<1>5. \A i \in 1..n : Len(links[i].hash) = i
  BY <1>2, <1>4, LinkedHistory
<1>6. GenesisBinds(links, a)
  BY <1>1, <1>2, HashType DEF GenesisBinds
<1>7. ASSUME NEW i \in 2..n
      PROVE  /\ links[i].prev = links[i - 1].hash
             /\ links[i].hash = HashOf(links[i])
             /\ \A j \in 1..(i - 1) : links[j].hash # links[i].hash
             /\ links[i].kind \in Kinds \ {"genesis"}
  <2>1. links[i].kind \in Kinds \ {"genesis"}
    BY <1>1, <1>3, <1>4, WiredFacts
  <2>2. \A j \in 1..(i - 1) : j \in 1..n /\ j # i
    BY <1>1, <1>3
  <2> QED
    BY <1>1, <1>3, <1>4, <1>5, <2>1, <2>2, HashType
<1>8. Linked(links)
  BY <1>7 DEF Linked
<1>9. \A i \in 1..n : links[i].kind = "grade" <=> i = n
  <2>1. ASSUME NEW i \in 2..n PROVE Wired[i - 1] = "grade" <=> i = n
    <3>1. i - 1 \in 1..Len(Wired) /\ (i - 1 = Len(Wired) <=> i = n)
      BY <1>1
    <3> QED
      BY <3>1, WiredFacts
  <2>2. \A i \in 1..n : i = 1 \/ i \in 2..n
    BY <1>1
  <2> QED
    BY <1>1, <1>2, <1>4, <2>1, <2>2
<1>10. LastEvaluator(links) = links[n - 1].hash
  <2>1. n - 1 \in 2..n /\ n - 1 \in 1..n /\ n - 1 - 1 = Len(Wired) - 1
    BY <1>1
  <2>2. links[n - 1].kind = "evaluator"
    BY <1>4, <2>1, ChainAssumption
  <2>3. \A j \in 1..n : links[j].kind = "evaluator" => j <= n - 1
    BY <1>1, <1>9
  <2> QED
    BY <2>1, <2>2, <2>3, LastEvaluatorIs
<1>11. links[n - 1].hash # Root
  <2>1. n - 1 \in 1..n
    BY <1>1
  <2> QED
    BY <1>1, <2>1, HashType
<1>12. Last(links).binds = links[n - 1].hash
  <2>1. n \in 1..n /\ n = Len(Wired) + 1
    BY <1>1
  <2> QED
    BY <2>1 DEF IsWork, Last
<1>13. {i \in DOMAIN links : links[i].kind = "grade"} = {n}
  BY <1>1, <1>9
<1>14. Graded(links)
  BY <1>10, <1>11, <1>12, <1>13 DEF Graded
<1> QED
  BY <1>6, <1>8, <1>14 DEF Intact

(* The next link of an attempt's own work goes on with it.                 *)
LEMMA WorkAppended ==
    ASSUME NEW links \in Seq(LinkSet), NEW a, IsWork(links, a),
           NEW l \in LinkSet, Len(links) \in 1..Len(Wired),
           l.kind = Wired[Len(links)], l.by = a, l.prev = Last(links).hash,
           l.kind = "grade" => l.binds = LastEvaluator(links)
    PROVE  IsWork(Append(links, l), a)
<1> DEFINE n == Len(links)
           new == Append(links, l)
<1>1. /\ n \in Nat /\ n \in 1..n /\ Len(new) = n + 1 /\ new[n + 1] = l
      /\ \A i \in 1..n : new[i] = links[i]
      /\ Last(links) = links[n]
  BY LenProperties, AppendProperties DEF Last
<1> HIDE DEF new
<1>2. ASSUME NEW i \in 1..n
      PROVE  /\ new[i].by = a
             /\ new[i].kind = IF i = 1 THEN "genesis" ELSE Wired[i - 1]
             /\ new[i].prev = IF i = 1 THEN Root ELSE new[i - 1].hash
             /\ i # Len(Wired) + 1
  <2>1. i # 1 => i - 1 \in 1..n
    BY <1>1
  <2>2. i # Len(Wired) + 1
    BY <1>1, WiredFacts
  <2> QED
    BY <1>1, <2>1, <2>2 DEF IsWork
<1>3. /\ l.by = a /\ l.kind = Wired[n + 1 - 1] /\ l.prev = new[n + 1 - 1].hash /\ n + 1 # 1
  <2>1. n + 1 - 1 = n /\ n + 1 # 1
    BY <1>1
  <2> QED
    BY <1>1, <2>1
<1>4. n + 1 = Len(Wired) + 1 => l.binds = new[n + 1 - 1].hash
  <2>1. SUFFICES ASSUME n = Len(Wired) PROVE l.binds = links[n].hash
    BY <1>1, WiredFacts
  <2>2. l.kind = "grade" /\ n >= 2
    BY <2>1, ChainAssumption
  <2>3. links[n].kind = "evaluator"
    <3>1. n # 1 /\ n - 1 = Len(Wired) - 1
      BY <1>1, <2>1, <2>2
    <3> QED
      BY <1>1, <3>1, ChainAssumption DEF IsWork
  <2>4. LastEvaluator(links) = links[n].hash
    BY <1>1, <2>3, LastEvaluatorIs
  <2> QED
    BY <2>2, <2>4
<1>5. ASSUME NEW i \in 1..(n + 1)
      PROVE  /\ new[i].by = a
             /\ new[i].kind = IF i = 1 THEN "genesis" ELSE Wired[i - 1]
             /\ new[i].prev = IF i = 1 THEN Root ELSE new[i - 1].hash
             /\ i = Len(Wired) + 1 => new[i].binds = new[i - 1].hash
  <2>1. CASE i \in 1..n
    BY <1>2, <2>1
  <2>2. CASE i = n + 1
    BY <1>1, <1>3, <1>4, <2>2
  <2> QED
    BY <1>1, <2>1, <2>2
<1>6. Len(new) \in 1..(Len(Wired) + 1)
  BY <1>1, WiredFacts
<1> QED
  BY <1>1, <1>5, <1>6 DEF IsWork, new

-----------------------------------------------------------------------------
(* Only a run the runner has just finished, or one that idles, verifies.   *)
LEMMA UnfinishedIncomplete ==
    ASSUME OneRunner, Inductive, Serial, Solo.phase \in Begun \cup {"run"}, Complete
    PROVE  Solo.phase = "audit" /\ OwnChain
<1>1. /\ chain.links \in Seq(LinkSet) /\ manifest.state = "written"
      /\ Intact(chain.links, manifest.by)
  BY DEF Inductive, Typed, Complete
<1>2. chain.links # << >> /\ OwnChain /\ Last(chain.links).kind = "grade"
  <2>1. GenesisBinds(chain.links, manifest.by)
    BY <1>1 DEF Intact
  <2>2. /\ Last(chain.links) = chain.links[Len(chain.links)]
        /\ Len(chain.links) \in 1..Len(chain.links)
        /\ \A i \in 1..Len(chain.links) :
              chain.links[i].kind = "grade" <=> i = Len(chain.links)
    BY <1>1, IntactFacts
  <2> QED
    BY <2>1, <2>2 DEF GenesisBinds, OwnChain
<1>3. Solo.phase # "run" /\ Solo.phase # "genesis" /\ Solo.phase # "manifest"
  BY <1>1, <1>2 DEF Serial, Begun
<1>4. Solo.phase # "wire"
  <2>1. SUFFICES ASSUME Solo.phase = "wire" PROVE FALSE
    OBVIOUS
  <2>2. chain.links[1].by < manifest.by /\ chain.links[1].by = manifest.by
    BY <1>2, <2>1 DEF Serial, OwnChain
  <2>3. manifest.by \in Nat
    BY DEF Inductive, Typed
  <2> QED
    BY <2>2, <2>3
<1>5. Solo.phase # "link"
  <2>1. SUFFICES ASSUME Solo.phase = "link" PROVE FALSE
    OBVIOUS
  <2>2. /\ IsWork(chain.links, manifest.by)
        /\ Len(chain.links) = Solo.wired + 1 /\ Solo.wired # Len(Wired)
    BY <1>2, <2>1 DEF Serial, Chaining
  <2>3. Len(chain.links) # Len(Wired) + 1
    <3>1. Len(chain.links) \in 1..(Len(Wired) + 1)
      BY <2>2 DEF IsWork
    <3>2. Solo.wired \in Nat
      BY SoloTyped DEF RunnerSet
    <3> QED
      BY <2>2, <3>2, WiredFacts
  <2> QED
    BY <1>1, <1>2, <2>2, <2>3, WorkOpen
<1> QED
  BY <1>2, <1>3, <1>4, <1>5 DEF Begun

(* Runs one after the other leave the directory as Serial says.            *)
LEMMA InitSerial == OneRunner /\ Init => Serial
<1> SUFFICES ASSUME OneRunner, Init PROVE Serial
  OBVIOUS
<1>1. PICK q : Runners = {q}
  BY DEF OneRunner
<1>2. Solo = Idle
  BY <1>1, SoloIs DEF Init
<1> QED
  BY <1>2 DEF Init, Idle, Serial, Begun, Chaining

LEMMA NextSerial == OneRunner /\ Inductive /\ Inductive' /\ Serial /\ [Next]_vars => Serial'
<1> SUFFICES ASSUME OneRunner, Inductive, Inductive', Serial, [Next]_vars PROVE Serial'
  OBVIOUS
<1>0. /\ manifest.by \in Nat /\ attempts \in Nat /\ manifest.by <= attempts
      /\ chain.links \in Seq(LinkSet)
      /\ runner \in [Runners -> RunnerSet]
      /\ Solo \in RunnerSet /\ RunnerInv(Solo, attempts)
      /\ Solo.attempt \in Nat /\ Solo.attempt <= attempts /\ Solo.wired \in Nat
      /\ Len(Wired) \in Nat
  <2>1. Solo \in RunnerSet /\ RunnerInv(Solo, attempts)
    BY SoloTyped
  <2>2. Solo.attempt \in Nat /\ Solo.attempt <= attempts /\ Solo.wired \in Nat
    BY <2>1, ChainAssumption DEF RunnerInv, RunnerSet
  <2>3. manifest.by \in Nat /\ attempts \in Nat /\ manifest.by <= attempts
    BY ChainAssumption DEF Inductive, Typed, Serial
  <2>4. chain.links \in Seq(LinkSet) /\ runner \in [Runners -> RunnerSet]
    BY DEF Inductive, Typed
  <2> QED
    BY <2>1, <2>2, <2>3, <2>4, WiredFacts
\* a stop behind the gate leaves a directory in which nothing is reported
<1>1. ASSUME Solo' = Idle, Solo.phase # "idle", chain'.links = chain.links,
             UNCHANGED <<manifest, attempts, reported>>
      PROVE  Serial'
  <2>1. reported = {}
    BY <1>1 DEF Serial
  <2>2. (chain.links # << >> =>
           /\ chain.links[1].by <= manifest.by
           /\ chain.links[1].by = manifest.by => IsWork(chain.links, manifest.by))'
    BY <1>1 DEF Serial, OwnChain, IsWork
  <2> QED
    BY <1>0, <1>1, <2>1, <2>2 DEF Serial, OwnChain, Idle, Begun, Chaining
<1>2. ASSUME NEW p \in Runners, Start(p) PROVE Serial'
  <2>1. /\ Solo.phase = "idle" /\ ~Complete /\ attempts' = attempts + 1
        /\ UNCHANGED <<manifest, chain, reported>>
        /\ Solo' = [phase |-> "run", attempt |-> attempts + 1, links |-> << >>, wired |-> 0]
    BY <1>0, <1>2, SoloIs DEF Start, In
  <2>2. reported = {} /\ ~Complete'
    BY <2>1 DEF Serial, Complete
  <2> QED
    BY <1>0, <2>1, <2>2 DEF Serial, OwnChain, IsWork, Begun, Chaining
<1>3. ASSUME NEW p \in Runners, Abandon(p) \/ RefuseTerminal(p) \/ Crash(p) PROVE Serial'
  <2>1. Solo' = Idle /\ Solo.phase # "idle"
    BY <1>0, <1>3, SoloIs DEF Abandon, RefuseTerminal, Crash, Stop, In
  <2>2. chain'.links = chain.links /\ UNCHANGED <<manifest, attempts, reported>>
    <3>1. chain \in [links : Seq(LinkSet), torn : BOOLEAN]
      BY DEF Inductive, Typed
    <3> QED
      BY <1>3, <3>1 DEF Abandon, RefuseTerminal, Crash
  <2> QED
    BY <1>1, <2>1, <2>2
<1>4. ASSUME NEW p \in Runners, OpenManifest(p) PROVE Serial'
  <2>1. /\ Solo.phase = "run" /\ Solo' = [Solo EXCEPT !.phase = "manifest"]
        /\ manifest' = [state |-> "torn", by |-> Solo.attempt]
        /\ UNCHANGED <<chain, attempts, reported>>
    BY <1>0, <1>4, SoloIs DEF OpenManifest, In, Go
  <2>2. /\ Solo'.phase = "manifest" /\ Solo'.attempt = Solo.attempt
        /\ manifest'.by = Solo.attempt /\ manifest'.state = "torn"
    BY <1>0, <2>1 DEF RunnerSet
  <2>3. reported = {} /\ manifest.by < Solo.attempt
    BY <1>0, <2>1 DEF Serial
  <2>4. chain.links # << >> => chain.links[1].by < Solo.attempt /\ chain.links[1].by \in Nat
    <3>1. SUFFICES ASSUME chain.links # << >>
                   PROVE  chain.links[1].by < Solo.attempt /\ chain.links[1].by \in Nat
      OBVIOUS
    <3>2. 1 \in 1..Len(chain.links)
      BY <1>0, <3>1, EmptySeq
    <3>3. chain.links[1].by \in Nat
      BY <1>0, <3>2, ElementOfSeq, HashType DEF Attempts
    <3> QED
      BY <1>0, <2>3, <3>1, <3>3 DEF Serial
  <2> QED
    BY <1>0, <2>1, <2>2, <2>3, <2>4 DEF Serial, OwnChain, Begun, Chaining
<1>5. ASSUME NEW p \in Runners, FinishManifest(p) PROVE Serial'
  <2>1. /\ Solo.phase = "manifest" /\ Solo' = [Solo EXCEPT !.phase = "wire"]
        /\ manifest' = [state |-> "written", by |-> Solo.attempt]
        /\ UNCHANGED <<chain, attempts, reported>>
    BY <1>0, <1>5, SoloIs DEF FinishManifest, In, Go
  <2>2. /\ Solo'.phase = "wire" /\ Solo'.attempt = Solo.attempt
        /\ manifest'.by = manifest.by /\ manifest'.state = "written"
        /\ manifest.by = Solo.attempt
    BY <1>0, <2>1 DEF RunnerSet, Serial, Begun
  <2>3. reported = {} /\ (chain.links # << >> => chain.links[1].by < manifest.by)
    BY <2>1 DEF Serial
  <2> QED
    BY <1>0, <2>1, <2>2, <2>3 DEF Serial, OwnChain, IsWork, Begun, Chaining
<1>6. ASSUME NEW p \in Runners, ReadChain(p) PROVE Serial'
  <2>1. Solo.phase = "wire" /\ UNCHANGED <<manifest, chain, attempts, reported>>
    BY <1>6, SoloIs DEF ReadChain, In
  <2>2. CASE chain.torn
    <3>1. Solo' = Idle
      BY <1>0, <1>6, <2>2, SoloIs DEF ReadChain, Stop
    <3> QED
      BY <1>1, <2>1, <3>1
  <2>3. CASE ~chain.torn
    <3> DEFINE ph == IF chain.links = << >> THEN "genesis" ELSE "link"
    <3>1. Solo' = [Solo EXCEPT !.links = chain.links, !.phase = ph]
      BY <1>0, <1>6, <2>3, SoloIs DEF ReadChain
    <3>2. Solo'.phase = ph /\ Solo'.links = chain.links /\ Solo'.attempt = Solo.attempt
      BY <1>0, <3>1 DEF RunnerSet
    <3>3. /\ reported = {} /\ manifest.by = Solo.attempt /\ manifest.state = "written"
          /\ chain.links # << >> => chain.links[1].by < manifest.by
          /\ chain.links # << >> => chain.links[1].by # manifest.by
      BY <1>0, <2>1 DEF Serial, Begun
    <3>4. CASE chain.links = << >>
      BY <1>0, <2>1, <2>3, <3>2, <3>3, <3>4 DEF Serial, Begun, Chaining
    <3>5. CASE chain.links # << >>
      BY <1>0, <2>1, <2>3, <3>2, <3>3, <3>5 DEF Serial, OwnChain, Begun, Chaining
    <3> QED
      BY <3>4, <3>5
  <2> QED
    BY <2>2, <2>3
<1>7. ASSUME NEW p \in Runners, OpenGenesis(p) PROVE Serial'
  <2>1. /\ Solo.phase = "genesis" /\ UNCHANGED <<manifest, attempts, reported>>
        /\ chain' = [links |-> << >>, torn |-> FALSE]
        /\ Solo' = [Solo EXCEPT !.links = <<Genesis(Solo.attempt)>>]
    BY <1>0, <1>7, SoloIs DEF OpenGenesis, In
  <2>2. /\ Solo'.phase = "genesis" /\ Solo'.attempt = Solo.attempt
        /\ chain'.links = << >> /\ chain'.torn = FALSE
    BY <1>0, <2>1 DEF RunnerSet
  <2>3. reported = {}
    BY <2>1 DEF Serial
  <2> QED
    BY <1>0, <2>1, <2>2, <2>3 DEF Serial, Begun, Chaining
<1>8. ASSUME NEW p \in Runners, FinishGenesis(p) PROVE Serial'
  <2>1. /\ Solo.phase = "genesis" /\ UNCHANGED <<manifest, attempts, reported>>
        /\ Solo.links # << >>
        /\ Solo' = [Solo EXCEPT !.phase = "link"]
        /\ \E t \in BOOLEAN : /\ t => chain.links # << >> \/ chain.torn
                             /\ chain' = [links |-> Solo.links, torn |-> t]
    BY <1>0, <1>8, SoloIs DEF FinishGenesis, In, Go
  <2>2. /\ reported = {} /\ chain.links = << >> /\ ~chain.torn
        /\ manifest.by = Solo.attempt /\ manifest.state = "written"
    BY <2>1 DEF Serial, Begun
  <2>3. chain'.links = Solo.links /\ ~chain'.torn
    BY <2>1, <2>2
  <2>4. /\ Solo'.phase = "link" /\ Solo'.attempt = Solo.attempt
        /\ Solo'.links = Solo.links /\ Solo'.wired = Solo.wired
    BY <1>0, <2>1 DEF RunnerSet
  <2>5. Solo.links = <<Genesis(manifest.by)>> /\ Solo.wired = 0
    BY <1>0, <2>1, <2>2 DEF RunnerInv
  <2>6. /\ Genesis(manifest.by).kind = "genesis" /\ Genesis(manifest.by).by = manifest.by
        /\ Genesis(manifest.by).prev = Root
    BY DEF Genesis, Link
  <2>7. IsWork(<<Genesis(manifest.by)>>, manifest.by)
    <3> DEFINE g == Genesis(manifest.by)
    <3>1. /\ Len(<<g>>) = 1 /\ <<g>>[1] = g /\ 1 \in 1..(Len(Wired) + 1)
          /\ 1 # Len(Wired) + 1 /\ \A i \in 1..1 : i = 1
      BY <1>0, ChainAssumption
    <3> HIDE DEF g
    <3>2. g.kind = "genesis" /\ g.by = manifest.by /\ g.prev = Root
      BY <2>6 DEF g
    <3>3. IsWork(<<g>>, manifest.by)
      BY <3>1, <3>2 DEF IsWork
    <3> QED
      BY <3>3 DEF g
  <2>8. /\ chain'.links[1].by = manifest.by /\ chain'.links # << >>
        /\ Len(chain'.links) = 1 /\ 0 # Len(Wired)
    BY <1>0, <2>3, <2>5, <2>6, ChainAssumption
  <2>9. IsWork(chain'.links, manifest'.by)
    BY <2>1, <2>3, <2>5, <2>7
  <2>10. manifest' = manifest /\ attempts' = attempts /\ reported' = reported
    BY <2>1
  <2> QED
    BY <1>0, <2>2, <2>3, <2>4, <2>5, <2>8, <2>9, <2>10
       DEF Serial, OwnChain, Begun, Chaining
<1>9. ASSUME NEW p \in Runners, AppendLink(p) PROVE Serial'
  <2> DEFINE l == NextLink(p)
             ph == IF l.kind = "grade" THEN "audit" ELSE "link"
  <2>1. /\ Solo = runner[p] /\ In(p, "link") /\ Last(runner[p].links).kind # "grade"
        /\ Solo' = [Solo EXCEPT !.links = Append(@, l), !.wired = @ + 1, !.phase = ph]
        /\ chain' = [chain EXCEPT !.links = IF chain.torn THEN @ ELSE Append(@, l)]
        /\ UNCHANGED <<manifest, attempts, reported>>
    BY <1>0, <1>9, SoloIs DEF AppendLink
  <2>2. Solo.phase = "link"
    BY <2>1 DEF In
  <2>3. /\ l \in LinkSet /\ Solo.wired + 1 \in 1..Len(Wired)
        /\ l.kind = Wired[Solo.wired + 1] /\ l.by = Solo.attempt
        /\ l.prev = Last(Solo.links).hash
    BY <2>1, NextLinkFacts
  <2>4. l.kind = "grade" => l.binds = LastEvaluator(Solo.links)
    BY <2>1 DEF NextLink, Link
  <2> HIDE DEF l, ph
  <2>5. /\ Solo'.phase = ph /\ Solo'.links = Append(Solo.links, l)
        /\ Solo'.wired = Solo.wired + 1 /\ Solo'.attempt = Solo.attempt
    BY <1>0, <2>1 DEF RunnerSet
  <2>6. /\ reported = {} /\ chain.links = Solo.links /\ chain.links # << >> /\ ~chain.torn
        /\ manifest.by = Solo.attempt /\ manifest.state = "written"
        /\ chain.links[1].by <= manifest.by
    BY <2>2 DEF Serial, Begun, Chaining
  <2>7. chain'.links = Append(chain.links, l) /\ ~chain'.torn
    <3>1. chain \in [links : Seq(LinkSet), torn : BOOLEAN]
      BY DEF Inductive, Typed
    <3> QED
      BY <2>1, <2>6, <3>1
  <2>8. /\ chain'.links # << >> /\ chain'.links[1] = chain.links[1]
        /\ Len(chain'.links) = Len(chain.links) + 1
    <3>1. 1 \in 1..Len(chain.links)
      BY <1>0, <2>6, EmptySeq
    <3> QED
      BY <1>0, <2>3, <2>7, <3>1, AppendProperties
  <2>9. ph = "audit" <=> Solo.wired + 1 = Len(Wired)
    BY <2>3, WiredFacts DEF ph
  <2>10. ph \in {"link", "audit"}
    BY DEF ph
  <2>11. CASE OwnChain
    <3>1. IsWork(chain.links, manifest.by) /\ Len(chain.links) = Solo.wired + 1
      BY <2>2, <2>6, <2>11 DEF Serial, Chaining
    <3>2. IsWork(chain'.links, manifest.by)
      BY <1>0, <2>3, <2>4, <2>6, <2>7, <3>1, WorkAppended
    <3>3. OwnChain' /\ Len(chain'.links) = Solo'.wired + 1
      BY <2>1, <2>5, <2>8, <2>11, <3>1 DEF OwnChain
    <3>4. manifest' = manifest /\ attempts' = attempts /\ reported' = reported
      BY <2>1
    <3> QED
      BY <1>0, <2>5, <2>6, <2>7, <2>8, <2>9, <2>10, <3>2, <3>3, <3>4
         DEF Serial, Begun, Chaining
  <2>12. CASE ~OwnChain
    <3>1. ~OwnChain'
      BY <2>1, <2>8, <2>12 DEF OwnChain
    <3>2. manifest' = manifest /\ attempts' = attempts /\ reported' = reported
      BY <2>1
    <3> QED
      BY <1>0, <2>5, <2>6, <2>7, <2>8, <2>9, <2>10, <3>1, <3>2 DEF Serial, Begun, Chaining
  <2> QED
    BY <2>11, <2>12
<1>10. ASSUME NEW p \in Runners, Audit(p) PROVE Serial'
  <2>1. /\ Solo.phase = "audit" /\ Solo' = Idle
        /\ UNCHANGED <<manifest, chain, attempts>>
        /\ reported' = IF Intact(Solo.links, Solo.attempt)
                       THEN reported \cup {Solo.attempt} ELSE reported
    BY <1>0, <1>10, SoloIs DEF Audit, In, Stop
  <2>2. reported = {}
    BY <2>1 DEF Serial
  <2>3. CASE ~Intact(Solo.links, Solo.attempt)
    BY <1>1, <2>1, <2>3
  <2>4. CASE Intact(Solo.links, Solo.attempt)
    <3>1. Complete
      BY <2>1, <2>4 DEF Serial, Begun, Chaining, Complete
    <3>2. Complete'
      BY <2>1, <3>1 DEF Complete
    <3>3. manifest' = manifest /\ chain' = chain /\ attempts' = attempts
      BY <2>1
    <3> QED
      BY <1>0, <2>1, <3>2, <3>3 DEF Serial, OwnChain, Idle, Begun, Chaining
  <2> QED
    BY <2>3, <2>4
<1>11. CASE UNCHANGED vars
  BY <1>11 DEF vars, Serial, OwnChain, IsWork, Solo, Complete
<1> QED
  BY <1>2, <1>3, <1>4, <1>5, <1>6, <1>7, <1>8, <1>9, <1>10, <1>11 DEF Next

(* What the run directory of successive runs may hold.                     *)
LEMMA SerialInvariant == ASSUME OneRunner PROVE Spec => [](Inductive /\ Serial)
<1>1. Init => Inductive /\ Serial
  BY InitInductive, InitSerial
<1>2. Inductive /\ Serial /\ [Next]_vars => (Inductive /\ Serial)'
  BY NextInductive, NextSerial
<1> QED
  BY <1>1, <1>2, PTL DEF Spec

-----------------------------------------------------------------------------
(* A run that verifies is, from genesis to grade, the work of one attempt. *)
LEMMA SerialOneAuthor == OneRunner /\ Inductive /\ Serial => OneAuthor
<1> SUFFICES ASSUME Inductive, Serial, Complete PROVE OneAuthor
  BY DEF OneAuthor
<1> DEFINE links == chain.links
           n == Len(links)
           whole == <<"genesis">> \o Wired
<1>1. links \in Seq(LinkSet) /\ Intact(links, manifest.by)
  BY DEF Inductive, Typed, Complete
<1>2. /\ n \in Nat /\ n >= 2 /\ DOMAIN links = 1..n
      /\ links[1].by = manifest.by /\ links[n].kind = "grade"
  BY <1>1, IntactFacts
<1>3. IsWork(links, manifest.by)
  <2>1. links # << >>
    BY <1>1 DEF Intact, GenesisBinds
  <2> QED
    BY <1>2, <2>1 DEF Serial, OwnChain
<1>4. /\ Len(Wired) \in Nat /\ n \in 1..(Len(Wired) + 1)
      /\ \A i \in 1..n : links[i].by = manifest.by
      /\ \A i \in 1..n : links[i].kind = IF i = 1 THEN "genesis" ELSE Wired[i - 1]
  BY <1>3, WiredFacts DEF IsWork
<1> HIDE DEF links, n
<1>5. n = Len(Wired) + 1
  <2>1. n \in 1..n /\ n # 1 /\ n - 1 \in 1..Len(Wired)
    BY <1>2, <1>4
  <2>2. Wired[n - 1] = "grade"
    BY <1>2, <1>4, <2>1
  <2>3. n - 1 = Len(Wired)
    BY <2>1, <2>2, WiredFacts
  <2> QED
    BY <1>2, <1>4, <2>3
<1>6. /\ whole \in Seq(Kinds) /\ Len(whole) = n
      /\ \A i \in 1..n : whole[i] = IF i = 1 THEN "genesis" ELSE Wired[i - 1]
  <2> DEFINE g == <<"genesis">>
  <2>1. g \in Seq(Kinds) /\ Len(g) = 1 /\ g[1] = "genesis"
    BY DEF Kinds
  <2>2. Wired \in Seq(Kinds)
    BY ChainAssumption
  <2> HIDE DEF g
  <2>3. /\ g \o Wired \in Seq(Kinds) /\ Len(g \o Wired) = Len(g) + Len(Wired)
        /\ \A i \in 1..(Len(g) + Len(Wired)) :
              (g \o Wired)[i] = IF i <= Len(g) THEN g[i] ELSE Wired[i - Len(g)]
    BY <2>1, <2>2, ConcatProperties
  <2>4. \A i \in 1..n : i <= 1 <=> i = 1
    BY <1>2
  <2>5. 1 + Len(Wired) = n
    BY <1>4, <1>5
  <2>6. \A i \in 1..n : (g \o Wired)[i] = IF i = 1 THEN "genesis" ELSE Wired[i - 1]
    BY <2>1, <2>3, <2>4, <2>5
  <2>7. whole = g \o Wired
    BY DEF g
  <2> HIDE DEF whole
  <2> QED
    BY <2>1, <2>3, <2>5, <2>6, <2>7
<1>7. whole = [i \in 1..n |-> whole[i]]
  <2> HIDE DEF whole
  <2>1. DOMAIN whole = 1..n /\ whole = [i \in DOMAIN whole |-> whole[i]]
    BY <1>6, LenProperties
  <2> QED
    BY <2>1
<1> HIDE DEF whole
<1>8. [i \in 1..n |-> links[i].kind] = whole
  BY <1>4, <1>6, <1>7
<1> QED
  BY <1>2, <1>4, <1>8 DEF OneAuthor, links, whole

(* Retries and crashes one after the other never mix: a run that verifies  *)
(* is the work of its manifest's attempt alone (chain.py Chain.audit,      *)
(* run_arm_h1.py _wire_chain).                                             *)
THEOREM OneAuthorHolds == ASSUME OneRunner PROVE Spec => []OneAuthor
<1>1. Inductive /\ Serial => OneAuthor
  BY SerialOneAuthor
<1> QED
  BY <1>1, SerialInvariant, PTL

(* A run whose runner reported success is complete on disk, and stays so.  *)
THEOREM ReportedCompleteHolds == ASSUME OneRunner PROVE Spec => []ReportedComplete
<1>1. Inductive /\ Serial => ReportedComplete
  BY DEF Serial, ReportedComplete
<1> QED
  BY <1>1, SerialInvariant, PTL

(* Once _wire_chain has returned, no step writes the manifest again: the   *)
(* gate refuses every further run of the cell (run_arm_h1.py "must never   *)
(* be rewritten after this call").                                         *)
THEOREM ManifestFinalHolds == ASSUME OneRunner PROVE Spec => ManifestFinal
<1>1. ASSUME Inductive, Serial, [Next]_vars
      PROVE  [reported # {} => manifest' = manifest]_vars
  <2>1. SUFFICES ASSUME reported # {}, ~UNCHANGED vars PROVE manifest' = manifest
    OBVIOUS
  <2>2. PICK p \in Runners :
           \/ Start(p) \/ Abandon(p) \/ OpenManifest(p) \/ FinishManifest(p)
           \/ ReadChain(p) \/ OpenGenesis(p) \/ FinishGenesis(p)
           \/ AppendLink(p) \/ RefuseTerminal(p) \/ Audit(p) \/ Crash(p)
    BY <1>1, <2>1 DEF Next
  <2>3. ~OpenManifest(p) /\ ~FinishManifest(p)
    BY <1>1, <2>1, <2>2, SoloIs DEF Serial, OpenManifest, FinishManifest, In
  <2> QED
    BY <2>2, <2>3
       DEF Start, Abandon, ReadChain, OpenGenesis, FinishGenesis, AppendLink,
           RefuseTerminal, Audit, Crash
<1> QED
  BY <1>1, SerialInvariant, PTL DEF Spec, ManifestFinal

-----------------------------------------------------------------------------
(* The steps of AcquisitionOrder's runner on the one cell of a directory,  *)
(* told by what changes of the three views of it.                          *)
VerdictView == IF manifest.state = "absent" THEN "none" ELSE "ship"

DirectoryKept == RunView' = RunView /\ VerdictView' = VerdictView /\ crashes' = crashes

LEMMA OrderStutters ==
    ASSUME DirectoryKept, OpView' = OpView
    PROVE  UNCHANGED Order!vars
BY DEF DirectoryKept, VerdictView, Order!vars, Order!evidence, Order!governance

LEMMA OrderStarts ==
    ASSUME DirectoryKept, OpView = "idle", OpView' = "run", RunView # "closed",
           RunView \in {"absent", "manifest", "opened"}
    PROVE  Order!Next
<1>1. ~Order!CapabilityCell(1)
  BY DEF Order!CapabilityCell
<1>2. Order!LocalState(1) = Order!RunCellState(1) /\ ~Order!NotEvaluable(1)
  BY <1>1 DEF Order!LocalState, Order!NotEvaluable
<1>3. Order!RunCellState(1) \in {"INCOMPLETE", "INADMISSIBLE"}
  BY DEF Order!RunCellState
<1>4. ~Order!Valid(1)
  BY <1>1, <1>2, <1>3 DEF Order!Valid, Order!ProgressValid
<1>5. Order!PrefixDone(1)
  BY DEF Order!PrefixDone
<1>6. Order!StartRun(1)
  BY <1>2, <1>4, <1>5
     DEF Order!StartRun, Order!Authorized, Order!Idle, Order!Doing, Order!ModelEvents,
         Order!DownstreamEvents, Order!evidence, Order!governance, DirectoryKept, VerdictView
<1>7. 1 \in Order!Cell
  BY DEF Order!Cell
<1> QED
  BY <1>6, <1>7 DEF Order!Next, Order!Start

LEMMA OrderAbandons ==
    ASSUME DirectoryKept, OpView \in {"run", "wire"}, OpView' = "idle"
    PROVE  Order!Next
BY DEF DirectoryKept, VerdictView, Order!Next, Order!AbandonRun, Order!RefuseManifest,
       Order!Idle, Order!evidence, Order!governance

LEMMA OrderWritesManifest ==
    ASSUME OpView = "run", OpView' = "wire", VerdictView' = "ship", crashes' = crashes,
           RunView' = IF RunView = "absent" THEN "manifest" ELSE RunView
    PROVE  Order!Next
<1>1. Order!WriteManifest
  BY DEF VerdictView, Order!WriteManifest, Order!Doing, Order!governance
<1> QED
  BY <1>1 DEF Order!Next, Order!Proceed

LEMMA OrderOpensChain ==
    ASSUME OpView = "wire", OpView' = "chain", VerdictView' = VerdictView,
           crashes' = crashes, RunView = "manifest", RunView' = "opened"
    PROVE  Order!Next
<1>1. Order!OpenChain
  BY DEF VerdictView, Order!OpenChain, Order!Doing, Order!governance
<1> QED
  BY <1>1 DEF Order!Next, Order!Proceed

LEMMA OrderClosesChain ==
    ASSUME OpView = "chain", OpView' = "idle", VerdictView' = VerdictView,
           crashes' = crashes, RunView' = "closed"
    PROVE  Order!Next
<1>1. Order!CloseChain
  BY DEF VerdictView, Order!CloseChain, Order!ValidationResults, Order!Idle, Order!governance
<1> QED
  BY <1>1 DEF Order!Next, Order!Proceed

LEMMA OrderCrashes ==
    ASSUME OpView # "idle", OpView' = "idle", VerdictView' = VerdictView,
           RunView' = RunView, crashes < MaxCrashes, crashes' = crashes + 1
    PROVE  Order!Next
BY DEF VerdictView, Order!Next, Order!Crash, Order!Idle, Order!evidence, Order!governance

-----------------------------------------------------------------------------
(* The views, case by case.                                                *)
LEMMA RunViewIs ==
    /\ Complete => RunView = "closed"
    /\ ~Complete /\ (chain.links # << >> \/ chain.torn) => RunView = "opened"
    /\ ~Complete /\ chain.links = << >> /\ ~chain.torn =>
          RunView = IF manifest.state # "absent" THEN "manifest" ELSE "absent"
    /\ RunView # "closed" => ~Complete
    /\ RunView \in {"closed", "opened", "manifest", "absent"}
<1>1. chain.links = << >> => ~Complete
  BY DEF Complete, Intact, GenesisBinds
<1> QED
  BY <1>1 DEF RunView

LEMMA OpViewIs ==
    /\ Solo.phase = "idle" => OpView = "idle"
    /\ Solo.phase = "run" => OpView = "run"
    /\ Solo.phase \in {"manifest", "wire", "genesis"} => OpView = "wire"
    /\ Solo.phase = "link" => OpView = IF Foreign THEN "wire" ELSE "chain"
    /\ Solo.phase = "audit" => OpView = IF Complete THEN "idle" ELSE "wire"
BY DEF OpView

(* A step that leaves both files alone leaves what the order sees of them. *)
LEMMA FilesKept ==
    ASSUME UNCHANGED <<manifest, chain>>
    PROVE  RunView' = RunView /\ VerdictView' = VerdictView /\ Complete' = Complete
<1>1. Complete' = Complete
  BY DEF Complete
<1> QED
  BY <1>1 DEF RunView, VerdictView

(* The one cell of a directory nothing was written to.                     *)
LEMMA InitRefines == OneRunner /\ Init => Order!Init
<1> SUFFICES ASSUME OneRunner, Init PROVE Order!Init
  OBVIOUS
<1>1. PICK q : Runners = {q}
  BY DEF OneRunner
<1>2. Solo = Idle /\ OpView = "idle"
  BY <1>1, SoloIs, OpViewIs DEF Init, Idle
<1>3. RunView = "absent" /\ manifest.state = "absent"
  <2>1. ~Complete
    BY DEF Init, Complete
  <2> QED
    BY <2>1, RunViewIs DEF Init
<1>4. <<"absent">> = [c \in 1..1 |-> "absent"] /\ <<"none">> = [c \in 1..1 |-> "none"]
  OBVIOUS
<1>5. << >> = [u \in {} |-> "absent"]
  OBVIOUS
<1> QED
  BY <1>2, <1>3, <1>4, <1>5 DEF Init, Order!Init, Order!Cell, Order!Idle

(* The invariant says so of every state, the next one included.            *)
LEMMA OnlyAuditedVerifies ==
    ASSUME OneRunner
    PROVE  Inductive /\ Serial => (Solo.phase \in Begun \cup {"run"} /\ Complete
                                      => Solo.phase = "audit" /\ OwnChain)
BY UnfinishedIncomplete

(* Every step of the runner is a step of the order's runner on the cell,   *)
(* or none of it.                                                          *)
LEMMA NextRefines ==
    ASSUME OneRunner, Inductive, Serial, Inductive', Serial', [Next]_vars
    PROVE  [Order!Next]_Order!vars
<1>0. /\ manifest.by \in Nat /\ manifest.state \in {"absent", "torn", "written"}
      /\ manifest'.by \in Nat
      /\ chain \in [links : Seq(LinkSet), torn : BOOLEAN]
      /\ runner \in [Runners -> RunnerSet]
      /\ Solo \in RunnerSet
      /\ Solo.phase \in Begun \cup {"run"} /\ Complete => Solo.phase = "audit" /\ OwnChain
      /\ Solo'.phase \in Begun \cup {"run"} /\ Complete' => Solo'.phase = "audit" /\ OwnChain'
  <2>1. Solo \in RunnerSet
    BY SoloTyped
  <2>2. /\ manifest.by \in Nat /\ manifest.state \in {"absent", "torn", "written"}
        /\ manifest'.by \in Nat
        /\ chain \in [links : Seq(LinkSet), torn : BOOLEAN]
        /\ runner \in [Runners -> RunnerSet]
    BY DEF Inductive, Typed
  <2>3. Solo.phase \in Begun \cup {"run"} /\ Complete => Solo.phase = "audit" /\ OwnChain
    BY UnfinishedIncomplete
  <2>4. (Solo.phase \in Begun \cup {"run"} /\ Complete
            => Solo.phase = "audit" /\ OwnChain)'
    BY OnlyAuditedVerifies, PTL
  <2> QED
    BY <2>1, <2>2, <2>3, <2>4
<1>1. ASSUME UNCHANGED <<manifest, chain, crashes>>, OpView' = OpView
      PROVE  UNCHANGED Order!vars
  BY <1>1, FilesKept, OrderStutters DEF DirectoryKept
<1>2. ASSUME UNCHANGED <<manifest, chain, crashes>>,
             OpView \in {"run", "wire"}, Solo' = Idle
      PROVE  Order!Next
  <2>1. OpView' = "idle"
    BY <1>2, OpViewIs DEF OpView, Idle
  <2> QED
    BY <1>2, <2>1, FilesKept, OrderAbandons DEF DirectoryKept
<1>3. ASSUME NEW p \in Runners, Start(p) PROVE Order!Next
  <2>1. /\ Solo.phase = "idle" /\ ~Complete /\ UNCHANGED <<manifest, chain, crashes>>
        /\ Solo' = [phase |-> "run", attempt |-> attempts + 1, links |-> << >>, wired |-> 0]
    BY <1>0, <1>3, SoloIs DEF Start, In
  <2>2. OpView = "idle" /\ OpView' = "run"
    BY <2>1 DEF OpView
  <2>3. RunView # "closed" /\ RunView \in {"absent", "manifest", "opened"}
    BY <2>1 DEF RunView
  <2> QED
    BY <2>1, <2>2, <2>3, FilesKept, OrderStarts DEF DirectoryKept
<1>4. ASSUME NEW p \in Runners, Abandon(p) PROVE Order!Next
  <2>1. /\ Solo.phase \in {"run", "wire"} /\ Solo' = Idle
        /\ UNCHANGED <<manifest, chain, crashes>>
    BY <1>0, <1>4, SoloIs DEF Abandon, In, Stop
  <2>2. OpView \in {"run", "wire"}
    BY <2>1, OpViewIs
  <2> QED
    BY <1>2, <2>1, <2>2
<1>5. ASSUME NEW p \in Runners, OpenManifest(p) PROVE Order!Next
  <2>1. /\ Solo.phase = "run" /\ manifest' = [state |-> "torn", by |-> Solo.attempt]
        /\ UNCHANGED <<chain, crashes>> /\ Solo' = [Solo EXCEPT !.phase = "manifest"]
    BY <1>0, <1>5, SoloIs DEF OpenManifest, In, Go
  <2>2. OpView = "run" /\ OpView' = "wire"
    BY <1>0, <2>1 DEF OpView, RunnerSet
  <2>3. ~Complete /\ ~Complete'
    BY <1>0, <2>1 DEF Complete
  <2>4. RunView' = IF RunView = "absent" THEN "manifest" ELSE RunView
    BY <2>1, <2>3 DEF RunView
  <2>5. VerdictView' = "ship"
    BY <2>1 DEF VerdictView
  <2> QED
    BY <2>1, <2>2, <2>4, <2>5, OrderWritesManifest
<1>6. ASSUME NEW p \in Runners, FinishManifest(p) PROVE UNCHANGED Order!vars
  <2>1. /\ Solo.phase = "manifest" /\ manifest' = [state |-> "written", by |-> Solo.attempt]
        /\ UNCHANGED <<chain, crashes>> /\ Solo' = [Solo EXCEPT !.phase = "wire"]
    BY <1>0, <1>6, SoloIs DEF FinishManifest, In, Go
  <2>2. Solo'.phase = "wire"
    BY <1>0, <2>1 DEF RunnerSet
  <2>3. OpView' = OpView
    BY <2>1, <2>2 DEF OpView
  <2>4. ~Complete /\ ~Complete' /\ manifest.state = "torn"
    BY <1>0, <2>1, <2>2 DEF Serial, Begun
  <2>5. RunView' = RunView /\ VerdictView' = VerdictView
    BY <2>1, <2>4 DEF RunView, VerdictView
  <2> QED
    BY <2>1, <2>3, <2>5, OrderStutters DEF DirectoryKept
<1>7. ASSUME NEW p \in Runners, ReadChain(p) PROVE Order!Next \/ UNCHANGED Order!vars
  <2>1. Solo.phase = "wire" /\ UNCHANGED <<manifest, chain, crashes>>
    BY <1>0, <1>7, SoloIs DEF ReadChain, In
  <2>2. OpView = "wire"
    BY <2>1, OpViewIs
  <2>3. CASE chain.torn
    <3>1. Solo' = Idle
      BY <1>0, <1>7, <2>3, SoloIs DEF ReadChain, Stop
    <3> QED
      BY <1>2, <2>1, <2>2, <3>1
  <2>4. CASE ~chain.torn
    <3> DEFINE ph == IF chain.links = << >> THEN "genesis" ELSE "link"
    <3>1. Solo' = [Solo EXCEPT !.links = chain.links, !.phase = ph]
      BY <1>0, <1>7, <2>4, SoloIs DEF ReadChain
    <3>2. Solo'.phase = ph /\ Solo'.links = chain.links /\ Solo'.attempt = Solo.attempt
      BY <1>0, <3>1 DEF RunnerSet
    <3>3. chain.links # << >> => chain.links[1].by < Solo.attempt
      BY <2>1 DEF Serial, Begun
    <3>4. chain.links # << >> => chain.links[1].by # Solo.attempt
      <4>1. SUFFICES ASSUME chain.links # << >> PROVE chain.links[1].by # Solo.attempt
        OBVIOUS
      <4>2. Solo.attempt \in Int
        BY <1>0, ChainAssumption DEF RunnerSet
      <4> QED
        BY <3>3, <4>1, <4>2
    <3>5. OpView' = "wire"
      BY <3>2, <3>4 DEF OpView, Foreign
    <3> QED
      BY <1>1, <2>1, <2>2, <3>5
  <2> QED
    BY <2>3, <2>4
<1>8. ASSUME NEW p \in Runners, OpenGenesis(p) PROVE UNCHANGED Order!vars
  <2>1. /\ Solo.phase = "genesis" /\ UNCHANGED <<manifest, crashes>>
        /\ chain' = [links |-> << >>, torn |-> FALSE]
        /\ Solo' = [Solo EXCEPT !.links = <<Genesis(Solo.attempt)>>]
    BY <1>0, <1>8, SoloIs DEF OpenGenesis, In
  <2>2. Solo'.phase = "genesis"
    BY <1>0, <2>1 DEF RunnerSet
  <2>3. chain' = chain
    <3>1. chain.links = << >> /\ chain.torn = FALSE
      BY <1>0, <2>1 DEF Serial
    <3>2. chain = [links |-> chain.links, torn |-> chain.torn]
      BY <1>0
    <3> QED
      BY <2>1, <3>1, <3>2
  <2>4. OpView' = OpView
    BY <2>1, <2>2 DEF OpView
  <2> QED
    BY <1>1, <2>1, <2>3, <2>4
<1>9. ASSUME NEW p \in Runners, FinishGenesis(p) PROVE Order!Next
  <2>1. /\ Solo.phase = "genesis" /\ UNCHANGED <<manifest, crashes>> /\ Solo.links # << >>
        /\ Solo' = [Solo EXCEPT !.phase = "link"] /\ chain'.links = Solo.links
    BY <1>0, <1>9, SoloIs DEF FinishGenesis, In, Go
  <2>2. Solo'.phase = "link" /\ Solo'.links = Solo.links /\ Solo'.attempt = Solo.attempt
    BY <1>0, <2>1 DEF RunnerSet
  <2>3. Solo.links[1].by = Solo.attempt
    <3>1. RunnerInv(Solo, attempts)
      BY SoloTyped
    <3> QED
      BY <2>1, <3>1 DEF RunnerInv, Genesis, Link
  <2>4. OpView = "wire" /\ OpView' = "chain"
    BY <2>1, <2>2, <2>3 DEF OpView, Foreign
  <2>5. ~Complete /\ ~Complete' /\ chain.links = << >> /\ ~chain.torn
        /\ manifest.state = "written"
    BY <1>0, <2>1, <2>2 DEF Serial, Begun
  <2>6. RunView = "manifest" /\ RunView' = "opened"
    BY <2>1, <2>5 DEF RunView
  <2>7. VerdictView' = VerdictView
    BY <2>1 DEF VerdictView
  <2> QED
    BY <2>1, <2>4, <2>6, <2>7, OrderOpensChain
\* a chain a runner works on is its own, or one it found and may only leave
<1>10. ASSUME Solo.phase = "link"
       PROVE  /\ Foreign <=> ~OwnChain
              /\ Solo.links = chain.links /\ chain.links # << >> /\ ~chain.torn
              /\ ~Complete /\ RunView = "opened"
  <2>1. /\ Solo.links = chain.links /\ chain.links # << >> /\ ~chain.torn
        /\ manifest.by = Solo.attempt /\ ~Complete
    BY <1>0, <1>10 DEF Serial, Begun, Chaining
  <2> QED
    BY <2>1 DEF Foreign, OwnChain, RunView
<1>11. ASSUME NEW p \in Runners, AppendLink(p) PROVE Order!Next \/ UNCHANGED Order!vars
  <2> DEFINE l == NextLink(p)
             ph == IF l.kind = "grade" THEN "audit" ELSE "link"
  <2>1. /\ Solo = runner[p] /\ In(p, "link") /\ Last(runner[p].links).kind # "grade"
        /\ Solo' = [Solo EXCEPT !.links = Append(@, l), !.wired = @ + 1, !.phase = ph]
        /\ chain' = [chain EXCEPT !.links = IF chain.torn THEN @ ELSE Append(@, l)]
        /\ UNCHANGED <<manifest, crashes>>
    BY <1>0, <1>11, SoloIs DEF AppendLink
  <2>2. Solo.phase = "link" /\ l \in LinkSet
    BY <2>1, NextLinkFacts DEF In
  <2> HIDE DEF l
  <2>3. ph \in {"link", "audit"}
    OBVIOUS
  <2> HIDE DEF ph
  <2>4. /\ Foreign <=> ~OwnChain
        /\ Solo.links = chain.links /\ chain.links # << >> /\ ~chain.torn
        /\ ~Complete /\ RunView = "opened"
    BY <1>10, <2>2
  <2>5. /\ Solo'.phase = ph /\ Solo'.links = Append(chain.links, l)
        /\ Solo'.attempt = Solo.attempt /\ chain'.links = Append(chain.links, l)
    BY <1>0, <2>1, <2>4 DEF RunnerSet
  <2>6. /\ chain'.links # << >> /\ chain'.links[1] = chain.links[1]
    <3>1. 1 \in 1..Len(chain.links)
      BY <1>0, <2>4, EmptySeq
    <3> QED
      BY <1>0, <2>2, <2>5, <3>1, AppendProperties
  <2>7. (Foreign' <=> Foreign) /\ (OwnChain' <=> OwnChain)
    BY <2>1, <2>4, <2>5, <2>6 DEF Foreign, OwnChain
  <2>8. VerdictView' = VerdictView
    BY <2>1 DEF VerdictView
  <2>9. ~Complete' => RunView' = "opened"
    BY <2>6 DEF RunView
  <2>10. CASE OwnChain /\ ph = "audit"
    <3>1. /\ IsWork(chain'.links, manifest'.by) /\ manifest'.state = "written"
          /\ Len(chain'.links) = Len(Wired) + 1 /\ ~chain'.torn
      BY <2>5, <2>6, <2>7, <2>10 DEF Serial, Begun, Chaining
    <3>2. Intact(chain'.links, manifest'.by)
      <4>1. chain'.links \in Seq(LinkSet)
        BY DEF Inductive, Typed
      <4> QED
        BY <3>1, <4>1, WorkIntact
    <3>3. Complete'
      BY <3>1, <3>2 DEF Complete
    <3>4. RunView' = "closed"
      BY <2>6, <3>3 DEF RunView
    <3>5. OpView = "chain" /\ OpView' = "idle"
      BY <2>2, <2>4, <2>5, <2>10, <3>3 DEF OpView
    <3> QED
      BY <2>1, <2>8, <3>4, <3>5, OrderClosesChain
  <2>11. CASE ~(OwnChain /\ ph = "audit")
    <3>1. ~Complete'
      BY <1>0, <2>3, <2>5, <2>7, <2>11 DEF Begun
    <3>2. OpView' = OpView
      BY <2>2, <2>3, <2>4, <2>5, <2>7, <2>11, <3>1 DEF OpView
    <3> QED
      BY <2>1, <2>4, <2>8, <2>9, <3>1, <3>2, OrderStutters DEF DirectoryKept
  <2> QED
    BY <2>10, <2>11
<1>12. ASSUME NEW p \in Runners, RefuseTerminal(p) PROVE Order!Next
  <2>1. /\ Solo.phase = "link" /\ Last(Solo.links).kind = "grade" /\ Solo' = Idle
        /\ UNCHANGED <<manifest, chain, crashes>>
    BY <1>0, <1>12, SoloIs DEF RefuseTerminal, In, Stop
  <2>2. Foreign
    <3>1. SUFFICES ASSUME OwnChain PROVE FALSE
      BY <1>10, <2>1
    <3>2. /\ IsWork(chain.links, manifest.by) /\ Solo.links = chain.links
          /\ Len(chain.links) = Solo.wired + 1 /\ Solo.wired # Len(Wired)
      BY <1>10, <2>1, <3>1 DEF Serial, Chaining
    <3>3. Len(chain.links) # Len(Wired) + 1
      <4>1. Solo.wired \in Nat
        BY <1>0 DEF RunnerSet
      <4> QED
        BY <3>2, <4>1, WiredFacts
    <3> QED
      BY <1>0, <2>1, <3>2, <3>3, WorkOpen
  <2>3. OpView = "wire"
    BY <2>1, <2>2, OpViewIs
  <2> QED
    BY <1>2, <2>1, <2>3
<1>13. ASSUME NEW p \in Runners, Audit(p) PROVE Order!Next \/ UNCHANGED Order!vars
  <2>1. Solo.phase = "audit" /\ Solo' = Idle /\ UNCHANGED <<manifest, chain, crashes>>
    BY <1>0, <1>13, SoloIs DEF Audit, In, Stop
  <2>2. CASE Complete
    <3>1. OpView = "idle" /\ OpView' = "idle"
      BY <2>1, <2>2 DEF OpView, Idle
    <3> QED
      BY <1>1, <2>1, <3>1
  <2>3. CASE ~Complete
    <3>1. OpView = "wire"
      BY <2>1, <2>3, OpViewIs
    <3> QED
      BY <1>2, <2>1, <3>1
  <2> QED
    BY <2>2, <2>3
<1>14. ASSUME NEW p \in Runners, Crash(p) PROVE Order!Next
  <2>1. /\ Solo.phase \in Begun \cup {"run"} /\ Solo.phase # "audit" /\ Solo' = Idle
        /\ manifest' = manifest /\ crashes < MaxCrashes /\ crashes' = crashes + 1
        /\ \/ chain' = chain
           \/ Solo.phase = "link" /\ chain' = [chain EXCEPT !.torn = TRUE]
    <3>1. Solo.phase \in Phases
      BY <1>0 DEF RunnerSet
    <3> QED
      BY <1>0, <1>14, <3>1, SoloIs DEF Crash, In, Stop, Begun, Phases
  <2>2. OpView # "idle" /\ OpView' = "idle"
    BY <2>1 DEF OpView, Idle, Begun
  <2>3. RunView' = RunView
    <3>1. CASE chain' = chain
      BY <2>1, <3>1, FilesKept
    <3>2. CASE Solo.phase = "link" /\ chain' = [chain EXCEPT !.torn = TRUE]
      <4>1. chain'.torn = TRUE
        BY <1>0, <3>2
      <4>2. ~Complete'
        BY <4>1 DEF Complete
      <4>3. RunView' = "opened"
        BY <4>1, <4>2 DEF RunView
      <4> QED
        BY <1>10, <3>2, <4>3
    <3> QED
      BY <2>1, <3>1, <3>2
  <2>4. VerdictView' = VerdictView
    BY <2>1 DEF VerdictView
  <2> QED
    BY <2>1, <2>2, <2>3, <2>4, OrderCrashes
<1>15. ASSUME UNCHANGED vars PROVE UNCHANGED Order!vars
  <2>1. OpView' = OpView
    <3>1. Solo' = Solo
      BY <1>15 DEF vars, Solo
    <3>2. Complete' = Complete
      BY <1>15, FilesKept DEF vars
    <3> QED
      BY <3>1, <3>2 DEF OpView, Foreign
  <2> QED
    BY <1>1, <1>15, <2>1 DEF vars
<1> QED
  BY <1>3, <1>4, <1>5, <1>6, <1>7, <1>8, <1>9, <1>11, <1>12, <1>13, <1>14, <1>15 DEF Next

(* The run directory of successive runs is a model cell of the frozen      *)
(* order: what its two files hold steps through AcquisitionOrder's run     *)
(* states, whatever attempts, torn writes and stops made of it.            *)
THEOREM RunImplementedHolds == ASSUME OneRunner PROVE Spec => RunImplemented
<1>1. Init => Order!Init
  BY InitRefines
<1>2. Inductive /\ Serial /\ [Next]_vars /\ (Inductive /\ Serial)' => [Order!Next]_Order!vars
  BY NextRefines
<1> QED
  BY <1>1, <1>2, SerialInvariant, PTL DEF Spec, RunImplemented, Order!Spec
=============================================================================
