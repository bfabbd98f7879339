------------------------ MODULE EvidenceChain_proofs ------------------------
(***************************************************************************)
(* Theorems of EvidenceChain, for every set of runners, every sequence of  *)
(* links a run may owe and any number of attempts and crashes.  What holds *)
(* only where runners follow one another is in EvidenceSerial_proofs.      *)
(***************************************************************************)
EXTENDS EvidenceChain, SequenceTheorems, WellFoundedInduction, TLAPS

-----------------------------------------------------------------------------
(* The least-number principle, for sets.                                   *)
LEMMA LeastElement ==
    ASSUME NEW S \in SUBSET Nat, S # {}
    PROVE  \E m \in S : \A k \in S : m <= k
<1> DEFINE R == OpToRel(<, Nat)
<1>1. PICK m \in S : \A k \in S : ~(<<k, m>> \in R)
  <2> HIDE DEF R
  <2>1. IsWellFoundedOn(R, Nat)
    BY NatLessThanWellFounded DEF R
  <2> QED
    BY <2>1, WFMin
<1>2. \A k \in S : ~(k < m)
  BY <1>1 DEF OpToRel
<1> QED
  BY <1>2

(* A set of positions of a sequence that is not empty has a last one.      *)
LEMMA GreatestElement ==
    ASSUME NEW n \in Nat, NEW S \in SUBSET (1..n), S # {}
    PROVE  \E m \in S : \A k \in S : k <= m
<1> DEFINE T == {n - k : k \in S}
<1>1. T \in SUBSET Nat
  OBVIOUS
<1>0. T # {}
  OBVIOUS
<1>2. PICK t \in T : \A u \in T : t <= u
  <2> HIDE DEF T
  <2> QED
    BY <1>0, <1>1, LeastElement
<1>3. PICK m \in S : t = n - m
  BY <1>2
<1>4. \A k \in S : n - m <= n - k
  BY <1>2, <1>3
<1> QED
  BY <1>4

-----------------------------------------------------------------------------
(* What a link commits to: a kind, an attempt, and what it binds.  Only a  *)
(* grade binds anything, and nothing is ever linked behind a grade.        *)
Plain  == Seq(Kinds \X Attempts \X {Root})
Hashes == Seq(Kinds \X Attempts \X Plain)

(* The hash of a grade ends in the whole sequence of links of its attempt. *)
GradesOwnLinks(l) ==
    LET n == Len(l.hash) - Len(Wired) IN
    /\ n >= 1
    /\ \A i \in 1..Len(Wired) : l.hash[n + i][1] = Wired[i] /\ l.hash[n + i][2] = l.by

WellFormed(l) ==
    /\ l.hash = HashOf(l)
    /\ l.kind # "grade" => l.binds = Root
    /\ l.kind = "grade" => GradesOwnLinks(l)

LinkSet == {l \in [kind : Kinds, by : Attempts, prev : Plain, binds : Plain,
                   hash : Hashes] : WellFormed(l)}

(* A link that binds nothing is well formed (chain.py append).             *)
LEMMA PlainLink ==
    ASSUME NEW k \in Kinds \ {"grade"}, NEW b \in Attempts, NEW h \in Plain
    PROVE  Link(k, b, h, Root) \in LinkSet
<1>1. Root \in Plain
  BY DEF Root, Plain
<1>2. <<k, b, Root>> \in Kinds \X Attempts \X {Root}
  OBVIOUS
<1>3. Append(h, <<k, b, Root>>) \in Plain
  BY <1>2, AppendProperties DEF Plain
<1>4. Plain \subseteq Hashes
  BY <1>1 DEF Plain, Hashes
<1> QED
  BY <1>1, <1>3, <1>4 DEF Link, HashOf, LinkSet, WellFormed

(* So is a grade over the other links of its attempt.                      *)
LEMMA GradeLink ==
    ASSUME NEW b \in Attempts, NEW h \in Plain, NEW d \in Plain,
           Len(h) >= Len(Wired),
           \A i \in 1..(Len(Wired) - 1) :
              /\ h[Len(h) - Len(Wired) + 1 + i][1] = Wired[i]
              /\ h[Len(h) - Len(Wired) + 1 + i][2] = b
    PROVE  Link("grade", b, h, d) \in LinkSet
<1> DEFINE e == <<"grade", b, d>>
           l == Link("grade", b, h, d)
           n == Len(h) + 1 - Len(Wired)
<1>1. Root \in Plain
  BY DEF Root, Plain
<1>2. h \in Hashes
  BY <1>1 DEF Plain, Hashes
<1>3. e \in Kinds \X Attempts \X Plain
  BY DEF Kinds
<1>4. /\ Append(h, e) \in Hashes
      /\ Len(Append(h, e)) = Len(h) + 1
      /\ \A i \in 1..Len(h) : Append(h, e)[i] = h[i]
      /\ Append(h, e)[Len(h) + 1] = e
  BY <1>2, <1>3, AppendProperties DEF Hashes
<1>5. Len(h) \in Nat /\ Len(Wired) \in Nat
  BY ChainAssumption, LenProperties DEF Plain
<1>6. ASSUME NEW i \in 1..Len(Wired)
      PROVE  Append(h, e)[n + i][1] = Wired[i] /\ Append(h, e)[n + i][2] = b
  <2>1. CASE i = Len(Wired)
    BY <2>1, <1>4, <1>5, ChainAssumption
  <2>2. CASE i # Len(Wired)
    <3>1. i \in 1..(Len(Wired) - 1) /\ n + i \in 1..Len(h)
      BY <2>2, <1>5
    <3> QED
      BY <3>1, <1>4, <1>5
  <2> QED
    BY <2>1, <2>2
<1>7. n >= 1 /\ Len(Append(h, e)) - Len(Wired) = n
  BY <1>4, <1>5
<1>8. l = [kind |-> "grade", by |-> b, prev |-> h, binds |-> d, hash |-> Append(h, e)]
  BY DEF Link, HashOf
<1>9. Append(h, e) \in Hashes
  BY <1>4
<1>10. HashOf(l) = Append(h, e)
  BY DEF Link, HashOf
<1> HIDE DEF l, e
<1>11. l.hash = Append(h, e) /\ l.by = b /\ l.kind = "grade"
  BY <1>8
<1>12. GradesOwnLinks(l)
  BY <1>6, <1>7, <1>11 DEF GradesOwnLinks
<1>13. WellFormed(l)
  BY <1>10, <1>11, <1>12 DEF WellFormed
<1>14. l \in [kind : Kinds, by : Attempts, prev : Plain, binds : Plain, hash : Hashes]
  BY <1>8, <1>9 DEF Kinds
<1> QED
  BY <1>13, <1>14 DEF LinkSet, l

(* The hash of any other link may be continued.                            *)
LEMMA HashType ==
    ASSUME NEW l \in LinkSet
    PROVE  /\ l.kind \in Kinds /\ l.by \in Attempts /\ l.prev \in Plain
           /\ l.hash \in Hashes /\ l.hash = HashOf(l) /\ l.hash # Root
           /\ Len(l.hash) = Len(l.prev) + 1 /\ Len(l.prev) \in Nat
           /\ l.hash[Len(l.hash)] = <<l.kind, l.by, l.binds>>
           /\ \A i \in 1..Len(l.prev) : l.hash[i] = l.prev[i]
           /\ l.kind # "grade" => l.hash \in Plain
<1> DEFINE e == <<l.kind, l.by, l.binds>>
<1>1. /\ l.kind \in Kinds /\ l.by \in Attempts /\ l.prev \in Plain
      /\ l.hash \in Hashes /\ l.binds \in Plain
      /\ l.hash = Append(l.prev, e)
      /\ l.kind # "grade" => l.binds = Root
  BY DEF LinkSet, WellFormed, HashOf
<1>2. Root \in Plain
  BY DEF Root, Plain
<1>3. e \in Kinds \X Attempts \X Plain /\ l.prev \in Hashes
  BY <1>1, <1>2 DEF Plain, Hashes
<1>4. /\ l.hash # Root
      /\ Len(l.hash) = Len(l.prev) + 1
      /\ \A i \in 1..Len(l.prev) : l.hash[i] = l.prev[i]
      /\ l.hash[Len(l.prev) + 1] = e
  <2> HIDE DEF e
  <2> QED
    BY <1>1, <1>3, AppendProperties DEF Hashes, Root
<1>5. Len(l.prev) \in Nat
  BY <1>1, LenProperties DEF Plain
<1>6. ASSUME l.kind # "grade" PROVE l.hash \in Plain
  <2>1. e \in Kinds \X Attempts \X {Root}
    BY <1>1, <1>6
  <2> QED
    BY <1>1, <2>1, AppendProperties DEF Plain
<1> QED
  BY <1>1, <1>4, <1>5, <1>6 DEF HashOf

(* A chain whose links each continue the one before them: the hash of a    *)
(* link spells out the whole chain up to it (chain.py "each record commits *)
(* to its predecessor").                                                   *)
LEMMA LinkedHistory ==
    ASSUME NEW links \in Seq(LinkSet), links[1].prev = Root,
           \A i \in 2..Len(links) : links[i].prev = links[i - 1].hash
    PROVE  \A i \in 1..Len(links) :
              /\ Len(links[i].hash) = i
              /\ \A j \in 1..i :
                    links[i].hash[j] = <<links[j].kind, links[j].by, links[j].binds>>
<1> DEFINE Spelt(i) ==
              /\ Len(links[i].hash) = i
              /\ \A j \in 1..i :
                    links[i].hash[j] = <<links[j].kind, links[j].by, links[j].binds>>
           S == {i \in 1..Len(links) : ~Spelt(i)}
<1>1. \A i \in 1..Len(links) : links[i] \in LinkSet
  BY ElementOfSeq
<1>2. Len(links) \in Nat
  BY LenProperties
<1>3. SUFFICES ASSUME S # {} PROVE FALSE
  OBVIOUS
<1>4. PICK i \in S : \A k \in S : i <= k
  <2>1. S \in SUBSET Nat
    BY <1>2
  <2> HIDE DEF S
  <2> QED
    BY <1>3, <2>1, LeastElement
<1>5. /\ Len(links[i].hash) = Len(links[i].prev) + 1
      /\ links[i].hash[Len(links[i].hash)] = <<links[i].kind, links[i].by, links[i].binds>>
      /\ \A j \in 1..Len(links[i].prev) : links[i].hash[j] = links[i].prev[j]
  BY <1>1, HashType
<1>6. CASE i = 1
  <2>2. Len(links[1].prev) = 0
    BY DEF Root
  <2>3. Spelt(1)
    <3>0. Len(links[1].hash) = Len(links[1].prev) + 1
      BY <1>5, <1>6
    <3>1. Len(links[1].hash) = 1
      BY <2>2, <3>0
    <3>2. links[1].hash[1] = <<links[1].kind, links[1].by, links[1].binds>>
      BY <3>1, <1>5, <1>6
    <3>3. \A j \in 1..1 : j = 1
      OBVIOUS
    <3> QED
      BY <3>1, <3>2, <3>3
  <2> QED
    BY <2>3, <1>6
<1>7. CASE i # 1
  <2>1. i \in 2..Len(links) /\ i - 1 \in 1..Len(links)
    BY <1>2, <1>7
  <2>2. Spelt(i - 1)
    <3>1. i - 1 \notin S
      BY <1>4, <2>1
    <3> QED
      BY <3>1, <2>1
  <2>3. links[i].prev = links[i - 1].hash
    BY <2>1
  <2>4. Spelt(i)
    <3>1. Len(links[i].prev) = i - 1
      BY <2>2, <2>3
    <3>2. ASSUME NEW j \in 1..i
          PROVE  links[i].hash[j] = <<links[j].kind, links[j].by, links[j].binds>>
      <4>1. CASE j = i
        BY <4>1, <3>1, <1>5, <2>1
      <4>2. CASE j # i
        <5>1. j \in 1..(i - 1)
          BY <4>2, <2>1
        <5> QED
          BY <5>1, <3>1, <2>2, <2>3, <1>5
      <4> QED
        BY <4>1, <4>2
    <3> QED
      BY <3>1, <3>2, <1>5, <2>1
  <2> QED
    BY <2>4
<1> QED
  BY <1>6, <1>7

(* The evaluator link with the highest position is the last one.           *)
LEMMA LastEvaluatorIs ==
    ASSUME NEW links \in Seq(LinkSet), NEW i \in 1..Len(links),
           links[i].kind = "evaluator",
           \A j \in 1..Len(links) : links[j].kind = "evaluator" => j <= i
    PROVE  LastEvaluator(links) = links[i].hash
<1> DEFINE S == {j \in DOMAIN links : links[j].kind = "evaluator"}
<1>1. DOMAIN links = 1..Len(links) /\ Len(links) \in Nat
  BY LenProperties
<1>2. i \in S /\ \A j \in S : j <= i
  BY <1>1
<1>3. S \subseteq Int
  BY <1>1
<1>4. \A k \in S : (\A j \in S : j <= k) => k = i
  BY <1>2, <1>3
<1>5. (CHOOSE k \in S : \A j \in S : j <= k) = i
  <2> HIDE DEF S
  <2> QED
    BY <1>2, <1>4
<1>6. S # {}
  BY <1>2
<1> QED
  BY <1>5, <1>6 DEF LastEvaluator

(* What a grade may bind is the hash of an evaluator link, or nothing.     *)
LEMMA LastEvaluatorType ==
    ASSUME NEW links \in Seq(LinkSet)
    PROVE  LastEvaluator(links) \in Plain
<1> DEFINE S == {j \in 1..Len(links) : links[j].kind = "evaluator"}
<1>1. DOMAIN links = 1..Len(links) /\ Len(links) \in Nat
  BY LenProperties
<1>2. CASE S = {}
  <2>1. LastEvaluator(links) = Root
    BY <1>1, <1>2 DEF LastEvaluator
  <2> QED
    BY <2>1 DEF Root, Plain
<1>3. CASE S # {}
  <2>1. PICK i \in S : \A j \in S : j <= i
    <3>1. S \in SUBSET (1..Len(links))
      OBVIOUS
    <3> HIDE DEF S
    <3> QED
      BY <1>1, <1>3, <3>1, GreatestElement
  <2>2. LastEvaluator(links) = links[i].hash
    BY <2>1, LastEvaluatorIs
  <2>3. links[i] \in LinkSet /\ links[i].kind # "grade"
    BY ElementOfSeq
  <2> QED
    BY <2>2, <2>3, HashType
<1> QED
  BY <1>2, <1>3

-----------------------------------------------------------------------------
RunnerSet == [phase : Phases, attempt : 0..MaxAttempts, links : Seq(LinkSet), wired : Nat]

(* The tip a runner continues ends in the links it has wired so far, and   *)
(* something, a genesis at least, stands before them.                      *)
Wiring(r) ==
    LET h == Last(r.links).hash
        n == Len(h) - r.wired
    IN  /\ r.links # << >>
        /\ r.wired <= Len(Wired) /\ n >= 1
        /\ \A i \in 1..r.wired : h[n + i][1] = Wired[i] /\ h[n + i][2] = r.attempt

(* Where a runner is in its program.                                       *)
RunnerInv(r, started) ==
    /\ r.attempt <= started
    /\ r.phase # "idle" => r.attempt >= 1
    /\ r.phase \in {"run", "manifest", "wire", "genesis"} => r.wired = 0
    /\ r.phase = "genesis" => r.links \in {<< >>, <<Genesis(r.attempt)>>}
    /\ r.phase = "link" => Wiring(r)

Typed ==
    /\ manifest \in [state : {"absent", "torn", "written"}, by : 0..MaxAttempts]
    /\ chain \in [links : Seq(LinkSet), torn : BOOLEAN]
    /\ runner \in [Runners -> RunnerSet]
    /\ attempts \in 0..MaxAttempts /\ crashes \in 0..MaxCrashes
    /\ reported \subseteq Attempts

Inductive == Typed /\ \A p \in Runners : RunnerInv(runner[p], attempts)

(* The inductive invariant gives the type invariant.                       *)
LEMMA InductiveTypes == Inductive => TypeOK
<1> SUFFICES ASSUME Inductive PROVE TypeOK
  OBVIOUS
<1> USE DEF Inductive, Typed
<1>1. ASSUME NEW links \in Seq(LinkSet), NEW i \in DOMAIN links PROVE LinkType(links[i])
  <2>1. links[i] \in LinkSet
    BY ElementOfSeq, LenProperties
  <2> QED
    BY <2>1, HashType DEF LinkType
<1>2. \A i \in DOMAIN chain.links : LinkType(chain.links[i])
  BY <1>1
<1>3. ASSUME NEW p \in Runners
      PROVE  /\ runner[p].phase \in Phases /\ runner[p].attempt \in 0..attempts
             /\ \A i \in DOMAIN runner[p].links : LinkType(runner[p].links[i])
  <2>1. runner[p] \in RunnerSet /\ RunnerInv(runner[p], attempts)
    OBVIOUS
  <2>2. runner[p].links \in Seq(LinkSet) /\ runner[p].phase \in Phases
        /\ runner[p].attempt \in 0..attempts
    BY <2>1 DEF RunnerSet, RunnerInv
  <2> QED
    BY <1>1, <2>2
<1> QED
  BY <1>2, <1>3 DEF TypeOK

(* A step of one runner leaves the others where they are.                  *)
LEMMA RunnerMoved ==
    ASSUME Inductive, NEW p \in Runners, NEW r \in RunnerSet,
           runner' = [runner EXCEPT ![p] = r],
           attempts' \in 0..MaxAttempts, attempts <= attempts',
           RunnerInv(r, attempts')
    PROVE  /\ runner' \in [Runners -> RunnerSet]
           /\ \A q \in Runners : RunnerInv(runner'[q], attempts')
<1>1. runner \in [Runners -> RunnerSet] /\ attempts \in 0..MaxAttempts
  BY DEF Inductive, Typed
<1>2. ASSUME NEW q \in Runners PROVE RunnerInv(runner'[q], attempts')
  <2>1. CASE q = p
    BY <1>1, <2>1
  <2>2. CASE q # p
    <3>1. runner'[q] = runner[q] /\ RunnerInv(runner[q], attempts)
      BY <1>1, <2>2 DEF Inductive
    <3>2. runner[q].attempt \in 0..MaxAttempts
      BY <1>1 DEF RunnerSet
    <3> QED
      BY <1>1, <3>1, <3>2 DEF RunnerInv
  <2> QED
    BY <2>1, <2>2
<1> QED
  BY <1>1, <1>2

(* Where a runner goes on with what it has.                                *)
LEMMA PhaseMoved ==
    ASSUME Inductive, NEW p \in Runners, NEW ph \in Phases,
           runner' = [runner EXCEPT ![p].phase = ph], attempts' = attempts,
           RunnerInv([runner[p] EXCEPT !.phase = ph], attempts)
    PROVE  /\ runner' \in [Runners -> RunnerSet]
           /\ \A q \in Runners : RunnerInv(runner'[q], attempts')
<1> DEFINE r == [runner[p] EXCEPT !.phase = ph]
<1>1. runner[p] \in RunnerSet /\ attempts \in 0..MaxAttempts
  BY DEF Inductive, Typed
<1>2. r \in RunnerSet
  BY <1>1 DEF RunnerSet
<1>3. runner' = [runner EXCEPT ![p] = r]
  OBVIOUS
<1>4. /\ attempts' \in 0..MaxAttempts /\ attempts <= attempts'
      /\ RunnerInv(r, attempts')
  BY <1>1
<1> HIDE DEF r
<1> QED
  BY <1>2, <1>3, <1>4, RunnerMoved

(* A runner that stops holds nothing.                                      *)
LEMMA Stopped ==
    ASSUME Inductive, NEW p \in Runners, Stop(p), attempts' = attempts
    PROVE  /\ runner' \in [Runners -> RunnerSet]
           /\ \A q \in Runners : RunnerInv(runner'[q], attempts')
<1>1. attempts \in 0..MaxAttempts
  BY DEF Inductive, Typed
<1>2. << >> \in Seq(LinkSet)
  OBVIOUS
<1>3. Idle \in RunnerSet
  BY <1>2, ChainAssumption DEF Idle, RunnerSet, Phases
<1>4. RunnerInv(Idle, attempts)
  BY <1>1 DEF Idle, RunnerInv
<1>5. attempts' \in 0..MaxAttempts /\ attempts <= attempts' /\ RunnerInv(Idle, attempts')
  BY <1>1, <1>4
<1>6. runner' = [runner EXCEPT ![p] = Idle]
  BY DEF Stop
<1> QED
  BY <1>3, <1>5, <1>6, RunnerMoved

(* The links a run owes: a grade at the end, an evaluator before it, and   *)
(* nowhere else (run_arm_h1.py _wire_chain).                               *)
LEMMA WiredFacts ==
    /\ Len(Wired) \in Nat
    /\ \A i \in 1..Len(Wired) :
          /\ Wired[i] \in Kinds \ {"genesis"}
          /\ Wired[i] = "grade" <=> i = Len(Wired)
          /\ Wired[i] = "evaluator" <=> i = Len(Wired) - 1
<1>1. Len(Wired) \in Nat
  BY ChainAssumption, LenProperties
<1>2. ASSUME NEW i \in 1..Len(Wired)
      PROVE  /\ Wired[i] \in Kinds \ {"genesis"}
             /\ Wired[i] = "grade" <=> i = Len(Wired)
             /\ Wired[i] = "evaluator" <=> i = Len(Wired) - 1
  <2>1. CASE i \in 1..(Len(Wired) - 2)
    BY <2>1, <1>1, ChainAssumption DEF Kinds
  <2>2. CASE i = Len(Wired) - 1
    BY <2>2, <1>1, ChainAssumption DEF Kinds
  <2>3. CASE i = Len(Wired)
    BY <2>3, <1>1, ChainAssumption DEF Kinds
  <2> QED
    BY <1>1, <2>1, <2>2, <2>3
<1> QED
  BY <1>1, <1>2

(* The last of a sequence of links, and what a further link does to it.    *)
LEMMA LastLink ==
    ASSUME NEW links \in Seq(LinkSet), links # << >>
    PROVE  Len(links) \in Nat \ {0} /\ Last(links) = links[Len(links)] /\ Last(links) \in LinkSet
<1>1. Len(links) \in Nat \ {0}
  BY EmptySeq, LenProperties
<1> QED
  BY <1>1, ElementOfSeq DEF Last

LEMMA LastAppended ==
    ASSUME NEW links \in Seq(LinkSet), NEW l \in LinkSet
    PROVE  /\ Append(links, l) \in Seq(LinkSet) /\ Append(links, l) # << >>
           /\ Last(Append(links, l)) = l
<1>1. /\ Append(links, l) \in Seq(LinkSet) /\ Append(links, l) # << >>
      /\ Len(Append(links, l)) = Len(links) + 1
      /\ Append(links, l)[Len(links) + 1] = l
  BY AppendProperties
<1> QED
  BY <1>1 DEF Last

(* The link a runner appends next is well formed, and it continues its     *)
(* tip by the kind that is due.                                            *)
LEMMA NextLinkFacts ==
    ASSUME Inductive, NEW p \in Runners, In(p, "link"),
           Last(runner[p].links).kind # "grade"
    PROVE  /\ NextLink(p) \in LinkSet
           /\ runner[p].wired + 1 \in 1..Len(Wired)
           /\ NextLink(p).kind = Wired[runner[p].wired + 1]
           /\ NextLink(p).by = runner[p].attempt
           /\ NextLink(p).prev = Last(runner[p].links).hash
<1> DEFINE r == runner[p]
           tip == Last(r.links)
           h == tip.hash
           k == r.wired
           d == IF Wired[k + 1] = "grade" THEN LastEvaluator(r.links) ELSE Root
<1>1. /\ r.links \in Seq(LinkSet) /\ k \in Nat /\ r.attempt \in Attempts
      /\ Wiring(r)
  <2>1. r \in RunnerSet /\ RunnerInv(r, attempts) /\ r.phase = "link"
    BY DEF Inductive, Typed, In
  <2>2. r.attempt \in 1..MaxAttempts
    BY <2>1, ChainAssumption DEF RunnerSet, RunnerInv
  <2> HIDE DEF r
  <2> QED
    BY <2>1, <2>2 DEF RunnerSet, RunnerInv, Attempts
<1>2. tip \in LinkSet
  BY <1>1, LastLink DEF Wiring
<1>3. /\ h \in Plain /\ Len(h) \in Nat
      /\ h[Len(h)] = <<tip.kind, tip.by, tip.binds>>
  <2> HIDE DEF tip
  <2>1. tip.kind # "grade"
    BY DEF tip
  <2>2. Len(tip.hash) = Len(tip.prev) + 1 /\ Len(tip.prev) \in Nat
    BY <1>2, HashType
  <2> QED
    BY <1>2, <2>1, <2>2, HashType
<1>4. /\ k <= Len(Wired) /\ Len(h) - k >= 1
      /\ \A i \in 1..k : h[Len(h) - k + i][1] = Wired[i] /\ h[Len(h) - k + i][2] = r.attempt
  BY <1>1 DEF Wiring
<1>5. k # Len(Wired)
  <2>1. SUFFICES ASSUME k = Len(Wired) PROVE FALSE
    OBVIOUS
  <2>2. k \in 1..k /\ Wired[k] = "grade"
    BY <2>1, ChainAssumption
  <2>3. h[Len(h) - k + k][1] = "grade"
    BY <2>2, <1>4
  <2>4. Len(h) - k + k = Len(h)
    BY <1>1, <1>3
  <2> QED
    BY <2>3, <2>4, <1>3
<1>6. k + 1 \in 1..Len(Wired)
  BY <1>1, <1>4, <1>5, WiredFacts
<1>7. NextLink(p) = Link(Wired[k + 1], r.attempt, h, d)
  BY DEF NextLink
<1>8. CASE Wired[k + 1] # "grade"
  <2>1. Wired[k + 1] \in Kinds \ {"grade"}
    BY <1>6, <1>8, WiredFacts
  <2>2. d = Root
    BY <1>8
  <2>3. Link(Wired[k + 1], r.attempt, h, Root) \in LinkSet
    <3> HIDE DEF h, r, k
    <3> QED
      BY <2>1, <1>1, <1>3, PlainLink
  <2> QED
    BY <2>2, <2>3, <1>6, <1>7 DEF Link
<1>9. CASE Wired[k + 1] = "grade"
  <2>1. k + 1 = Len(Wired)
    BY <1>6, <1>9, WiredFacts
  <2>2. d \in Plain
    BY <1>1, <1>9, LastEvaluatorType
  <2>3. Len(h) >= Len(Wired)
    BY <2>1, <1>1, <1>3, <1>4
  <2>4. \A i \in 1..(Len(Wired) - 1) :
           /\ h[Len(h) - Len(Wired) + 1 + i][1] = Wired[i]
           /\ h[Len(h) - Len(Wired) + 1 + i][2] = r.attempt
    <3>1. Len(Wired) - 1 = k /\ Len(h) - Len(Wired) + 1 = Len(h) - k
      BY <2>1, <1>1, <1>3, WiredFacts
    <3> HIDE DEF h, r, k
    <3> QED
      BY <3>1, <1>4
  <2>5. Link("grade", r.attempt, h, d) \in LinkSet
    <3> HIDE DEF h, r, k, d
    <3> QED
      BY <2>2, <2>3, <2>4, <1>1, <1>3, GradeLink
  <2> QED
    BY <2>5, <1>6, <1>7, <1>9 DEF Link
<1> QED
  BY <1>8, <1>9

(* ... and the runner has then wired one link more.                        *)
LEMMA WiringAppended ==
    ASSUME Inductive, NEW p \in Runners, In(p, "link"),
           Last(runner[p].links).kind # "grade",
           NEW r \in RunnerSet,
           r.links = Append(runner[p].links, NextLink(p)),
           r.wired = runner[p].wired + 1, r.attempt = runner[p].attempt
    PROVE  Wiring(r)
<1> DEFINE l == NextLink(p)
           h == Last(runner[p].links).hash
           k == runner[p].wired
           n == Len(h) - k
<1>1. /\ runner[p].links \in Seq(LinkSet) /\ k \in Nat /\ Wiring(runner[p])
  BY DEF Inductive, Typed, RunnerSet, RunnerInv, In
<1>2. /\ l \in LinkSet /\ k + 1 \in 1..Len(Wired) /\ l.kind = Wired[k + 1]
      /\ l.by = r.attempt /\ l.prev = h
  BY NextLinkFacts
<1>3. r.links # << >> /\ Last(r.links) = l
  BY <1>1, <1>2, LastAppended
<1> HIDE DEF l
<1>4. /\ Len(l.hash) = Len(h) + 1 /\ Len(h) \in Nat
      /\ l.hash[Len(h) + 1] = <<l.kind, l.by, l.binds>>
      /\ \A i \in 1..Len(h) : l.hash[i] = h[i]
  <2>1. /\ Len(l.hash) = Len(l.prev) + 1 /\ Len(l.prev) \in Nat
        /\ l.hash[Len(l.hash)] = <<l.kind, l.by, l.binds>>
        /\ \A i \in 1..Len(l.prev) : l.hash[i] = l.prev[i]
    BY <1>2, HashType
  <2> HIDE DEF h
  <2> QED
    BY <1>2, <2>1
<1>5. /\ n >= 1 /\ k <= Len(Wired)
      /\ \A i \in 1..k : h[n + i][1] = Wired[i] /\ h[n + i][2] = r.attempt
  BY <1>1 DEF Wiring
<1>0. k \in Nat /\ Len(h) \in Nat /\ n >= 1 /\ Len(Wired) \in Nat
  BY <1>1, <1>4, <1>5, WiredFacts
<1> HIDE DEF h, k
<1>6. ASSUME NEW i \in 1..(k + 1)
      PROVE  l.hash[n + i][1] = Wired[i] /\ l.hash[n + i][2] = r.attempt
  <2>1. CASE i = k + 1
    <3>1. n + i = Len(h) + 1
      BY <2>1, <1>0
    <3> QED
      BY <3>1, <2>1, <1>2, <1>4
  <2>2. CASE i # k + 1
    <3>1. i \in 1..k /\ n + i \in 1..Len(h)
      BY <2>2, <1>0
    <3> QED
      BY <3>1, <1>4, <1>5
  <2> QED
    BY <2>1, <2>2
<1>7. r.wired = k + 1
  BY DEF k
<1>8. Len(l.hash) - r.wired = n /\ r.wired <= Len(Wired)
  BY <1>0, <1>2, <1>4, <1>7
<1> QED
  BY <1>0, <1>3, <1>6, <1>7, <1>8 DEF Wiring

(* ReadChain sets wired to none: a retry begins behind the links it finds. *)
LEMMA WiringBegun ==
    ASSUME NEW r \in RunnerSet, r.links # << >>, r.wired = 0
    PROVE  Wiring(r)
<1>1. r.links \in Seq(LinkSet)
  BY DEF RunnerSet
<1>2. Last(r.links) \in LinkSet
  BY <1>1, LastLink
<1>3. Len(Last(r.links).hash) - 0 >= 1
  BY <1>2, HashType
<1> QED
  BY <1>3, WiredFacts DEF Wiring

(* No runner has begun in the initial state.                               *)
LEMMA InitInductive == Init => Inductive
<1> SUFFICES ASSUME Init PROVE Inductive
  OBVIOUS
<1>1. << >> \in Seq(LinkSet)
  OBVIOUS
<1>2. Idle \in RunnerSet
  BY <1>1, ChainAssumption DEF Idle, RunnerSet, Phases
<1>3. RunnerInv(Idle, 0)
  BY DEF Idle, RunnerInv
<1>4. Typed
  BY <1>1, <1>2, ChainAssumption DEF Init, Typed
<1> QED
  BY <1>3, <1>4 DEF Init, Inductive

(* Every step of a runner leaves well-formed links and a runner that knows *)
(* which links of its own end the tip it continues.                        *)
LEMMA NextInductive == Inductive /\ [Next]_vars => Inductive'
<1> SUFFICES ASSUME Inductive, [Next]_vars PROVE Inductive'
  OBVIOUS
<1> USE ChainAssumption
<1>0. /\ Typed /\ attempts \in 0..MaxAttempts
      /\ \A p \in Runners : runner[p] \in RunnerSet /\ RunnerInv(runner[p], attempts)
  BY DEF Inductive, Typed
<1>1. ASSUME NEW p \in Runners, Start(p) PROVE Inductive'
  <2> DEFINE r == [phase |-> "run", attempt |-> attempts + 1, links |-> << >>, wired |-> 0]
  <2>1. << >> \in Seq(LinkSet)
    OBVIOUS
  <2>2. attempts' = attempts + 1 /\ attempts' \in 0..MaxAttempts /\ attempts <= attempts'
    BY <1>0, <1>1 DEF Start
  <2>3. r \in RunnerSet /\ RunnerInv(r, attempts')
    <3>1. attempts + 1 \in 0..MaxAttempts /\ 0 \in Nat
      BY <2>2
    <3>2. r \in RunnerSet
      BY <2>1, <3>1 DEF RunnerSet, Phases
    <3>3. /\ r.phase = "run" /\ r.wired = 0
          /\ r.attempt <= attempts' /\ r.attempt >= 1
      BY <1>0, <2>2
    <3> HIDE DEF r
    <3> QED
      BY <3>2, <3>3 DEF RunnerInv
  <2>4. runner' = [runner EXCEPT ![p] = r]
    BY <1>1 DEF Start
  <2> HIDE DEF r
  <2>5. /\ runner' \in [Runners -> RunnerSet]
        /\ \A q \in Runners : RunnerInv(runner'[q], attempts')
    BY <2>2, <2>3, <2>4, RunnerMoved
  <2> QED
    BY <1>0, <1>1, <2>2, <2>5 DEF Start, Typed, Inductive
<1>2. ASSUME NEW p \in Runners, Abandon(p) \/ RefuseTerminal(p) PROVE Inductive'
  <2>1. Stop(p) /\ UNCHANGED <<manifest, chain, attempts, crashes, reported>>
    BY <1>2 DEF Abandon, RefuseTerminal
  <2>2. /\ runner' \in [Runners -> RunnerSet]
        /\ \A q \in Runners : RunnerInv(runner'[q], attempts')
    BY <2>1, Stopped
  <2> QED
    BY <1>0, <2>1, <2>2 DEF Typed, Inductive
<1>3. ASSUME NEW p \in Runners, OpenManifest(p) \/ FinishManifest(p) PROVE Inductive'
  <2>1. PICK ph \in {"manifest", "wire"} :
           runner' = [runner EXCEPT ![p].phase = ph] /\ attempts' = attempts
    BY <1>3 DEF OpenManifest, FinishManifest, Go
  <2>2. RunnerInv([runner[p] EXCEPT !.phase = ph], attempts) /\ ph \in Phases
    BY <1>0, <1>3, <2>1 DEF OpenManifest, FinishManifest, In, RunnerInv, RunnerSet, Phases
  <2>3. /\ runner' \in [Runners -> RunnerSet]
        /\ \A q \in Runners : RunnerInv(runner'[q], attempts')
    BY <2>1, <2>2, PhaseMoved
  <2>4. runner[p].attempt \in 0..MaxAttempts
    BY <1>0 DEF RunnerSet
  <2> QED
    BY <1>0, <1>3, <2>3, <2>4 DEF OpenManifest, FinishManifest, Typed, Inductive
<1>4. ASSUME NEW p \in Runners, ReadChain(p) PROVE Inductive'
  <2>1. UNCHANGED <<manifest, chain, attempts, crashes, reported>>
    BY <1>4 DEF ReadChain
  <2>2. /\ runner' \in [Runners -> RunnerSet]
        /\ \A q \in Runners : RunnerInv(runner'[q], attempts')
    <3>1. CASE chain.torn
      BY <1>4, <2>1, <3>1, Stopped DEF ReadChain
    <3>2. CASE ~chain.torn
      <4> DEFINE ph == IF chain.links = << >> THEN "genesis" ELSE "link"
                 r == [runner[p] EXCEPT !.links = chain.links, !.phase = ph]
      <4>1. runner' = [runner EXCEPT ![p] = r]
        BY <1>4, <3>2 DEF ReadChain
      <4>2. runner[p].phase = "wire" /\ chain.links \in Seq(LinkSet)
        BY <1>0, <1>4 DEF ReadChain, In, Typed
      <4>3. ph \in Phases
        BY DEF Phases
      <4>4. /\ r \in RunnerSet /\ r.links = chain.links /\ r.phase = ph
            /\ r.wired = runner[p].wired /\ r.attempt = runner[p].attempt
        BY <1>0, <4>2, <4>3 DEF RunnerSet
      <4>5. r.wired = 0 /\ r.attempt >= 1 /\ r.attempt <= attempts
        BY <1>0, <4>2, <4>4 DEF RunnerInv
      <4>6. ph = "link" => Wiring(r)
        <5> HIDE DEF r
        <5> QED
          BY <4>4, <4>5, WiringBegun
      <4>7. RunnerInv(r, attempts)
        <5>1. ph = "genesis" => r.links = << >>
          BY <4>4
        <5>2. ph \in {"genesis", "link"}
          OBVIOUS
        <5> HIDE DEF r, ph
        <5> QED
          BY <4>4, <4>5, <4>6, <5>1, <5>2 DEF RunnerInv
      <4>8. /\ attempts' \in 0..MaxAttempts /\ attempts <= attempts'
            /\ RunnerInv(r, attempts')
        BY <1>0, <2>1, <4>7
      <4> HIDE DEF r
      <4> QED
        BY <4>1, <4>4, <4>8, RunnerMoved
    <3> QED
      BY <3>1, <3>2
  <2> QED
    BY <1>0, <2>1, <2>2 DEF Typed, Inductive
<1>5. ASSUME NEW p \in Runners, OpenGenesis(p) PROVE Inductive'
  <2> DEFINE r == [runner[p] EXCEPT !.links = <<Genesis(runner[p].attempt)>>]
  <2>1. runner' = [runner EXCEPT ![p] = r] /\ attempts' = attempts /\ runner[p].phase = "genesis"
    BY <1>5 DEF OpenGenesis, In
  <2>2. runner[p].attempt \in Attempts /\ runner[p].wired = 0 /\ runner[p].attempt <= attempts
    BY <1>0, <2>1 DEF RunnerSet, RunnerInv, Attempts
  <2>3. Genesis(runner[p].attempt) \in LinkSet
    <3>1. "genesis" \in Kinds \ {"grade"} /\ Root \in Plain
      BY DEF Kinds, Root, Plain
    <3> QED
      BY <2>2, <3>1, PlainLink DEF Genesis
  <2>4. <<Genesis(runner[p].attempt)>> \in Seq(LinkSet)
    BY <2>3
  <2>5. /\ r \in RunnerSet /\ r.phase = "genesis" /\ r.wired = 0
        /\ r.attempt = runner[p].attempt /\ r.links = <<Genesis(r.attempt)>>
    BY <1>0, <2>1, <2>2, <2>4 DEF RunnerSet
  <2> HIDE DEF r
  <2>6. RunnerInv(r, attempts)
    BY <2>2, <2>5 DEF RunnerInv, Attempts
  <2>7. attempts' \in 0..MaxAttempts /\ attempts <= attempts' /\ RunnerInv(r, attempts')
    BY <1>0, <2>1, <2>6
  <2>8. /\ runner' \in [Runners -> RunnerSet]
        /\ \A q \in Runners : RunnerInv(runner'[q], attempts')
    BY <2>1, <2>5, <2>7, RunnerMoved
  <2>9. chain' \in [links : Seq(LinkSet), torn : BOOLEAN]
    <3>1. << >> \in Seq(LinkSet)
      OBVIOUS
    <3> QED
      BY <1>5, <3>1 DEF OpenGenesis
  <2> QED
    BY <1>0, <1>5, <2>8, <2>9 DEF OpenGenesis, Typed, Inductive
<1>6. ASSUME NEW p \in Runners, FinishGenesis(p) PROVE Inductive'
  <2> DEFINE r == [runner[p] EXCEPT !.phase = "link"]
  <2>1. /\ runner' = [runner EXCEPT ![p].phase = "link"] /\ attempts' = attempts
        /\ runner[p].phase = "genesis" /\ runner[p].links # << >>
    BY <1>6 DEF FinishGenesis, In, Go
  <2>2. /\ r \in RunnerSet /\ r.links # << >> /\ r.wired = 0 /\ r.phase = "link"
        /\ r.attempt >= 1 /\ r.attempt <= attempts
    BY <1>0, <2>1 DEF RunnerSet, RunnerInv, Phases
  <2>3. RunnerInv(r, attempts)
    <3> HIDE DEF r
    <3> QED
      BY <2>2, WiringBegun DEF RunnerInv
  <2>4. /\ runner' \in [Runners -> RunnerSet]
        /\ \A q \in Runners : RunnerInv(runner'[q], attempts')
    <3>1. "link" \in Phases
      BY DEF Phases
    <3> QED
      BY <2>1, <2>3, <3>1, PhaseMoved
  <2>5. chain' \in [links : Seq(LinkSet), torn : BOOLEAN]
    <3>1. runner[p].links \in Seq(LinkSet)
      BY <1>0 DEF RunnerSet
    <3> QED
      BY <1>6, <3>1 DEF FinishGenesis
  <2> QED
    BY <1>0, <1>6, <2>4, <2>5 DEF FinishGenesis, Typed, Inductive
<1>7. ASSUME NEW p \in Runners, AppendLink(p) PROVE Inductive'
  <2> DEFINE l == NextLink(p)
             ph == IF l.kind = "grade" THEN "audit" ELSE "link"
             r == [runner[p] EXCEPT !.links = Append(@, l), !.wired = @ + 1, !.phase = ph]
  <2>1. /\ In(p, "link") /\ Last(runner[p].links).kind # "grade"
        /\ runner' = [runner EXCEPT ![p] = r]
        /\ attempts' = attempts
    BY <1>7 DEF AppendLink
  <2>2. l \in LinkSet
    BY <2>1, NextLinkFacts
  <2> HIDE DEF l
  <2>3. runner[p].links \in Seq(LinkSet) /\ chain.links \in Seq(LinkSet)
    BY <1>0 DEF RunnerSet, Typed
  <2>4. /\ Append(runner[p].links, l) \in Seq(LinkSet)
        /\ Append(chain.links, l) \in Seq(LinkSet)
    BY <2>2, <2>3, AppendProperties
  <2>5. ph \in {"link", "audit"} /\ ph \in Phases
    BY DEF Phases
  <2> HIDE DEF ph
  <2>6. /\ r \in RunnerSet /\ r.links = Append(runner[p].links, l) /\ r.phase = ph
        /\ r.wired = runner[p].wired + 1 /\ r.attempt = runner[p].attempt
    <3> DEFINE s == runner[p]
               new == Append(s.links, l)
    <3>1. s \in RunnerSet /\ s.wired + 1 \in Nat
      BY <1>0 DEF RunnerSet
    <3>2. r = [s EXCEPT !.links = new, !.wired = s.wired + 1, !.phase = ph]
      OBVIOUS
    <3>3. new \in Seq(LinkSet)
      BY <2>4
    <3> HIDE DEF s, new
    <3>4. /\ r \in RunnerSet /\ r.links = new /\ r.phase = ph
          /\ r.wired = s.wired + 1 /\ r.attempt = s.attempt
      BY <2>5, <3>1, <3>2, <3>3 DEF RunnerSet
    <3> QED
      BY <3>4 DEF s, new
  <2> HIDE DEF r
  <2>7. Wiring(r)
    BY <2>1, <2>6, WiringAppended DEF l
  <2>8. RunnerInv(r, attempts)
    BY <1>0, <2>1, <2>5, <2>6, <2>7 DEF RunnerInv, In
  <2>9. attempts' \in 0..MaxAttempts /\ attempts <= attempts' /\ RunnerInv(r, attempts')
    BY <1>0, <2>1, <2>8
  <2>10. /\ runner' \in [Runners -> RunnerSet]
         /\ \A q \in Runners : RunnerInv(runner'[q], attempts')
    BY <2>1, <2>6, <2>9, RunnerMoved
  <2>11. chain' \in [links : Seq(LinkSet), torn : BOOLEAN]
    <3>1. chain' = [chain EXCEPT !.links = IF chain.torn THEN @ ELSE Append(@, l)]
      BY <1>7 DEF AppendLink, l
    <3> QED
      BY <1>0, <2>4, <3>1 DEF Typed
  <2> QED
    BY <1>0, <1>7, <2>10, <2>11 DEF AppendLink, Typed, Inductive
<1>8. ASSUME NEW p \in Runners, Audit(p) PROVE Inductive'
  <2>1. Stop(p) /\ UNCHANGED <<manifest, chain, attempts, crashes>>
        /\ runner[p].phase = "audit"
    BY <1>8 DEF Audit, In
  <2>2. /\ runner' \in [Runners -> RunnerSet]
        /\ \A q \in Runners : RunnerInv(runner'[q], attempts')
    BY <2>1, Stopped
  <2>3. reported' \subseteq Attempts
    <3>1. runner[p].attempt \in Attempts
      BY <1>0, <2>1 DEF RunnerSet, RunnerInv, Attempts
    <3> QED
      BY <1>0, <1>8, <3>1 DEF Audit, Typed
  <2> QED
    BY <1>0, <2>1, <2>2, <2>3 DEF Typed, Inductive
<1>9. ASSUME NEW p \in Runners, Crash(p) PROVE Inductive'
  <2>1. Stop(p) /\ UNCHANGED <<manifest, attempts, reported>>
        /\ crashes' = crashes + 1 /\ crashes < MaxCrashes
        /\ chain' \in {chain, [chain EXCEPT !.torn = TRUE]}
    BY <1>9 DEF Crash
  <2>2. /\ runner' \in [Runners -> RunnerSet]
        /\ \A q \in Runners : RunnerInv(runner'[q], attempts')
    BY <2>1, Stopped
  <2>3. chain' \in [links : Seq(LinkSet), torn : BOOLEAN]
    <3>1. chain \in [links : Seq(LinkSet), torn : BOOLEAN]
      BY <1>0 DEF Typed
    <3> QED
      BY <2>1, <3>1
  <2>4. crashes' \in 0..MaxCrashes
    BY <1>0, <2>1 DEF Typed
  <2> QED
    BY <1>0, <2>1, <2>2, <2>3, <2>4 DEF Typed, Inductive
<1>10. CASE UNCHANGED vars
  BY <1>10 DEF vars, Inductive, Typed
<1> QED
  BY <1>1, <1>2, <1>3, <1>4, <1>5, <1>6, <1>7, <1>8, <1>9, <1>10 DEF Next

(* Every link, on disk or in memory, names an attempt and is hashed as it  *)
(* stands, however runners and crashes interleave (chain.py append).       *)
THEOREM TypeInvariant == Spec => []TypeOK
BY InitInductive, NextInductive, InductiveTypes, PTL DEF Spec

-----------------------------------------------------------------------------
(* A chain that verifies: its positions, its genesis, its only grade.      *)
LEMMA IntactFacts ==
    ASSUME NEW links \in Seq(LinkSet), NEW m, Intact(links, m)
    PROVE  /\ Len(links) \in Nat /\ Len(links) >= 2 /\ DOMAIN links = 1..Len(links)
           /\ \A i \in 1..Len(links) : links[i] \in LinkSet
           /\ links[1].kind = "genesis" /\ links[1].by = m
           /\ \A i \in 2..Len(links) : links[i].kind # "genesis"
           /\ \A i \in 1..Len(links) : links[i].kind = "grade" <=> i = Len(links)
           /\ Last(links) = links[Len(links)]
<1>1. /\ Len(links) \in Nat /\ DOMAIN links = 1..Len(links)
      /\ \A i \in 1..Len(links) : links[i] \in LinkSet
  BY LenProperties, ElementOfSeq
<1>2. links[1].kind = "genesis" /\ links[1].by = m
  BY DEF Intact, GenesisBinds
<1>3. \A i \in 2..Len(links) : links[i].kind # "genesis"
  BY DEF Intact, Linked
<1>4. {i \in DOMAIN links : links[i].kind = "grade"} = {Len(links)}
  BY DEF Intact, Graded
<1>5. \A i \in 1..Len(links) : links[i].kind = "grade" <=> i = Len(links)
  BY <1>1, <1>4
<1>6. Len(links) \in 1..Len(links) /\ links[Len(links)].kind = "grade"
  BY <1>1, <1>4
<1>7. Len(links) # 1
  BY <1>2, <1>6
<1>8. Len(links) >= 2
  BY <1>1, <1>6, <1>7
<1> QED
  BY <1>1, <1>2, <1>3, <1>5, <1>8 DEF Last

(* What the closing grade commits to is the whole sequence of links of its *)
(* attempt, and the chain that verifies spells out the same.               *)
LEMMA InductiveGraded == Inductive => GradedByOne
<1> SUFFICES ASSUME Inductive, Complete PROVE GradedByOne
  BY DEF GradedByOne
<1> DEFINE links == chain.links
           last == links[Len(links)]
           n == Len(links) - Len(Wired)
<1>1. links \in Seq(LinkSet) /\ Intact(links, manifest.by)
  BY DEF Inductive, Typed, Complete
<1> HIDE DEF links
<1>2. /\ Len(links) \in Nat /\ Len(links) >= 2 /\ Last(links) = last
      /\ last \in LinkSet /\ last.kind = "grade"
  BY <1>1, IntactFacts
<1>3. GradesOwnLinks(last)
  BY <1>2 DEF LinkSet, WellFormed
<1>4. /\ Len(last.hash) = Len(links)
      /\ \A j \in 1..Len(links) :
            last.hash[j] = <<links[j].kind, links[j].by, links[j].binds>>
  <2>1. /\ links[1].prev = Root
        /\ \A i \in 2..Len(links) : links[i].prev = links[i - 1].hash
    BY <1>1 DEF Intact, GenesisBinds, Linked
  <2>2. Len(links) \in 1..Len(links)
    BY <1>2
  <2> QED
    BY <1>1, <2>1, <2>2, LinkedHistory
<1> HIDE DEF last
<1>5. /\ n >= 1
      /\ \A i \in 1..Len(Wired) : last.hash[n + i][1] = Wired[i] /\ last.hash[n + i][2] = last.by
  BY <1>3, <1>4 DEF GradesOwnLinks
<1>6. ASSUME NEW i \in 1..Len(Wired)
      PROVE  links[n + i].kind = Wired[i] /\ links[n + i].by = last.by
  <2>1. n + i \in 1..Len(links)
    BY <1>2, <1>5, WiredFacts
  <2>2. last.hash[n + i] = <<links[n + i].kind, links[n + i].by, links[n + i].binds>>
    BY <1>4, <2>1
  <2>3. last.hash[n + i][1] = Wired[i] /\ last.hash[n + i][2] = last.by
    BY <1>5
  <2> QED
    BY <2>2, <2>3
<1>7. DOMAIN Wired = 1..Len(Wired)
  BY ChainAssumption, LenProperties
<1> QED
  BY <1>2, <1>5, <1>6, <1>7 DEF GradedByOne, links

(* However runners and crashes interleave in one directory, a chain that   *)
(* verifies ends in the whole sequence of links of one attempt (chain.py   *)
(* "any broken link excludes the run").                                    *)
THEOREM GradedByOneHolds == Spec => []GradedByOne
BY InitInductive, NextInductive, InductiveGraded, PTL DEF Spec

-----------------------------------------------------------------------------
(* Deleting a link of a chain that verifies is found: at either end by the *)
(* kind that is missing there, elsewhere by the next link's predecessor.   *)
LEMMA DeletionFound ==
    ASSUME NEW links \in Seq(LinkSet), NEW m, Intact(links, m),
           NEW i \in 1..Len(links)
    PROVE  ~Intact(RemoveAt(links, i), m)
<1> DEFINE cut == RemoveAt(links, i)
<1>1. SUFFICES ASSUME Intact(cut, m) PROVE FALSE
  OBVIOUS
<1>2. /\ Len(links) \in Nat /\ Len(links) >= 2
      /\ \A j \in 1..Len(links) : links[j] \in LinkSet
      /\ links[1].kind = "genesis"
      /\ \A j \in 2..Len(links) : links[j].kind # "genesis"
      /\ \A j \in 1..Len(links) : links[j].kind = "grade" <=> j = Len(links)
  BY IntactFacts
<1>3. /\ cut \in Seq(LinkSet) /\ Len(cut) = Len(links) - 1
      /\ \A j \in 1..(Len(links) - 1) : cut[j] = IF j < i THEN links[j] ELSE links[j + 1]
  <2> DEFINE s == SubSeq(links, 1, i - 1)
             t == SubSeq(links, i + 1, Len(links))
  <2>1. /\ s \in Seq(LinkSet) /\ Len(s) = i - 1
        /\ \A j \in 1..(i - 1) : s[j] = links[j]
    <3>1. 1 \in Int /\ i - 1 \in Int /\ \A j \in 1..(i - 1) : links[j] \in LinkSet
      BY <1>2
    <3> QED
      BY <1>2, <3>1, SubSeqProperties
  <2>2. /\ t \in Seq(LinkSet) /\ Len(t) = Len(links) - i
        /\ \A j \in 1..(Len(links) - i) : t[j] = links[j + i]
    <3>1. /\ i + 1 \in Int /\ Len(links) \in Int
          /\ \A j \in (i + 1)..Len(links) : links[j] \in LinkSet
      BY <1>2
    <3>2. /\ t \in Seq(LinkSet)
          /\ Len(t) = IF i + 1 <= Len(links) THEN Len(links) - (i + 1) + 1 ELSE 0
          /\ \A j \in 1..(Len(links) - (i + 1) + 1) : t[j] = links[i + 1 + j - 1]
      BY <3>1, SubSeqProperties
    <3>3. ASSUME NEW j \in 1..(Len(links) - i) PROVE t[j] = links[j + i]
      <4>1. j \in 1..(Len(links) - (i + 1) + 1) /\ i + 1 + j - 1 = j + i
        BY <1>2
      <4> QED
        BY <3>2, <4>1
    <3>4. Len(t) = Len(links) - i
      BY <1>2, <3>2
    <3> QED
      BY <3>2, <3>3, <3>4
  <2>3. cut = s \o t
    BY DEF RemoveAt
  <2> HIDE DEF s, t, cut
  <2>4. /\ cut \in Seq(LinkSet) /\ Len(cut) = Len(links) - 1
        /\ \A j \in 1..(Len(links) - 1) : cut[j] = IF j <= i - 1 THEN s[j] ELSE t[j - (i - 1)]
    <3>1. /\ cut \in Seq(LinkSet) /\ Len(cut) = Len(s) + Len(t)
          /\ \A j \in 1..(Len(s) + Len(t)) :
                cut[j] = IF j <= Len(s) THEN s[j] ELSE t[j - Len(s)]
      BY <2>1, <2>2, <2>3, ConcatProperties
    <3>2. Len(s) + Len(t) = Len(links) - 1
      BY <1>2, <2>1, <2>2
    <3> QED
      BY <2>1, <3>1, <3>2
  <2>5. ASSUME NEW j \in 1..(Len(links) - 1)
        PROVE  cut[j] = IF j < i THEN links[j] ELSE links[j + 1]
    <3>1. CASE j < i
      <4>1. j \in 1..(i - 1) /\ j <= i - 1
        BY <1>2, <3>1
      <4> QED
        BY <2>1, <2>4, <3>1, <4>1
    <3>2. CASE ~(j < i)
      <4>1. ~(j <= i - 1) /\ j - (i - 1) \in 1..(Len(links) - i) /\ j - (i - 1) + i = j + 1
        BY <1>2, <3>2
      <4> QED
        BY <2>2, <2>4, <3>2, <4>1
    <3> QED
      BY <3>1, <3>2
  <2> QED
    BY <2>4, <2>5
<1>4. /\ Len(cut) >= 2 /\ cut[1].kind = "genesis" /\ cut[Len(cut)].kind = "grade"
  <2> HIDE DEF cut
  <2> QED
    BY <1>1, <1>3, IntactFacts
<1> HIDE DEF cut
<1>5. CASE i = 1
  <2>1. cut[1] = links[2]
    BY <1>2, <1>3, <1>4, <1>5
  <2> QED
    BY <1>2, <1>4, <2>1
<1>6. CASE i = Len(links)
  <2>1. cut[Len(cut)] = links[Len(links) - 1] /\ Len(links) - 1 \in 1..Len(links)
    BY <1>2, <1>3, <1>4, <1>6
  <2> QED
    BY <1>2, <1>4, <2>1
<1>7. CASE i # 1 /\ i # Len(links)
  <2>1. i \in 2..Len(cut) /\ i - 1 \in 1..(Len(links) - 1) /\ i + 1 \in 2..Len(links)
        /\ i \in 2..Len(links)
    BY <1>2, <1>3, <1>7
  <2>2. cut[i - 1] = links[i - 1] /\ cut[i] = links[i + 1]
    BY <1>2, <1>3, <2>1
  <2>3. cut[i].prev = cut[i - 1].hash
    BY <1>1, <2>1 DEF Intact, Linked
  <2>4. links[i + 1].prev = links[i].hash
    <3>1. links[i + 1].prev = links[i + 1 - 1].hash
      BY <2>1 DEF Intact, Linked
    <3>2. i + 1 - 1 = i
      OBVIOUS
    <3> QED
      BY <3>1, <3>2
  <2>5. links[i - 1].hash # links[i].hash
    <3>1. i - 1 \in 1..(i - 1)
      BY <2>1
    <3> QED
      BY <2>1, <3>1 DEF Intact, Linked
  <2> QED
    BY <2>2, <2>3, <2>4, <2>5
<1> QED
  BY <1>5, <1>6, <1>7

(* So is exchanging two of them.                                           *)
LEMMA ExchangeFound ==
    ASSUME NEW links \in Seq(LinkSet), NEW m, Intact(links, m),
           NEW i \in 1..Len(links), NEW j \in 1..Len(links), i < j
    PROVE  ~Intact([links EXCEPT ![i] = links[j], ![j] = links[i]], m)
<1> DEFINE new == [links EXCEPT ![i] = links[j], ![j] = links[i]]
<1>1. SUFFICES ASSUME Intact(new, m) PROVE FALSE
  OBVIOUS
<1>2. /\ Len(links) \in Nat /\ DOMAIN links = 1..Len(links)
      /\ \A k \in 1..Len(links) : links[k] \in LinkSet
      /\ \A k \in 2..Len(links) : links[k].kind # "genesis"
  BY IntactFacts
<1>3. /\ new \in Seq(LinkSet) /\ Len(new) = Len(links)
      /\ new[i] = links[j]
      /\ \A k \in 1..Len(links) : k # i /\ k # j => new[k] = links[k]
  <2> DEFINE mid == [links EXCEPT ![i] = links[j]]
  <2>1. mid \in Seq(LinkSet) /\ Len(mid) = Len(links)
        /\ \A k \in 1..Len(links) : mid[k] = IF k = i THEN links[j] ELSE links[k]
    BY <1>2, ExceptSeq
  <2>2. new = [mid EXCEPT ![j] = links[i]]
    OBVIOUS
  <2> HIDE DEF mid, new
  <2>3. new \in Seq(LinkSet) /\ Len(new) = Len(mid)
        /\ \A k \in 1..Len(mid) : new[k] = IF k = j THEN links[i] ELSE mid[k]
    BY <1>2, <2>1, <2>2, ExceptSeq
  <2> QED
    BY <2>1, <2>3
<1> HIDE DEF new
<1>4. CASE i = 1
  <2>1. new[1].kind = "genesis"
    BY <1>1, <1>3, IntactFacts
  <2> QED
    BY <1>2, <1>3, <1>4, <2>1
<1>5. CASE i # 1
  <2>1. /\ i \in 2..Len(links) /\ i - 1 \in 1..Len(links) /\ i - 1 # i /\ i - 1 # j
        /\ j \in 2..Len(links) /\ j - 1 \in 2..Len(links) /\ i - 1 \in 1..(j - 1 - 1)
    BY <1>2, <1>5
  <2>2. links[j].prev = links[i - 1].hash
    <3>1. new[i].prev = new[i - 1].hash
      BY <1>1, <1>3, <2>1 DEF Intact, Linked
    <3> QED
      BY <1>3, <2>1, <3>1
  <2>3. links[j].prev = links[j - 1].hash
    BY <2>1 DEF Intact, Linked
  <2>4. links[i - 1].hash # links[j - 1].hash
    BY <2>1 DEF Intact, Linked
  <2> QED
    BY <2>2, <2>3, <2>4
<1> QED
  BY <1>4, <1>5

(* So is altering one: its hash no longer is that of its content.          *)
LEMMA AlterationFound ==
    ASSUME NEW links \in Seq(LinkSet), NEW m, Intact(links, m),
           NEW i \in 1..Len(links), NEW a \in Nat, NEW k \in Kinds,
           <<k, a>> # <<links[i].kind, links[i].by>>
    PROVE  ~Intact([links EXCEPT ![i].by = a, ![i].kind = k], m)
<1> DEFINE l == links[i]
           x == [l EXCEPT !.by = a, !.kind = k]
           new == [links EXCEPT ![i].by = a, ![i].kind = k]
<1>1. SUFFICES ASSUME Intact(new, m) PROVE FALSE
  OBVIOUS
<1>2. Len(links) \in Nat /\ DOMAIN links = 1..Len(links) /\ l \in LinkSet
  BY IntactFacts
<1>3. l \in [kind : Kinds, by : Attempts, prev : Plain, binds : Plain, hash : Hashes]
      /\ l.hash = HashOf(l)
  BY <1>2 DEF LinkSet, WellFormed
<1>4. x.kind = k /\ x.by = a /\ x.prev = l.prev /\ x.binds = l.binds /\ x.hash = l.hash
  BY <1>3
<1>5. new[i] = x /\ Len(new) = Len(links)
  <2>1. new[i] = x /\ DOMAIN new = 1..Len(links)
    BY <1>2
  <2>2. new = [j \in 1..Len(links) |-> new[j]]
    BY <1>2
  <2> HIDE DEF new
  <2> QED
    BY <1>2, <2>1, <2>2
<1>6. new[i].hash = HashOf(new[i])
  <2> HIDE DEF new, l
  <2>1. CASE i = 1
    BY <1>1, <2>1 DEF Intact, GenesisBinds
  <2>2. CASE i # 1
    <3>1. i \in 2..Len(new)
      BY <1>2, <1>5, <2>2
    <3> QED
      BY <1>1, <3>1 DEF Intact, Linked
  <2> QED
    BY <2>1, <2>2
<1>7. Append(l.prev, <<l.kind, l.by, l.binds>>) = Append(l.prev, <<k, a, l.binds>>)
  BY <1>3, <1>4, <1>5, <1>6 DEF HashOf
<1>8. <<l.kind, l.by, l.binds>> = <<k, a, l.binds>>
  <2> DEFINE S == Kinds \X Nat \X Plain
  <2>1. <<l.kind, l.by, l.binds>> \in S /\ <<k, a, l.binds>> \in S
    BY <1>3 DEF Attempts
  <2>2. l.prev \in Seq(S)
    <3>1. Root \in Plain
      BY DEF Root, Plain
    <3>2. Kinds \X Attempts \X {Root} \subseteq S
      BY <3>1 DEF Attempts
    <3>3. l.prev \in Seq(Kinds \X Attempts \X {Root})
      BY <1>3 DEF Plain
    <3> HIDE DEF S
    <3> QED
      BY <3>2, <3>3, SeqMonotonic
  <2> HIDE DEF l, S
  <2> QED
    BY <1>7, <2>1, <2>2, AppendInjective
<1> QED
  BY <1>8

(* Nothing that is done to the links of a chain that verifies goes         *)
(* unnoticed (chain.py "Deletion, reordering, and substitution").          *)
LEMMA InductiveTamperEvident == Inductive => TamperEvident
<1> SUFFICES ASSUME Inductive, Complete PROVE TamperEvident
  BY DEF TamperEvident
<1>1. /\ chain.links \in Seq(LinkSet) /\ Intact(chain.links, manifest.by)
      /\ DOMAIN chain.links = 1..Len(chain.links)
  BY IntactFacts DEF Inductive, Typed, Complete
<1>2. \A a \in 0..MaxAttempts : a \in Nat
  BY ChainAssumption
<1> QED
  BY <1>1, <1>2, DeletionFound, ExchangeFound, AlterationFound DEF TamperEvident

(* Deleting, exchanging or altering links of a chain that verifies is      *)
(* found, in every state runners and crashes can bring about.              *)
THEOREM TamperEvidentHolds == Spec => []TamperEvident
BY InitInductive, NextInductive, InductiveTamperEvident, PTL DEF Spec

=============================================================================
