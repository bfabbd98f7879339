----------------------- MODULE AcquisitionOrder_proofs -----------------------
(***************************************************************************)
(* Theorems of AcquisitionOrder, for every expansion that satisfies its    *)
(* assumptions, every set of verdicts and any number of crashes.           *)
(***************************************************************************)
EXTENDS AcquisitionOrder, TLAPS

ModelOps      == {"run", "wire", "chain"}
PromotionOps  == {"mint", "minted", "receipt", "outcome", "refused"}
LockOps       == {"lock", "notlocked"}

Passed(u) == Acquired(u) /\ validated[AcqCell[u]["T1"]] = "passed"

(* A command works on a cell of its own kind.                              *)
KindInv ==
    /\ proc.op \in ModelOps => EventOf[proc.cell] \in ModelEvents
    /\ proc.op \in PromotionOps => EventOf[proc.cell] = "PROMOTION"
    /\ proc.op \in LockOps => EventOf[proc.cell] = "CAPABILITY_LOCK"

(* It never works on a finished run, and what it goes on writing it has    *)
(* already begun.                                                          *)
BegunInv ==
    /\ proc.op \in ModelOps => run[proc.cell] # "closed"
    /\ proc.op = "chain" => run[proc.cell] = "opened"
    /\ proc.op \in {"mint", "minted"} => arts[Unit] # "absent"
    /\ proc.op = "receipt" => receipt[Unit] # "absent"
    /\ proc.op = "lock" => lock[Unit] # "absent"
    /\ proc.op = "outcome" => outcome[Unit] # "absent"
    /\ proc.op = "notlocked" => notLocked[Unit] # "absent"

ClosedT1Inv ==
    \A u \in Units : run[AcqCell[u]["T1"]] = "closed"
                        => validated[AcqCell[u]["T1"]] # "none"

(* What is minted or consumed comes from a passed acquisition, what is     *)
(* refused from a failed one.                                              *)
ProvenanceInv ==
    /\ \A u \in Units :
          /\ arts[u] # "absent" \/ receipt[u] # "absent" \/ lock[u] # "absent"
                => Passed(u)
          /\ outcome[u] # "absent" \/ notLocked[u] # "absent" => AcquisitionFailed(u)
    /\ \A c \in Cell : CapabilityCell(c) =>
          /\ run[c] # "absent" => Passed(UnitOf[c])
          /\ proc.op \in ModelOps /\ proc.cell = c => Passed(UnitOf[c])

Typed == TypeOK /\ KindInv

Inductive == Typed /\ BegunInv /\ ClosedT1Inv /\ ProvenanceInv

-----------------------------------------------------------------------------
(* Every acquisition event of a capability universe is a cell, and that    *)
(* cell names the event and the universe (order.py expected_event).        *)
LEMMA AcqCellFacts ==
    ASSUME NEW u \in Units, NEW e \in AcqEvents
    PROVE  /\ AcqCell[u][e] \in Cell
           /\ EventOf[AcqCell[u][e]] = e
           /\ UnitOf[AcqCell[u][e]] = u
BY UniqueAssumption

(* A cell of an acquisition event belongs to a capability universe.        *)
LEMMA AcqUnit ==
    ASSUME NEW c \in Cell, EventOf[c] \in AcqEvents
    PROVE  UnitOf[c] \in Units
BY OrderAssumption

(* A governance command works on a capability universe.                    *)
LEMMA GovernedUnit ==
    ASSUME Typed, proc.op \in PromotionOps \cup LockOps
    PROVE  proc.cell \in Cell /\ Unit \in Units
<1>1. proc.cell \in Cell
  BY DEF Typed, TypeOK, Idle, PromotionOps, LockOps
<1>2. EventOf[proc.cell] \in AcqEvents
  BY DEF Typed, KindInv, PromotionOps, LockOps, AcqEvents
<1> QED
  BY <1>1, <1>2, AcqUnit DEF Unit

(* A runner's command works on a cell.                                     *)
LEMMA RunnerCell ==
    ASSUME Typed, proc.op \in ModelOps
    PROVE  proc.cell \in Cell
BY DEF Typed, TypeOK, Idle, ModelOps

(* The initial state is well typed.                                        *)
LEMMA InitTyped == Init => Typed
BY OrderAssumption DEF Init, Typed, TypeOK, KindInv, RunState, FileState,
   Validation, Idle, ModelOps, PromotionOps, LockOps

(* Every step keeps the state well typed.                                  *)
LEMMA NextTyped == Typed /\ [Next]_vars => Typed'
<1> SUFFICES ASSUME Typed, [Next]_vars PROVE Typed'
  OBVIOUS
<1> USE OrderAssumption DEF TypeOK, KindInv, RunState, FileState, Validation,
        Commands, Idle, Doing, evidence, governance, ModelOps, PromotionOps, LockOps
<1>1. ASSUME NEW c \in Cell, StartRun(c) PROVE Typed'
  BY <1>1 DEF Typed, StartRun
<1>2. ASSUME NEW u \in Units, RecordNotPromoted(u) PROVE Typed'
  BY <1>2, AcqCellFacts DEF Typed, RecordNotPromoted, AcqEvents
<1>3. ASSUME NEW u \in Units, OpenNotLocked(u) PROVE Typed'
  BY <1>3, AcqCellFacts DEF Typed, OpenNotLocked, AcqEvents
<1>4. ASSUME NEW u \in Units, StartMint(u) PROVE Typed'
  BY <1>4, AcqCellFacts DEF Typed, StartMint, AcqEvents
<1>5. ASSUME NEW u \in Units, StartLock(u) PROVE Typed'
  BY <1>5, AcqCellFacts DEF Typed, StartLock, AcqEvents
<1>6. CASE WriteManifest
  BY <1>6, RunnerCell DEF Typed, WriteManifest
<1>7. CASE OpenChain
  BY <1>7, RunnerCell DEF Typed, OpenChain
<1>8. CASE RejectChain \/ AbandonRun \/ RefuseManifest \/ RefuseReceipt
  BY <1>8 DEF Typed, RejectChain, AbandonRun, RefuseManifest, RefuseReceipt
<1>9. CASE CloseChain
  BY <1>9, RunnerCell DEF Typed, CloseChain, ValidationResults
<1>10. CASE FinishOutcome
  BY <1>10, GovernedUnit DEF Typed, FinishOutcome
<1>11. CASE ContinueNotLocked
  BY <1>11, <1>3, GovernedUnit DEF ContinueNotLocked
<1>12. CASE FinishNotLocked
  BY <1>12, GovernedUnit DEF Typed, FinishNotLocked
<1>13. CASE MintFile \/ FinishMint
  BY <1>13, GovernedUnit DEF Typed, MintFile, FinishMint
<1>14. CASE OpenReceipt
  BY <1>14, GovernedUnit DEF Typed, OpenReceipt
<1>15. CASE FinishReceipt
  BY <1>15, GovernedUnit DEF Typed, FinishReceipt
<1>16. CASE FinishLock
  BY <1>16, GovernedUnit DEF Typed, FinishLock
<1>17. CASE Crash
  BY <1>17 DEF Typed, Crash
<1>18. CASE UNCHANGED vars
  BY <1>18 DEF Typed, vars, Unit
<1> QED
  BY <1>1, <1>2, <1>3, <1>4, <1>5, <1>6, <1>7, <1>8, <1>9, <1>10, <1>11, <1>12,
     <1>13, <1>14, <1>15, <1>16, <1>17, <1>18
     DEF Next, Start, Proceed, RecordNotLocked

(* The state is always well typed, whatever crashes and refusals occur.    *)
THEOREM TypeInvariant == Spec => []TypeOK
<1>1. Typed => TypeOK
  BY DEF Typed
<1> QED
  BY <1>1, InitTyped, NextTyped, PTL DEF Spec

-----------------------------------------------------------------------------
(* A run that passed the gates of the runner is not finished: its cell is  *)
(* authorized, so not progress-valid, and not refused as not evaluable.    *)
LEMMA StartedUnfinished ==
    ASSUME Typed, NEW c \in Cell, StartRun(c)
    PROVE  run[c] # "closed"
BY DEF StartRun, Authorized, Valid, ProgressValid, LocalState, RunCellState,
   ModelEvents, DownstreamEvents

(* What a command goes on writing stays begun.                             *)
LEMMA NextBegun == Typed /\ BegunInv /\ [Next]_vars => BegunInv'
<1> SUFFICES ASSUME Typed, BegunInv, [Next]_vars PROVE BegunInv'
  OBVIOUS
<1> USE DEF BegunInv, Idle, Doing, evidence, governance, ModelOps, Unit
<1>1. ASSUME NEW c \in Cell, StartRun(c) PROVE BegunInv'
  BY <1>1, StartedUnfinished DEF StartRun
<1>2. ASSUME NEW u \in Units, RecordNotPromoted(u) PROVE BegunInv'
  BY <1>2, AcqCellFacts DEF Typed, TypeOK, RecordNotPromoted, AcqEvents
<1>3. ASSUME NEW u \in Units, OpenNotLocked(u) PROVE BegunInv'
  BY <1>3, AcqCellFacts DEF Typed, TypeOK, OpenNotLocked, AcqEvents
<1>4. ASSUME NEW u \in Units, StartMint(u) PROVE BegunInv'
  BY <1>4, AcqCellFacts DEF Typed, TypeOK, StartMint, AcqEvents
<1>5. ASSUME NEW u \in Units, StartLock(u) PROVE BegunInv'
  BY <1>5, AcqCellFacts DEF Typed, TypeOK, StartLock, AcqEvents
<1>6. CASE WriteManifest
  BY <1>6, RunnerCell DEF Typed, TypeOK, WriteManifest
<1>7. CASE OpenChain
  BY <1>7, RunnerCell DEF Typed, TypeOK, OpenChain
<1>8. CASE RejectChain \/ AbandonRun \/ RefuseManifest \/ RefuseReceipt \/ Crash
  BY <1>8 DEF RejectChain, AbandonRun, RefuseManifest, RefuseReceipt, Crash
<1>9. CASE CloseChain \/ FinishNotLocked \/ FinishReceipt \/ FinishLock
  BY <1>9 DEF CloseChain, FinishNotLocked, FinishReceipt, FinishLock
<1>10. CASE FinishOutcome
  BY <1>10 DEF FinishOutcome
<1>11. CASE ContinueNotLocked
  BY <1>11, <1>3, GovernedUnit DEF ContinueNotLocked, PromotionOps
<1>12. CASE MintFile \/ FinishMint
  BY <1>12, GovernedUnit DEF MintFile, FinishMint, Typed, TypeOK, PromotionOps
<1>13. CASE OpenReceipt
  BY <1>13, GovernedUnit DEF OpenReceipt, Typed, TypeOK, PromotionOps
<1>14. CASE UNCHANGED vars
  BY <1>14 DEF vars
<1> QED
  BY <1>1, <1>2, <1>3, <1>4, <1>5, <1>6, <1>7, <1>8, <1>9, <1>10, <1>11, <1>12,
     <1>13, <1>14 DEF Next, Start, Proceed, RecordNotLocked

(* No step changes the evidence of a finished run.                         *)
LEMMA EvidenceFrozen ==
    ASSUME Typed, BegunInv, [Next]_vars, NEW c \in Cell, run[c] = "closed"
    PROVE  run'[c] = "closed" /\ verdict'[c] = verdict[c] /\ validated'[c] = validated[c]
<1> USE DEF evidence, governance
<1>1. CASE WriteManifest
  BY <1>1, RunnerCell DEF WriteManifest, Typed, TypeOK, BegunInv, ModelOps
<1>2. CASE OpenChain
  BY <1>2, RunnerCell DEF OpenChain, Typed, TypeOK, BegunInv, ModelOps
<1>3. CASE CloseChain
  BY <1>3, RunnerCell DEF CloseChain, Typed, TypeOK, BegunInv, ModelOps
<1>4. CASE UNCHANGED evidence
  BY <1>4
<1>5. ASSUME NEW d \in Cell, StartRun(d) PROVE UNCHANGED evidence
  BY <1>5 DEF StartRun
<1>6. ASSUME NEW u \in Units,
             RecordNotPromoted(u) \/ OpenNotLocked(u) \/ StartMint(u) \/ StartLock(u)
      PROVE  UNCHANGED evidence
  BY <1>6 DEF RecordNotPromoted, OpenNotLocked, StartMint, StartLock
<1>7. CASE \/ RejectChain \/ AbandonRun \/ RefuseManifest \/ RefuseReceipt \/ Crash
          \/ FinishOutcome \/ ContinueNotLocked \/ FinishNotLocked \/ MintFile \/ FinishMint
          \/ OpenReceipt \/ FinishReceipt \/ FinishLock \/ UNCHANGED vars
  BY <1>4, <1>7 DEF RejectChain, AbandonRun, RefuseManifest, RefuseReceipt, Crash,
     FinishOutcome, ContinueNotLocked, OpenNotLocked, FinishNotLocked, MintFile, FinishMint,
     OpenReceipt, FinishReceipt, FinishLock, vars
<1> QED
  BY <1>1, <1>2, <1>3, <1>4, <1>5, <1>6, <1>7 DEF Next, Start, Proceed, RecordNotLocked

(* WrittenOnce, one step at a time.                                        *)
LEMMA FilesKept ==
    ASSUME Typed, BegunInv, [Next]_vars, NEW u \in Units
    PROVE  /\ arts[u] = "written" => arts'[u] = "written"
           /\ receipt[u] = "written" => receipt'[u] = "written"
           /\ outcome[u] = "written" => outcome'[u] = "written"
           /\ lock[u] = "written" => lock'[u] = "written"
           /\ notLocked[u] = "written" => notLocked'[u] = "written"
<1> DEFINE Kept == /\ arts[u] = "written" => arts'[u] = "written"
                   /\ receipt[u] = "written" => receipt'[u] = "written"
                   /\ outcome[u] = "written" => outcome'[u] = "written"
                   /\ lock[u] = "written" => lock'[u] = "written"
                   /\ notLocked[u] = "written" => notLocked'[u] = "written"
<1> USE DEF evidence, governance, Typed, TypeOK
<1>1. ASSUME NEW c \in Cell, StartRun(c) PROVE Kept
  BY <1>1 DEF StartRun
<1>2. ASSUME NEW v \in Units,
             RecordNotPromoted(v) \/ OpenNotLocked(v) \/ StartMint(v) \/ StartLock(v)
      PROVE  Kept
  BY <1>2 DEF RecordNotPromoted, OpenNotLocked, MayRecordNotLocked, StartMint, StartLock, Lockable
<1>3. CASE \/ WriteManifest \/ OpenChain \/ RejectChain \/ CloseChain \/ AbandonRun
          \/ RefuseManifest \/ RefuseReceipt \/ Crash \/ UNCHANGED vars
  BY <1>3 DEF WriteManifest, OpenChain, RejectChain, CloseChain, AbandonRun,
     RefuseManifest, RefuseReceipt, Crash, vars
<1>4. CASE FinishOutcome \/ FinishNotLocked \/ MintFile \/ FinishMint \/ FinishReceipt \/ FinishLock
  BY <1>4 DEF FinishOutcome, FinishNotLocked, MintFile, FinishMint, FinishReceipt, FinishLock
<1>5. CASE OpenReceipt
  BY <1>5 DEF OpenReceipt
<1>6. CASE ContinueNotLocked
  BY <1>6, <1>2, GovernedUnit DEF ContinueNotLocked, PromotionOps
<1> QED
  BY <1>1, <1>2, <1>3, <1>4, <1>5, <1>6 DEF Next, Start, Proceed, RecordNotLocked

(* The evidence of a finished run and every finished governance file are   *)
(* never changed again (emit_* and lock.promote write once; the runner     *)
(* refuses a duplicate cell).                                              *)
THEOREM EvidenceWrittenOnce == Spec => WrittenOnce
<1> DEFINE I == Typed /\ BegunInv
<1>1. Init => I
  BY InitTyped DEF Init, BegunInv, Idle, ModelOps
<1>2. I /\ [Next]_vars => I'
  BY NextTyped, NextBegun
<1> DEFINE W ==
       /\ \A c \in Cell : run[c] = "closed" =>
             /\ run'[c] = "closed" /\ verdict'[c] = verdict[c]
             /\ validated'[c] = validated[c]
       /\ \A u \in Units :
             /\ arts[u] = "written" => arts'[u] = "written"
             /\ receipt[u] = "written" => receipt'[u] = "written"
             /\ outcome[u] = "written" => outcome'[u] = "written"
             /\ lock[u] = "written" => lock'[u] = "written"
             /\ notLocked[u] = "written" => notLocked'[u] = "written"
<1>3. I /\ [Next]_vars => [W]_vars
  BY EvidenceFrozen, FilesKept
<1> QED
  <2> HIDE DEF I, W
  <2>1. Spec => [][W]_vars
    BY <1>1, <1>2, <1>3, PTL DEF Spec
  <2> QED
    BY <2>1 DEF WrittenOnce, W

-----------------------------------------------------------------------------
(* A T1 that is finished carries its candidate-validation event.           *)
LEMMA NextClosedT1 == Typed /\ BegunInv /\ ClosedT1Inv /\ [Next]_vars => ClosedT1Inv'
<1> SUFFICES ASSUME Typed, BegunInv, ClosedT1Inv, [Next]_vars,
                    NEW u \in Units, run'[AcqCell[u]["T1"]] = "closed"
             PROVE  validated'[AcqCell[u]["T1"]] # "none"
  BY DEF ClosedT1Inv
<1> DEFINE c == AcqCell[u]["T1"]
<1>0. c \in Cell /\ EventOf[c] = "T1"
  BY AcqCellFacts DEF AcqEvents
<1>1. CASE run[c] = "closed"
  BY <1>0, <1>1, EvidenceFrozen DEF ClosedT1Inv
<1>2. CASE run[c] # "closed"
  <2>1. CloseChain
    BY <1>0, <1>2, RunnerCell DEF Next, Start, Proceed, RecordNotLocked, vars, evidence,
       governance, StartRun, RecordNotPromoted, OpenNotLocked, StartMint, StartLock,
       WriteManifest, OpenChain, RejectChain, AbandonRun, RefuseManifest, RefuseReceipt,
       Crash, FinishOutcome, ContinueNotLocked, FinishNotLocked, MintFile, FinishMint, OpenReceipt,
       FinishReceipt, FinishLock, Typed, TypeOK, ModelOps
  <2>2. proc.cell = c
    BY <1>0, <1>2, <2>1, RunnerCell DEF CloseChain, Typed, TypeOK
  <2> QED
    BY <1>0, <2>1, <2>2 DEF CloseChain, ValidationResults, Typed, TypeOK
<1> QED
  BY <1>1, <1>2

(* The result of an acquisition is final.                                  *)
LEMMA ResultFinal ==
    ASSUME Typed, BegunInv, [Next]_vars, NEW u \in Units
    PROVE  (Passed(u) => Passed(u)') /\ (AcquisitionFailed(u) => AcquisitionFailed(u)')
BY AcqCellFacts, EvidenceFrozen DEF Passed, AcquisitionFailed, Acquired, AcqEvents

(* For a cell that carries a model run of an acquisition, progress-valid   *)
(* means finished.                                                         *)
LEMMA AcquisitionValid ==
    ASSUME Typed, NEW c \in Cell, EventOf[c] \in {"T0", "T1"}
    PROVE  Valid(c) <=> run[c] = "closed"
BY DEF Typed, TypeOK, RunState, Valid, ProgressValid, LocalState, RunCellState, NotEvaluable,
   CapabilityCell, DownstreamEvents

(* Behind an intact prefix that reaches past its T1, a universe has been   *)
(* acquired.                                                               *)
LEMMA PrefixAcquires ==
    ASSUME Typed, NEW u \in Units, NEW c \in Cell,
           AcqCell[u]["T1"] < c, PrefixDone(c)
    PROVE  Acquired(u)
<1> DEFINE t0 == AcqCell[u]["T0"]
           t1 == AcqCell[u]["T1"]
<1>1. t0 \in Cell /\ EventOf[t0] = "T0" /\ t1 \in Cell /\ EventOf[t1] = "T1"
  BY AcqCellFacts DEF AcqEvents
<1>2. t0 < t1
  BY SequenceAssumption
<1>3. t0 \in 1..(c - 1) /\ t1 \in 1..(c - 1)
  BY <1>1, <1>2, OrderAssumption DEF Cell
<1> QED
  BY <1>1, <1>3, AcquisitionValid DEF PrefixDone, Acquired

(* The runner starts a capability cell only when its own acquisition       *)
(* passed: the walk has finished it, and a failed one is refused.          *)
LEMMA StartedPassed ==
    ASSUME Typed, ClosedT1Inv, NEW c \in Cell, CapabilityCell(c), StartRun(c)
    PROVE  Passed(UnitOf[c])
<1> DEFINE u == UnitOf[c]
<1>1. u \in Units /\ EventOf[c] \in DownstreamEvents
  BY DEF CapabilityCell
<1>2. AcqCell[u]["T1"] < c
  <2>1. AcqCell[u]["CAPABILITY_LOCK"] < c
    BY <1>1, SequenceAssumption DEF SameFamily
  <2>2. /\ AcqCell[u]["T1"] < AcqCell[u]["PROMOTION"]
        /\ AcqCell[u]["PROMOTION"] < AcqCell[u]["CAPABILITY_LOCK"]
    BY <1>1, SequenceAssumption
  <2>3. /\ AcqCell[u]["T1"] \in Nat /\ AcqCell[u]["PROMOTION"] \in Nat
        /\ AcqCell[u]["CAPABILITY_LOCK"] \in Nat /\ c \in Nat
    BY <1>1, AcqCellFacts, OrderAssumption DEF AcqEvents, Cell
  <2> QED
    BY <2>1, <2>2, <2>3
<1>3. Acquired(u)
  BY <1>1, <1>2, PrefixAcquires DEF StartRun, Authorized
<1>4. ~AcquisitionFailed(u)
  BY DEF StartRun, NotEvaluable
<1>5. AcqCell[u]["T1"] \in Cell
  BY <1>1, AcqCellFacts DEF AcqEvents
<1> QED
  BY <1>1, <1>3, <1>4, <1>5
     DEF Passed, AcquisitionFailed, Acquired, ClosedT1Inv, Typed, TypeOK, Validation

(* A mint starts only from an acquisition that passed.                     *)
LEMMA MintedPassed ==
    ASSUME Typed, NEW u \in Units, Promotable(u)
    PROVE  Passed(u)
<1>1. \A e \in {"T0", "T1"} : run[AcqCell[u][e]] = "closed"
  <2> SUFFICES ASSUME NEW e \in {"T0", "T1"} PROVE run[AcqCell[u][e]] = "closed"
    OBVIOUS
  <2>1. AcqCell[u][e] \in Cell /\ EventOf[AcqCell[u][e]] = e
    BY AcqCellFacts DEF AcqEvents
  <2> QED
    BY <2>1, AcquisitionValid DEF Promotable, CellComplete, Valid, ProgressValid
<1> QED
  BY <1>1 DEF Passed, Acquired, Promotable

(* A lock starts only from a promotion that is complete, so from an        *)
(* acquisition that passed.                                                *)
LEMMA LockedPassed ==
    ASSUME NEW u \in Units, StartLock(u)
    PROVE  Passed(u)
<1> DEFINE c == AcqCell[u]["PROMOTION"]
<1>1. EventOf[c] = "PROMOTION" /\ UnitOf[c] = u
  BY AcqCellFacts DEF AcqEvents
<1>2. PromotionState(u) = "COMPLETE"
  BY <1>1 DEF StartLock, CellComplete, LocalState, NotEvaluable, CapabilityCell, DownstreamEvents
<1> QED
  BY <1>2 DEF PromotionState, Provenance, Passed

(* A NOT-LOCKED record starts only from a failed acquisition.              *)
LEMMA NotLockedFailed ==
    ASSUME NEW u \in Units, OpenNotLocked(u)
    PROVE  AcquisitionFailed(u)
BY DEF OpenNotLocked, MayRecordNotLocked, PromotionState, RefusalStands

(* Files of a universe are first written by the commands of its own.       *)
LEMMA NextMinted ==
    ASSUME Typed, BegunInv, ClosedT1Inv, ProvenanceInv, [Next]_vars, NEW u \in Units,
           arts'[u] # "absent" \/ receipt'[u] # "absent" \/ lock'[u] # "absent"
    PROVE  Passed(u)'
<1> USE DEF evidence, governance
<1>1. CASE arts[u] # "absent" \/ receipt[u] # "absent" \/ lock[u] # "absent"
  BY <1>1, ResultFinal DEF ProvenanceInv
<1>2. CASE arts[u] = "absent" /\ receipt[u] = "absent" /\ lock[u] = "absent"
  <2> SUFFICES Passed(u)
    BY ResultFinal
  <2>1. ASSUME NEW v \in Units, StartMint(v) PROVE Passed(u)
    BY <1>2, <2>1, MintedPassed DEF StartMint, Typed, TypeOK
  <2>2. ASSUME NEW v \in Units, StartLock(v) PROVE Passed(u)
    BY <1>2, <2>2, LockedPassed DEF StartLock, Typed, TypeOK
  <2>3. CASE MintFile \/ FinishMint \/ FinishReceipt \/ FinishLock
    BY <1>2, <2>3 DEF MintFile, FinishMint, FinishReceipt, FinishLock, BegunInv, Typed, TypeOK
  <2>4. CASE OpenReceipt
    BY <1>2, <2>4 DEF OpenReceipt, BegunInv, Typed, TypeOK
  <2>5. ASSUME NEW v \in Units, RecordNotPromoted(v) \/ OpenNotLocked(v) PROVE FALSE
    BY <1>2, <2>5 DEF RecordNotPromoted, OpenNotLocked
  <2>6. ASSUME NEW c \in Cell, StartRun(c) PROVE FALSE
    BY <1>2, <2>6 DEF StartRun
  <2>7. CASE \/ WriteManifest \/ OpenChain \/ RejectChain \/ CloseChain \/ AbandonRun
            \/ RefuseManifest \/ RefuseReceipt \/ Crash \/ UNCHANGED vars
            \/ FinishOutcome \/ FinishNotLocked \/ ContinueNotLocked
    BY <1>2, <2>7 DEF WriteManifest, OpenChain, RejectChain, CloseChain, AbandonRun,
       RefuseManifest, RefuseReceipt, Crash, vars, FinishOutcome, FinishNotLocked,
       ContinueNotLocked, OpenNotLocked
  <2> QED
    BY <2>1, <2>2, <2>3, <2>4, <2>5, <2>6, <2>7 DEF Next, Start, Proceed, RecordNotLocked
<1> QED
  BY <1>1, <1>2

(* A refusal record, kept or newly made, is beside a failed acquisition.   *)
LEMMA NextRefused ==
    ASSUME Typed, BegunInv, ProvenanceInv, [Next]_vars, NEW u \in Units,
           outcome'[u] # "absent" \/ notLocked'[u] # "absent"
    PROVE  AcquisitionFailed(u)'
<1> USE DEF evidence, governance
<1>1. CASE outcome[u] # "absent" \/ notLocked[u] # "absent"
  BY <1>1, ResultFinal DEF ProvenanceInv
<1>2. CASE outcome[u] = "absent" /\ notLocked[u] = "absent"
  <2> SUFFICES AcquisitionFailed(u)
    BY ResultFinal
  <2>1. ASSUME NEW v \in Units, RecordNotPromoted(v) PROVE AcquisitionFailed(u)
    BY <1>2, <2>1 DEF RecordNotPromoted, Typed, TypeOK
  <2>2. ASSUME NEW v \in Units, OpenNotLocked(v) PROVE AcquisitionFailed(u)
    BY <1>2, <2>2, NotLockedFailed DEF OpenNotLocked, Typed, TypeOK
  <2>3. CASE ContinueNotLocked
    BY <2>2, <2>3, GovernedUnit DEF ContinueNotLocked, PromotionOps
  <2>4. CASE FinishOutcome \/ FinishNotLocked
    BY <1>2, <2>4 DEF FinishOutcome, FinishNotLocked, BegunInv, Typed, TypeOK
  <2>5. ASSUME NEW v \in Units, StartMint(v) \/ StartLock(v) PROVE FALSE
    BY <1>2, <2>5 DEF StartMint, StartLock
  <2>6. ASSUME NEW c \in Cell, StartRun(c) PROVE FALSE
    BY <1>2, <2>6 DEF StartRun
  <2>7. CASE \/ WriteManifest \/ OpenChain \/ RejectChain \/ CloseChain \/ AbandonRun
            \/ RefuseManifest \/ RefuseReceipt \/ Crash \/ UNCHANGED vars
            \/ MintFile \/ FinishMint \/ OpenReceipt \/ FinishReceipt \/ FinishLock
    BY <1>2, <2>7 DEF WriteManifest, OpenChain, RejectChain, CloseChain, AbandonRun,
       RefuseManifest, RefuseReceipt, Crash, vars, MintFile, FinishMint, OpenReceipt,
       FinishReceipt, FinishLock
  <2> QED
    BY <2>1, <2>2, <2>3, <2>4, <2>5, <2>6, <2>7 DEF Next, Start, Proceed, RecordNotLocked
<1> QED
  BY <1>1, <1>2

(* A capability cell is run only on behalf of a passed acquisition.        *)
LEMMA NextConsumed ==
    ASSUME Typed, BegunInv, ClosedT1Inv, ProvenanceInv, [Next]_vars,
           NEW c \in Cell, CapabilityCell(c),
           run'[c] # "absent" \/ (proc'.op \in ModelOps /\ proc'.cell = c)
    PROVE  Passed(UnitOf[c])'
<1> USE DEF evidence, governance, Doing, Idle, ModelOps
<1>0. UnitOf[c] \in Units
  BY DEF CapabilityCell
<1>1. CASE run[c] # "absent" \/ (proc.op \in ModelOps /\ proc.cell = c)
  BY <1>0, <1>1, ResultFinal DEF ProvenanceInv
<1>2. CASE run[c] = "absent" /\ ~(proc.op \in ModelOps /\ proc.cell = c)
  <2> SUFFICES Passed(UnitOf[c])
    BY <1>0, ResultFinal
  <2>1. ASSUME NEW d \in Cell, StartRun(d) PROVE Passed(UnitOf[c])
    BY <1>2, <2>1, StartedPassed DEF StartRun
  <2>2. CASE WriteManifest \/ OpenChain \/ CloseChain
    BY <1>2, <2>2 DEF WriteManifest, OpenChain, CloseChain, Typed, TypeOK
  <2>3. ASSUME NEW u \in Units, \/ RecordNotPromoted(u) \/ OpenNotLocked(u)
                                \/ StartMint(u) \/ StartLock(u)
        PROVE FALSE
    BY <1>2, <2>3 DEF RecordNotPromoted, OpenNotLocked, StartMint, StartLock
  <2>4. CASE \/ RejectChain \/ AbandonRun \/ RefuseManifest \/ RefuseReceipt \/ Crash
            \/ UNCHANGED vars \/ FinishOutcome \/ FinishNotLocked \/ ContinueNotLocked
            \/ MintFile \/ FinishMint \/ OpenReceipt \/ FinishReceipt \/ FinishLock
    BY <1>2, <2>4 DEF RejectChain, AbandonRun, RefuseManifest, RefuseReceipt, Crash, vars,
       FinishOutcome, FinishNotLocked, ContinueNotLocked, OpenNotLocked, MintFile, FinishMint,
       OpenReceipt, FinishReceipt, FinishLock
  <2> QED
    BY <2>1, <2>2, <2>3, <2>4 DEF Next, Start, Proceed, RecordNotLocked
<1> QED
  BY <1>1, <1>2

(* The provenance of every governance file is preserved.                   *)
LEMMA NextProvenance ==
    Typed /\ BegunInv /\ ClosedT1Inv /\ ProvenanceInv /\ [Next]_vars => ProvenanceInv'
BY NextMinted, NextRefused, NextConsumed DEF ProvenanceInv, CapabilityCell

(* Inductive is an invariant of the specification.                         *)
LEMMA InductiveInvariant == Spec => []Inductive
<1>1. Init => Inductive
  BY InitTyped, AcqCellFacts
     DEF Init, Inductive, BegunInv, ClosedT1Inv, ProvenanceInv, Idle, ModelOps, AcqEvents
<1>2. Inductive /\ [Next]_vars => Inductive'
  BY NextTyped, NextBegun, NextClosedT1, NextProvenance DEF Inductive
<1> QED
  BY <1>1, <1>2, PTL DEF Spec

(* A validly failed acquisition authorizes nothing, and a refusal is       *)
(* recorded for no other (order.py "authorizes nothing").                  *)
THEOREM FailureAuthorizesNothingHolds == Spec => []FailureAuthorizesNothing
<1>1. Inductive => FailureAuthorizesNothing
  <2> SUFFICES ASSUME Inductive, NEW u \in Units
               PROVE  /\ AcquisitionFailed(u) =>
                            /\ arts[u] = "absent" /\ receipt[u] = "absent"
                            /\ lock[u] = "absent"
                            /\ \A c \in Cell : CapabilityCell(c) /\ UnitOf[c] = u
                                                => run[c] = "absent"
                      /\ outcome[u] # "absent" \/ notLocked[u] # "absent"
                            => AcquisitionFailed(u)
    BY DEF FailureAuthorizesNothing
  <2>1. ~(Passed(u) /\ AcquisitionFailed(u))
    BY DEF Passed, AcquisitionFailed
  <2> QED
    BY <2>1 DEF Inductive, ProvenanceInv
<1> QED
  BY <1>1, InductiveInvariant, PTL
=============================================================================
