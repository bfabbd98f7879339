----------------------- MODULE AcquisitionWalk_proofs -----------------------
(***************************************************************************)
(* The prefix walk of AcquisitionOrder never goes back: a cell that is     *)
(* progress-valid stays so, with the same terminal state.  From that, no   *)
(* file is ever written out of order, capabilities are consumed only under *)
(* their own lock, and the ledger the validators re-derive implements      *)
(* ProgressLedger.                                                         *)
(***************************************************************************)
EXTENDS AcquisitionOrder_proofs

(* A NOT-LOCKED record is only ever beside a finished NOT-PROMOTED one,    *)
(* and what is minted comes from two runs that shipped.                    *)
RecordInv ==
    \A u \in Units :
        /\ notLocked[u] # "absent" => outcome[u] = "written"
        /\ arts[u] # "absent" => \A e \in {"T0", "T1"} : verdict[AcqCell[u][e]] = "ship"

(* Everything written, or about to be, is behind an intact prefix.         *)
OrderInv ==
    /\ \A c \in Cell : Touched(c) => PrefixDone(c)
    /\ proc # Idle => PrefixDone(proc.cell)

Strong == Inductive /\ RecordInv /\ OrderInv

-----------------------------------------------------------------------------
(* In a reachable state the four terminal governance states are told by    *)
(* the files of their own universe alone.                                  *)
PromotionFacts ==
    \A u \in Units :
        /\ PromotionState(u) = "COMPLETE"
              <=> receipt[u] = "written" /\ arts[u] = "written" /\ Passed(u)
        /\ PromotionState(u) = "NOT-PROMOTED" <=> AcquisitionFailed(u)

LockFacts ==
    \A u \in Units :
        /\ LockState(u) = "COMPLETE"
              <=> lock[u] = "written" /\ PromotionState(u) = "COMPLETE"
        /\ LockState(u) = "NOT-LOCKED" <=> notLocked[u] = "written"

(* What each derived promotion state says of the files.                    *)
LEMMA PromotionStates == Inductive => PromotionFacts
<1> SUFFICES ASSUME Inductive, NEW u \in Units
             PROVE  /\ PromotionState(u) = "COMPLETE"
                          <=> receipt[u] = "written" /\ arts[u] = "written" /\ Passed(u)
                    /\ PromotionState(u) = "NOT-PROMOTED" <=> AcquisitionFailed(u)
  BY DEF PromotionFacts
<1>1. ~(Passed(u) /\ AcquisitionFailed(u))
  BY DEF Passed, AcquisitionFailed
<1>2. /\ receipt[u] # "absent" \/ lock[u] # "absent" => Passed(u)
      /\ outcome[u] # "absent" => AcquisitionFailed(u)
  BY DEF Inductive, ProvenanceInv
<1>3. CASE NotPromotedRecorded(u)
  BY <1>1, <1>2, <1>3 DEF PromotionState, RefusalStands, NotPromotedRecorded
<1>4. CASE ~NotPromotedRecorded(u) /\ AcquisitionFailed(u)
  BY <1>1, <1>4 DEF PromotionState, RefusalStands
<1>5. CASE ~NotPromotedRecorded(u) /\ ~AcquisitionFailed(u)
  BY <1>2, <1>5 DEF PromotionState, Provenance, Passed
<1> QED
  BY <1>3, <1>4, <1>5

(* What each derived lock state says of the files.                         *)
LEMMA LockStates == Inductive /\ RecordInv => LockFacts
<1> SUFFICES ASSUME Inductive, RecordInv, NEW u \in Units
             PROVE  /\ LockState(u) = "COMPLETE"
                          <=> lock[u] = "written" /\ PromotionState(u) = "COMPLETE"
                    /\ LockState(u) = "NOT-LOCKED" <=> notLocked[u] = "written"
  BY DEF LockFacts
<1>1. ~(Passed(u) /\ AcquisitionFailed(u))
  BY DEF Passed, AcquisitionFailed
<1>2. /\ lock[u] # "absent" => Passed(u)
      /\ notLocked[u] # "absent" => AcquisitionFailed(u) /\ outcome[u] = "written"
  BY DEF Inductive, ProvenanceInv, RecordInv
<1>3. CASE notLocked[u] = "written"
  BY <1>1, <1>2, <1>3, PromotionStates DEF LockState, LockRefusalStands, NotPromotedRecorded, PromotionFacts
<1>4. CASE notLocked[u] # "written"
  BY <1>1, <1>2, <1>4, PromotionStates DEF LockState, LockRefusalStands, PromotionFacts
<1> QED
  BY <1>3, <1>4

(* RecordInv is preserved.                                                 *)
LEMMA NextRecord == Inductive /\ RecordInv /\ [Next]_vars => RecordInv'
<1> SUFFICES ASSUME Inductive, RecordInv, [Next]_vars, NEW u \in Units
             PROVE  /\ notLocked'[u] # "absent" => outcome'[u] = "written"
                    /\ arts'[u] # "absent" =>
                          \A e \in {"T0", "T1"} : verdict'[AcqCell[u][e]] = "ship"
  BY DEF RecordInv
<1> USE DEF Inductive, evidence, governance
<1>1. ASSUME notLocked'[u] # "absent" PROVE outcome'[u] = "written"
  <2> SUFFICES outcome[u] = "written"
    BY FilesKept
  <2>1. CASE notLocked[u] # "absent"
    BY <2>1 DEF RecordInv
  <2>2. CASE notLocked[u] = "absent"
    <3>1. ASSUME NEW v \in Units, OpenNotLocked(v) PROVE outcome[u] = "written"
      BY <1>1, <2>2, <3>1
         DEF OpenNotLocked, MayRecordNotLocked, NotPromotedRecorded, Typed, TypeOK
    <3>2. CASE ContinueNotLocked
      BY <3>1, <3>2, GovernedUnit DEF ContinueNotLocked, PromotionOps
    <3>3. CASE FinishNotLocked
      BY <1>1, <2>2, <3>3 DEF FinishNotLocked, BegunInv, Typed, TypeOK
    <3>4. ASSUME NEW v \in Units, RecordNotPromoted(v) \/ StartMint(v) \/ StartLock(v)
          PROVE FALSE
      BY <1>1, <2>2, <3>4 DEF RecordNotPromoted, StartMint, StartLock
    <3>5. ASSUME NEW c \in Cell, StartRun(c) PROVE FALSE
      BY <1>1, <2>2, <3>5 DEF StartRun
    <3>6. CASE \/ WriteManifest \/ OpenChain \/ RejectChain \/ CloseChain \/ AbandonRun
              \/ RefuseManifest \/ RefuseReceipt \/ Crash \/ UNCHANGED vars
              \/ FinishOutcome \/ MintFile \/ FinishMint \/ OpenReceipt \/ FinishReceipt \/ FinishLock
      BY <1>1, <2>2, <3>6 DEF WriteManifest, OpenChain, RejectChain, CloseChain, AbandonRun,
         RefuseManifest, RefuseReceipt, Crash, vars, FinishOutcome, MintFile, FinishMint,
         OpenReceipt, FinishReceipt, FinishLock
    <3> QED
      BY <3>1, <3>2, <3>3, <3>4, <3>5, <3>6 DEF Next, Start, Proceed, RecordNotLocked
  <2> QED
    BY <2>1, <2>2
<1>2. ASSUME arts'[u] # "absent", NEW e \in {"T0", "T1"}
      PROVE  verdict'[AcqCell[u][e]] = "ship"
  <2> DEFINE c == AcqCell[u][e]
  <2>1. c \in Cell
    BY AcqCellFacts DEF AcqEvents
  <2>2. CASE arts[u] # "absent"
    <3>1. run[c] = "closed" /\ verdict[c] = "ship"
      BY <2>2 DEF RecordInv, ProvenanceInv, Passed, Acquired
    <3> QED
      BY <2>1, <3>1, EvidenceFrozen
  <2>3. CASE arts[u] = "absent"
    <3>1. ASSUME NEW v \in Units, StartMint(v) PROVE verdict'[c] = "ship"
      BY <1>2, <2>3, <3>1 DEF StartMint, Promotable, Typed, TypeOK
    <3>2. CASE MintFile \/ FinishMint
      BY <1>2, <2>3, <3>2 DEF MintFile, FinishMint, BegunInv, Typed, TypeOK
    <3>3. ASSUME NEW v \in Units, \/ RecordNotPromoted(v) \/ OpenNotLocked(v)
                                  \/ StartLock(v)
          PROVE FALSE
      BY <1>2, <2>3, <3>3 DEF RecordNotPromoted, OpenNotLocked, StartLock
    <3>4. ASSUME NEW d \in Cell, StartRun(d) PROVE FALSE
      BY <1>2, <2>3, <3>4 DEF StartRun
    <3>5. CASE \/ WriteManifest \/ OpenChain \/ RejectChain \/ CloseChain \/ AbandonRun
              \/ RefuseManifest \/ RefuseReceipt \/ Crash \/ UNCHANGED vars
              \/ FinishOutcome \/ ContinueNotLocked \/ FinishNotLocked \/ OpenReceipt
              \/ FinishReceipt \/ FinishLock
      BY <1>2, <2>3, <3>5 DEF WriteManifest, OpenChain, RejectChain, CloseChain, AbandonRun,
         RefuseManifest, RefuseReceipt, Crash, vars, FinishOutcome, ContinueNotLocked,
         OpenNotLocked, FinishNotLocked, OpenReceipt, FinishReceipt, FinishLock
    <3> QED
      BY <3>1, <3>2, <3>3, <3>4, <3>5 DEF Next, Start, Proceed, RecordNotLocked
  <2> QED
    BY <2>2, <2>3
<1> QED
  BY <1>1, <1>2

-----------------------------------------------------------------------------
(* The walk never goes back: a progress-valid cell stays progress-valid,   *)
(* in the same terminal state.                                             *)
LEMMA SettledStays ==
    ASSUME Inductive, RecordInv, [Next]_vars, Inductive', RecordInv',
           NEW c \in Cell, Valid(c)
    PROVE  LocalState(c)' = LocalState(c) /\ Valid(c)'
<1> DEFINE u == UnitOf[c]
<1>0. PromotionFacts /\ PromotionFacts' /\ LockFacts /\ LockFacts'
  BY PromotionStates, LockStates, PTL
<1> SUFFICES LocalState(c)' = LocalState(c)
  BY DEF Valid, ProgressValid, CapabilityCell
<1>1. ASSUME u \in Units
      PROVE  /\ AcquisitionFailed(u) => AcquisitionFailed(u)'
             /\ PromotionState(u) \in {"COMPLETE", "NOT-PROMOTED"}
                   => PromotionState(u)' = PromotionState(u)
  BY <1>0, <1>1, ResultFinal, FilesKept DEF Inductive, PromotionFacts
<1>2. CASE EventOf[c] = "PROMOTION"
  <2>1. u \in Units
    BY <1>2, AcqUnit DEF AcqEvents
  <2>2. PromotionState(u) \in {"COMPLETE", "NOT-PROMOTED"}
    BY <1>2 DEF Valid, ProgressValid, LocalState, NotEvaluable, CapabilityCell,
       DownstreamEvents
  <2> QED
    BY <1>1, <1>2, <2>1, <2>2
       DEF LocalState, NotEvaluable, CapabilityCell, DownstreamEvents
<1>3. CASE EventOf[c] = "CAPABILITY_LOCK"
  <2>1. u \in Units
    BY <1>3, AcqUnit DEF AcqEvents
  <2>2. LockState(u) \in {"COMPLETE", "NOT-LOCKED"}
    BY <1>3 DEF Valid, ProgressValid, LocalState, NotEvaluable, CapabilityCell,
       DownstreamEvents
  <2>3. LockState(u)' = LockState(u)
    BY <1>0, <1>1, <2>1, <2>2, FilesKept DEF Inductive, LockFacts
  <2> QED
    BY <1>3, <2>3 DEF LocalState, NotEvaluable, CapabilityCell, DownstreamEvents
<1>4. CASE EventOf[c] \notin {"PROMOTION", "CAPABILITY_LOCK"}
  <2>1. CASE NotEvaluable(c)
    BY <1>1, <1>4, <2>1 DEF LocalState, NotEvaluable, CapabilityCell
  <2>2. CASE ~NotEvaluable(c)
    <3>1. run[c] = "closed"
      BY <1>4, <2>2 DEF Valid, ProgressValid, LocalState, RunCellState, Inductive,
         Typed, TypeOK, RunState
    <3>2. run'[c] = "closed"
      BY <3>1, EvidenceFrozen DEF Inductive
    <3>3. ~NotEvaluable(c)'
      <4> SUFFICES ASSUME CapabilityCell(c) PROVE ~AcquisitionFailed(u)'
        BY DEF NotEvaluable, CapabilityCell
      <4>1. Passed(u)'
        BY <3>2 DEF Inductive, ProvenanceInv, CapabilityCell
      <4> QED
        BY <4>1 DEF Passed, AcquisitionFailed
    <3> QED
      BY <1>4, <2>2, <3>1, <3>2, <3>3 DEF LocalState, RunCellState
  <2> QED
    BY <2>1, <2>2
<1> QED
  BY <1>2, <1>3, <1>4

(* A walked prefix is never unwalked.                                      *)
LEMMA PrefixStays ==
    ASSUME Inductive, RecordInv, [Next]_vars, Inductive', RecordInv',
           NEW c \in Cell, PrefixDone(c)
    PROVE  PrefixDone(c)'
<1> SUFFICES ASSUME NEW d \in 1..(c - 1) PROVE Valid(d)'
  BY DEF PrefixDone
<1>1. d \in Cell
  BY OrderAssumption DEF Cell
<1> QED
  BY <1>1, SettledStays DEF PrefixDone

-----------------------------------------------------------------------------
(* A command starts only behind an intact prefix, and stays behind it.     *)
LEMMA NextCommand ==
    ASSUME Inductive, RecordInv, OrderInv, [Next]_vars, Inductive', RecordInv',
           proc' # Idle
    PROVE  PrefixDone(proc.cell)'
<1> SUFFICES proc'.cell \in Cell /\ PrefixDone(proc'.cell)
  <2>1. PICK c \in Cell : c = proc'.cell /\ PrefixDone(c)
    OBVIOUS
  <2>2. PrefixDone(c)'
    BY <2>1, PrefixStays
  <2> QED
    BY <2>1, <2>2 DEF PrefixDone
<1> USE DEF Doing
<1>1. CASE proc # Idle /\ proc'.cell = proc.cell
  BY <1>1 DEF OrderInv, Inductive, Typed, TypeOK
<1>2. ASSUME NEW c \in Cell, StartRun(c)
      PROVE  proc'.cell \in Cell /\ PrefixDone(proc'.cell)
  BY <1>2 DEF StartRun, Authorized
<1>3. ASSUME NEW u \in Units, RecordNotPromoted(u)
      PROVE  proc'.cell \in Cell /\ PrefixDone(proc'.cell)
  BY <1>3, AcqCellFacts DEF RecordNotPromoted, AcqEvents
<1>4. ASSUME NEW u \in Units, OpenNotLocked(u)
      PROVE  proc'.cell \in Cell /\ PrefixDone(proc'.cell)
  BY <1>4, AcqCellFacts DEF OpenNotLocked, MayRecordNotLocked, AcqEvents
<1>5. ASSUME NEW u \in Units, StartMint(u)
      PROVE  proc'.cell \in Cell /\ PrefixDone(proc'.cell)
  BY <1>5, AcqCellFacts DEF StartMint, Promotable, Authorized, AcqEvents
<1>6. ASSUME NEW u \in Units, StartLock(u)
      PROVE  proc'.cell \in Cell /\ PrefixDone(proc'.cell)
  BY <1>6, AcqCellFacts DEF StartLock, Authorized, AcqEvents
<1>7. CASE ContinueNotLocked
  BY <1>4, <1>7, GovernedUnit DEF ContinueNotLocked, Inductive, PromotionOps
<1>8. CASE WriteManifest \/ OpenChain \/ FinishOutcome \/ MintFile \/ FinishMint \/ OpenReceipt
  BY <1>1, <1>8 DEF WriteManifest, OpenChain, FinishOutcome, MintFile, FinishMint, OpenReceipt, Idle
<1>9. CASE UNCHANGED vars
  BY <1>1, <1>9 DEF vars
<1>10. CASE \/ RejectChain \/ CloseChain \/ AbandonRun \/ RefuseManifest
           \/ RefuseReceipt \/ Crash \/ FinishNotLocked \/ FinishReceipt \/ FinishLock
  BY <1>10 DEF RejectChain, CloseChain, AbandonRun, RefuseManifest, RefuseReceipt,
     Crash, FinishNotLocked, FinishReceipt, FinishLock
<1> QED
  BY <1>2, <1>3, <1>4, <1>5, <1>6, <1>7, <1>8, <1>9, <1>10
     DEF Next, Start, Proceed, RecordNotLocked

(* What a step touches first is the cell of its own command.               *)
LEMMA NextTouched ==
    ASSUME Inductive, RecordInv, OrderInv, [Next]_vars, Inductive', RecordInv',
           NEW c \in Cell, Touched(c)'
    PROVE  PrefixDone(c)'
<1> SUFFICES PrefixDone(c)
  BY PrefixStays
<1>1. CASE Touched(c)
  BY <1>1 DEF OrderInv
<1>2. CASE ~Touched(c)
  <2> USE DEF Touched, evidence, governance, Inductive, Typed, TypeOK
  <2>1. ASSUME NEW d \in Cell, StartRun(d) PROVE FALSE
    BY <1>2, <2>1 DEF StartRun
  <2>2. ASSUME NEW u \in Units, RecordNotPromoted(u) PROVE PrefixDone(c)
    <3>1. c = AcqCell[u]["PROMOTION"]
      BY <1>2, <2>2, UniqueAssumption DEF RecordNotPromoted, AcqEvents
    <3> QED
      BY <2>2, <3>1 DEF RecordNotPromoted
  <2>3. ASSUME NEW u \in Units, OpenNotLocked(u) PROVE PrefixDone(c)
    <3>1. c = AcqCell[u]["CAPABILITY_LOCK"]
      BY <1>2, <2>3, UniqueAssumption DEF OpenNotLocked, AcqEvents
    <3> QED
      BY <2>3, <3>1 DEF OpenNotLocked, MayRecordNotLocked
  <2>4. ASSUME NEW u \in Units, StartMint(u) PROVE PrefixDone(c)
    <3>1. c = AcqCell[u]["PROMOTION"]
      BY <1>2, <2>4, UniqueAssumption DEF StartMint, AcqEvents
    <3> QED
      BY <2>4, <3>1 DEF StartMint, Promotable, Authorized
  <2>5. ASSUME NEW u \in Units, StartLock(u) PROVE PrefixDone(c)
    <3>1. c = AcqCell[u]["CAPABILITY_LOCK"]
      BY <1>2, <2>5, UniqueAssumption DEF StartLock, AcqEvents
    <3> QED
      BY <2>5, <3>1 DEF StartLock, Authorized
  <2>6. CASE ContinueNotLocked
    BY <2>3, <2>6, GovernedUnit DEF ContinueNotLocked, PromotionOps
  <2>7. CASE WriteManifest
    <3>1. c = proc.cell
      BY <1>2, <2>7, RunnerCell DEF WriteManifest, ModelOps
    <3> QED
      BY <2>7, <3>1 DEF WriteManifest, OrderInv, Idle
  <2>8. CASE OpenChain \/ CloseChain
    BY <1>2, <2>8, RunnerCell DEF OpenChain, CloseChain, ModelOps, BegunInv
  <2>9. CASE OpenReceipt
    BY <1>2, <2>9, GovernedUnit DEF OpenReceipt, PromotionOps, BegunInv, KindInv
  <2>10. CASE FinishOutcome
    BY <1>2, <2>10, GovernedUnit DEF FinishOutcome, BegunInv, PromotionOps
  <2>11. CASE FinishNotLocked
    BY <1>2, <2>11, GovernedUnit DEF FinishNotLocked, BegunInv, LockOps
  <2>12. CASE FinishMint
    BY <1>2, <2>12, GovernedUnit DEF FinishMint, BegunInv, PromotionOps
  <2>16. CASE MintFile
    <3>1. \A u \in Units : arts'[u] # "absent" => arts[u] # "absent"
      BY <2>16, GovernedUnit DEF MintFile, PromotionOps
    <3>2. UNCHANGED <<run, receipt, outcome, lock, notLocked>>
      BY <2>16 DEF MintFile
    <3>3. EventOf[c] = "PROMOTION" => UnitOf[c] \in Units
      BY OrderAssumption DEF AcqEvents
    <3> QED
      BY <1>2, <3>1, <3>2, <3>3
  <2>13. CASE FinishReceipt
    BY <1>2, <2>13, GovernedUnit DEF FinishReceipt, BegunInv, PromotionOps
  <2>14. CASE FinishLock
    BY <1>2, <2>14, GovernedUnit DEF FinishLock, BegunInv, LockOps
  <2>15. CASE \/ RejectChain \/ AbandonRun \/ RefuseManifest \/ RefuseReceipt \/ Crash
             \/ UNCHANGED vars
    BY <1>2, <2>15 DEF RejectChain, AbandonRun, RefuseManifest, RefuseReceipt, Crash, vars
  <2> QED
    BY <2>1, <2>2, <2>3, <2>4, <2>5, <2>6, <2>7, <2>8, <2>9, <2>10, <2>11,
       <2>12, <2>13, <2>14, <2>15, <2>16
       DEF Next, Start, Proceed, RecordNotLocked
<1> QED
  BY <1>1, <1>2

(* Strong is an invariant of the specification.                            *)
LEMMA StrongInvariant == Spec => []Strong
<1>1. Init => Strong
  <2> SUFFICES ASSUME Init PROVE Strong
    OBVIOUS
  <2>1. Inductive
    BY InitTyped, AcqCellFacts
       DEF Init, Inductive, BegunInv, ClosedT1Inv, ProvenanceInv, Idle, ModelOps, AcqEvents
  <2>2. RecordInv
    BY DEF Init, RecordInv
  <2>3. ASSUME NEW c \in Cell PROVE ~Touched(c)
    BY AcqUnit DEF Init, Touched, AcqEvents
  <2> QED
    BY <2>1, <2>2, <2>3 DEF Strong, OrderInv, Init
<1>2. Strong /\ [Next]_vars => Strong'
  <2> SUFFICES ASSUME Strong, [Next]_vars PROVE Strong'
    OBVIOUS
  <2>1. Inductive' /\ RecordInv'
    BY NextTyped, NextBegun, NextClosedT1, NextProvenance, NextRecord DEF Strong, Inductive
  <2>2. OrderInv'
    <3>1. \A c \in Cell : Touched(c)' => PrefixDone(c)'
      BY <2>1, NextTouched DEF Strong
    <3>2. proc' # Idle => PrefixDone(proc.cell)'
      BY <2>1, NextCommand DEF Strong
    <3> QED
      BY <3>1, <3>2 DEF OrderInv, Idle
  <2> QED
    BY <2>1, <2>2 DEF Strong
<1> QED
  BY <1>1, <1>2, PTL DEF Spec

(* Evidence and governance never appear out of frozen order, whatever      *)
(* commands die or are refused (order.py authorize, completed_cells).      *)
THEOREM NothingOutOfOrderHolds == Spec => []NothingOutOfOrder
<1>1. Strong => NothingOutOfOrder
  BY DEF Strong, OrderInv, NothingOutOfOrder
<1> QED
  BY <1>1, StrongInvariant, PTL

(* The prefix of a downstream cell holds the lock events of its family.    *)
LEMMA LockBefore ==
    ASSUME NEW c \in Cell, EventOf[c] \in DownstreamEvents,
           NEW u \in Units, SameFamily(UnitOf[c], u), PrefixDone(c)
    PROVE  LockState(u) \in {"COMPLETE", "NOT-LOCKED"}
<1> DEFINE d == AcqCell[u]["CAPABILITY_LOCK"]
<1>1. d \in Cell /\ EventOf[d] = "CAPABILITY_LOCK" /\ UnitOf[d] = u
  BY AcqCellFacts DEF AcqEvents
<1>2. d < c
  BY SequenceAssumption
<1>3. Valid(d)
  BY <1>1, <1>2, OrderAssumption DEF PrefixDone, Cell
<1> QED
  BY <1>1, <1>3 DEF Valid, ProgressValid, LocalState, NotEvaluable, CapabilityCell,
     DownstreamEvents

(* A capability is consumed only under the complete lock of its own passed *)
(* acquisition, after both universes of the family have a terminal lock    *)
(* event (order.py authorize).                                             *)
THEOREM ConsumedUnderOwnLockHolds == Spec => []ConsumedUnderOwnLock
<1>1. Strong => ConsumedUnderOwnLock
  <2> SUFFICES ASSUME Strong, NEW c \in Cell, EventOf[c] \in DownstreamEvents,
                      run[c] # "absent"
               PROVE
        /\ \A u \in Units : SameFamily(UnitOf[c], u) =>
              lock[u] = "written" \/ notLocked[u] = "written"
        /\ UnitOf[c] \in Units =>
              /\ lock[UnitOf[c]] = "written" /\ receipt[UnitOf[c]] = "written"
              /\ arts[UnitOf[c]] = "written"
              /\ \A e \in {"T0", "T1"} : /\ run[AcqCell[UnitOf[c]][e]] = "closed"
                                         /\ verdict[AcqCell[UnitOf[c]][e]] = "ship"
              /\ validated[AcqCell[UnitOf[c]]["T1"]] = "passed"
    BY DEF ConsumedUnderOwnLock
  <2>0. PromotionFacts /\ LockFacts /\ PrefixDone(c)
    BY PromotionStates, LockStates DEF Strong, OrderInv, Touched
  <2>1. ASSUME NEW u \in Units, SameFamily(UnitOf[c], u)
        PROVE  LockState(u) \in {"COMPLETE", "NOT-LOCKED"}
    BY <2>0, <2>1, LockBefore
  <2>2. ASSUME UnitOf[c] \in Units
        PROVE  Passed(UnitOf[c]) /\ LockState(UnitOf[c]) = "COMPLETE"
    <3>1. Passed(UnitOf[c])
      BY <2>2 DEF Strong, Inductive, ProvenanceInv, CapabilityCell
    <3>2. ~AcquisitionFailed(UnitOf[c])
      BY <3>1 DEF Passed, AcquisitionFailed
    <3>3. notLocked[UnitOf[c]] = "absent"
      BY <2>2, <3>2 DEF Strong, Inductive, ProvenanceInv
    <3> QED
      BY <2>0, <2>1, <2>2, <3>1, <3>3 DEF SameFamily, LockFacts
  <2>3. ASSUME UnitOf[c] \in Units
        PROVE  \A e \in {"T0", "T1"} : verdict[AcqCell[UnitOf[c]][e]] = "ship"
    BY <2>0, <2>2, <2>3 DEF LockFacts, PromotionFacts, Strong, RecordInv
  <2> QED
    BY <2>0, <2>1, <2>2, <2>3 DEF LockFacts, PromotionFacts, Passed, Acquired
<1> QED
  BY <1>1, StrongInvariant, PTL

-----------------------------------------------------------------------------
(* The ledger re-derived from the files is lawful in every reachable state.*)
LEMMA EntryFacts ==
    ASSUME NEW e \in LedgerView
    PROVE  /\ e.cell \in Cell /\ e.cell \in CompletedCells
           /\ e.state = LocalState(e.cell)
           /\ Valid(e.cell) /\ PrefixDone(e.cell)
BY DEF LedgerView, CompletedCells

(* The ledger entries of the settled cells.                                *)
LEMMA CompletedEntry ==
    ASSUME NEW c \in CompletedCells
    PROVE  [cell |-> c, state |-> LocalState(c)] \in LedgerView
BY DEF LedgerView

(* A universe is refused in the ledger only if its acquisition failed.     *)
LEMMA RefusedFailed ==
    ASSUME Strong, NEW u \in Units, Ledger!Refused(LedgerView, u)
    PROVE  AcquisitionFailed(u)
<1>1. PICK e \in LedgerView : UnitOf[e.cell] = u /\ e.state = "NOT-PROMOTED"
  BY DEF Ledger!Refused
<1>2. e.cell \in Cell /\ LocalState(e.cell) = "NOT-PROMOTED" /\ Valid(e.cell)
  BY <1>1, EntryFacts
<1>3. EventOf[e.cell] = "PROMOTION"
  BY <1>2 DEF Valid, ProgressValid
<1>4. PromotionState(u) = "NOT-PROMOTED"
  BY <1>1, <1>2, <1>3 DEF LocalState, NotEvaluable, CapabilityCell, DownstreamEvents
<1> QED
  BY <1>4, PromotionStates DEF Strong, PromotionFacts

(* Conversely, a failed acquisition is refused in the ledger as soon as    *)
(* the walk is past its promotion.                                         *)
LEMMA FailedRefused ==
    ASSUME Strong, NEW u \in Units, AcquisitionFailed(u),
           NEW c \in CompletedCells, AcqCell[u]["PROMOTION"] < c
    PROVE  Ledger!Refused(LedgerView, u)
<1> DEFINE d == AcqCell[u]["PROMOTION"]
<1>1. d \in Cell /\ EventOf[d] = "PROMOTION" /\ UnitOf[d] = u
  BY AcqCellFacts DEF AcqEvents
<1>2. LocalState(d) = "NOT-PROMOTED"
  BY <1>1, PromotionStates DEF Strong, PromotionFacts, LocalState, NotEvaluable,
     CapabilityCell, DownstreamEvents
<1>3. d \in CompletedCells
  BY <1>1, OrderAssumption DEF CompletedCells, PrefixDone, Cell
<1>4. [cell |-> d, state |-> "NOT-PROMOTED"] \in LedgerView
  BY <1>2, <1>3, CompletedEntry
<1> QED
  BY <1>1, <1>4 DEF Ledger!Refused

(* The re-derived ledger tells one story per universe.                     *)
LEMMA LedgerConsistent ==
    ASSUME Strong, NEW e \in LedgerView, UnitOf[e.cell] \in Units
    PROVE  /\ e.state \in {"NOT-LOCKED", "NOT-EVALUABLE"}
                 => Ledger!Refused(LedgerView, UnitOf[e.cell])
           /\ e.state = "COMPLETE" /\ EventOf[e.cell] \notin {"T0", "T1"}
                 => ~Ledger!Refused(LedgerView, UnitOf[e.cell])
<1> DEFINE c == e.cell
           u == UnitOf[e.cell]
<1>0. /\ c \in Cell /\ c \in CompletedCells /\ e.state = LocalState(c)
      /\ Valid(c) /\ PrefixDone(c)
  BY EntryFacts
<1>1. PromotionFacts /\ LockFacts
  BY PromotionStates, LockStates DEF Strong
<1>2. /\ AcqCell[u]["PROMOTION"] \in Cell /\ AcqCell[u]["CAPABILITY_LOCK"] \in Cell
      /\ AcqCell[u]["PROMOTION"] < AcqCell[u]["CAPABILITY_LOCK"]
  BY AcqCellFacts, SequenceAssumption DEF AcqEvents
<1>3. ASSUME e.state \in {"NOT-LOCKED", "NOT-EVALUABLE"}
      PROVE  Ledger!Refused(LedgerView, u)
  <2>1. CASE e.state = "NOT-LOCKED"
    <3>1. EventOf[c] = "CAPABILITY_LOCK" /\ LockState(u) = "NOT-LOCKED"
      BY <1>0, <2>1 DEF Valid, ProgressValid, LocalState, NotEvaluable, CapabilityCell,
         DownstreamEvents
    <3>2. c = AcqCell[u]["CAPABILITY_LOCK"]
      BY <1>0, <3>1, UniqueAssumption DEF AcqEvents
    <3>3. AcquisitionFailed(u)
      BY <1>1, <3>1 DEF LockFacts, Strong, Inductive, ProvenanceInv
    <3> QED
      BY <1>0, <1>2, <3>2, <3>3, FailedRefused
  <2>2. CASE e.state = "NOT-EVALUABLE"
    <3>1. CapabilityCell(c)
      BY <1>0, <2>2 DEF Valid, ProgressValid
    <3>2. EventOf[c] \in DownstreamEvents
      BY <3>1 DEF CapabilityCell
    <3>3. AcquisitionFailed(u)
      BY <1>0, <2>2, <3>1, <3>2
         DEF LocalState, NotEvaluable, RunCellState, DownstreamEvents, Strong, Inductive,
             Typed, TypeOK, RunState
    <3>4. AcqCell[u]["CAPABILITY_LOCK"] < c
      BY <1>0, <3>2, SequenceAssumption DEF SameFamily
    <3>5. AcqCell[u]["PROMOTION"] < c
      BY <1>0, <1>2, <3>4, OrderAssumption DEF Cell
    <3> QED
      BY <1>0, <3>3, <3>5, FailedRefused
  <2> QED
    BY <1>3, <2>1, <2>2
<1>4. ASSUME e.state = "COMPLETE", EventOf[c] \notin {"T0", "T1"},
             Ledger!Refused(LedgerView, u)
      PROVE  FALSE
  <2>1. AcquisitionFailed(u)
    BY <1>4, RefusedFailed
  <2>2. PromotionState(u) # "COMPLETE"
    BY <1>1, <2>1 DEF PromotionFacts
  <2>3. LockState(u) # "COMPLETE"
    BY <1>1, <2>2 DEF LockFacts
  <2>4. EventOf[c] \in DownstreamEvents => NotEvaluable(c)
    BY <2>1 DEF NotEvaluable, CapabilityCell
  <2>5. EventOf[c] \in {"PROMOTION", "CAPABILITY_LOCK"} \cup DownstreamEvents
    BY <1>0, <1>4, OrderAssumption DEF AcqEvents
  <2>6. EventOf[c] \notin {"PROMOTION", "CAPABILITY_LOCK"}
    BY <1>0, <1>4, <2>2, <2>3
       DEF LocalState, NotEvaluable, CapabilityCell, DownstreamEvents
  <2> QED
    BY <1>0, <1>4, <2>4, <2>5, <2>6 DEF LocalState, DownstreamEvents
<1> QED
  BY <1>3, <1>4

(* The re-derived ledger is lawful.                                        *)
LEMMA LedgerLawful == Strong => Ledger!Lawful(LedgerView)
<1> SUFFICES ASSUME Strong PROVE Ledger!Lawful(LedgerView)
  OBVIOUS
<1>1. ASSUME NEW e \in LedgerView
      PROVE  e.cell \in Cell /\ e.state \in Ledger!Terminals(e.cell)
  BY EntryFacts DEF Ledger!Terminals, Valid, ProgressValid, CapabilityCell, DownstreamEvents
<1>2. ASSUME NEW e \in LedgerView, NEW f \in LedgerView, e.cell = f.cell
      PROVE  e = f
  BY <1>2 DEF LedgerView
<1>3. ASSUME NEW c \in Cell, NEW d \in Cell, c < d, d \in Ledger!CellsOf(LedgerView)
      PROVE  c \in Ledger!CellsOf(LedgerView)
  <2>1. d \in CompletedCells
    BY <1>3, EntryFacts DEF Ledger!CellsOf
  <2>2. c \in CompletedCells
    BY <1>3, <2>1, OrderAssumption DEF CompletedCells, PrefixDone, Cell
  <2> DEFINE entry == [cell |-> c, state |-> LocalState(c)]
  <2>3. entry \in LedgerView
    BY <2>2, CompletedEntry
  <2>4. entry.cell = c
    OBVIOUS
  <2> QED
    BY <2>3, <2>4 DEF Ledger!CellsOf
<1>4. Ledger!Consistent(LedgerView)
  BY LedgerConsistent DEF Ledger!Consistent
<1> QED
  BY <1>1, <1>2, <1>3, <1>4 DEF Ledger!Lawful, Ledger!Cell, Cell

(* Every step of the files is a step of the ledger: entries are only       *)
(* added, and the ledger they make is lawful.                              *)
LEMMA LedgerGrows ==
    ASSUME Strong, [Next]_vars, Strong'
    PROVE  LedgerView \subseteq LedgerView'
<1> SUFFICES ASSUME NEW c \in CompletedCells
             PROVE  [cell |-> c, state |-> LocalState(c)] \in LedgerView'
  BY DEF LedgerView
<1>1. c \in Cell /\ Valid(c) /\ PrefixDone(c)
  BY DEF CompletedCells
<1>2. LocalState(c)' = LocalState(c) /\ Valid(c)' /\ PrefixDone(c)'
  BY <1>1, SettledStays, PrefixStays DEF Strong
<1> QED
  BY <1>1, <1>2 DEF LedgerView, CompletedCells

(* With no file on disk nothing is settled.                                *)
LEMMA NothingSettledAtFirst == Init => LedgerView = {}
<1> SUFFICES ASSUME Init, NEW c \in CompletedCells PROVE FALSE
  BY DEF LedgerView
<1>1. 1 \in Cell /\ Valid(1)
  BY OrderAssumption DEF CompletedCells, PrefixDone, Cell
<1>2. \A u \in Units : ~AcquisitionFailed(u)
  BY AcqCellFacts DEF Init, AcquisitionFailed, Acquired, AcqEvents
<1>3. LocalState(1) = "INCOMPLETE"
  <2>1. EventOf[1] \in {"PROMOTION", "CAPABILITY_LOCK"} => UnitOf[1] \in Units
    BY <1>1, AcqUnit DEF AcqEvents
  <2>2. ASSUME NEW u \in Units
        PROVE  PromotionState(u) = "INCOMPLETE" /\ LockState(u) = "INCOMPLETE"
    BY <1>2, <2>2 DEF Init, PromotionState, LockState, NotPromotedRecorded
  <2>3. ~NotEvaluable(1)
    BY <1>2 DEF NotEvaluable, CapabilityCell
  <2>4. RunCellState(1) = "INCOMPLETE"
    BY <1>1 DEF Init, RunCellState
  <2> QED
    BY <2>1, <2>2, <2>3, <2>4 DEF LocalState
<1> QED
  BY <1>1, <1>3 DEF Valid, ProgressValid

(* What the validators re-derive from the files implements the append-only *)
(* ledger of consistent terminal states.                                   *)
THEOREM LedgerRefined == Spec => LedgerImplemented
<1>1. Init => Ledger!Init
  BY NothingSettledAtFirst DEF Ledger!Init
<1>2. ASSUME Strong, [Next]_vars, Strong' PROVE [Ledger!Next]_LedgerView
  <2>1. Ledger!Lawful(LedgerView)'
    BY <1>2, LedgerLawful, PTL
  <2>2. LedgerView \subseteq LedgerView'
    BY <1>2, LedgerGrows
  <2> QED
    BY <2>1, <2>2 DEF Ledger!Next
<1> QED
  BY <1>1, <1>2, StrongInvariant, PTL DEF Spec, LedgerImplemented, Ledger!Spec
=============================================================================
