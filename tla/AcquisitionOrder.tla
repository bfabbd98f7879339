-------------------------- MODULE AcquisitionOrder --------------------------
(***************************************************************************)
(* The frozen order walked on disk.  A model cell is run by the runner     *)
(* (run_arm_h1.main), which leaves a manifest and an evidence chain; the   *)
(* PROMOTION and CAPABILITY_LOCK cells of a capability universe are        *)
(* completed by the controller (promotion.advance), which leaves minted    *)
(* artifacts, a receipt and a lock, or, when the acquisition validly       *)
(* failed, a recorded NOT-PROMOTED and a recorded NOT-LOCKED outcome.      *)
(* Nothing else is stored: which cells are done, which event a universe    *)
(* owes and what is authorized are all re-derived from these files         *)
(* (harness/order.py: _local_state, completed_cells, authorize).           *)
(*                                                                         *)
(* One command runs at a time.  Every file is written with open("w") and a *)
(* later flush, so each write is two steps, and a crash between them       *)
(* leaves a torn file.                                                     *)
(***************************************************************************)
EXTENDS Naturals

CONSTANTS
    NCells,         \* length of the frozen expansion
    EventOf,        \* cell -> its event
    UnitOf,         \* cell -> [block, family, universe]
    Units,          \* the capability universes: the A and C of every family
    AcqCell,        \* universe -> acquisition event -> its cell
    Verdicts,       \* verdicts the checker may return on a finished run
    MaxCrashes      \* bound: commands that may die half way

AcqEvents        == {"T0", "T1", "PROMOTION", "CAPABILITY_LOCK"}
DownstreamEvents == {"T2", "T3", "T4"}
ModelEvents      == {"T0", "T1"} \cup DownstreamEvents

Cell == 1..NCells

SameFamily(u, v) == u.block = v.block /\ u.family = v.family

ASSUME OrderAssumption ==
    /\ NCells \in Nat
    /\ MaxCrashes \in Nat
    /\ Verdicts \subseteq {"ship", "fix", "blocked"}
    /\ EventOf \in [Cell -> AcqEvents \cup DownstreamEvents]
    /\ \A c \in Cell : EventOf[c] \in AcqEvents => UnitOf[c] \in Units

(* Each acquisition event of a capability universe is one cell, the four   *)
(* are in order, and they precede the downstream cells of their family.    *)
ASSUME UniqueAssumption ==
    /\ AcqCell \in [Units -> [AcqEvents -> Cell]]
    /\ \A c \in Cell, u \in Units, e \in AcqEvents :
          EventOf[c] = e /\ UnitOf[c] = u <=> c = AcqCell[u][e]

ASSUME SequenceAssumption ==
    \A u \in Units :
        /\ AcqCell[u]["T0"] < AcqCell[u]["T1"]
        /\ AcqCell[u]["T1"] < AcqCell[u]["PROMOTION"]
        /\ AcqCell[u]["PROMOTION"] < AcqCell[u]["CAPABILITY_LOCK"]
        /\ \A c \in Cell :
              (EventOf[c] \in DownstreamEvents /\ SameFamily(UnitOf[c], u))
                  => AcqCell[u]["CAPABILITY_LOCK"] < c

-----------------------------------------------------------------------------
VARIABLES
    run,            \* model cell -> what its run directory holds
    verdict,        \* model cell -> verdict in its manifest
    validated,      \* T1 cell -> candidate-validation event of its chain
    arts,           \* universe -> engine.py and adapter_notes.md
    receipt,        \* universe -> PROMOTION-RECEIPT.json
    outcome,        \* universe -> PROMOTION-OUTCOME.json
    lock,           \* universe -> CAPABILITY_LOCK.json
    notLocked,      \* universe -> CAPABILITY-LOCK-OUTCOME.json
    proc,           \* the command in progress and the cell it works on
    crashes

evidence   == <<run, verdict, validated>>
governance == <<arts, receipt, outcome, lock, notLocked>>
vars       == <<evidence, governance, proc, crashes>>

(* A run directory: nothing the validators look at; a manifest and no      *)
(* chain; a chain without its closing grade; an audited chain.             *)
RunState   == {"absent", "manifest", "opened", "closed"}
FileState  == {"absent", "torn", "written"}
Validation == {"none", "failed", "passed"}
Commands   == {"run", "wire", "chain", "mint", "minted", "receipt",
               "outcome", "refused", "lock", "notlocked"}

Idle == [op |-> "idle", cell |-> 0]
Doing(op, c) == [op |-> op, cell |-> c]
Unit == UnitOf[proc.cell]       \* of the command in progress

(* What each file may hold, and the command in progress.                   *)
TypeOK ==
    /\ run \in [Cell -> RunState]
    /\ verdict \in [Cell -> Verdicts \cup {"none"}]
    /\ validated \in [Cell -> Validation]
    /\ arts \in [Units -> FileState \cup {"partial"}]   \* the first of the two
    /\ receipt \in [Units -> FileState]
    /\ outcome \in [Units -> FileState]
    /\ lock \in [Units -> FileState]
    /\ notLocked \in [Units -> FileState]
    /\ proc \in [op : Commands, cell : Cell] \cup {Idle}
    /\ crashes \in 0..MaxCrashes

-----------------------------------------------------------------------------
(* Derived state.                                                          *)

Acquired(u) == run[AcqCell[u]["T0"]] = "closed" /\ run[AcqCell[u]["T1"]] = "closed"

AcquisitionFailed(u) == Acquired(u) /\ validated[AcqCell[u]["T1"]] = "failed"

(* A torn outcome is unparsable, which its reader takes for absent.        *)
NotPromotedRecorded(u) == outcome[u] = "written"

(* _not_promoted_state: the record is judged against the committed chains  *)
(* again, and beside a receipt or a lock it is a contradiction.            *)
RefusalStands(u) ==
    AcquisitionFailed(u) /\ receipt[u] = "absent" /\ lock[u] = "absent"

(* _promotion_provenance_reasons: the receipt's two runs and its candidate *)
(* are derived again, and the minted artifacts' bytes compared.            *)
Provenance(u) ==
    /\ Acquired(u)
    /\ validated[AcqCell[u]["T1"]] = "passed"
    /\ arts[u] = "written"

PromotionState(u) ==
    CASE NotPromotedRecorded(u) ->
            IF RefusalStands(u) THEN "NOT-PROMOTED" ELSE "INADMISSIBLE"
      [] ~NotPromotedRecorded(u) /\ AcquisitionFailed(u) -> "NOT-PROMOTED"
      [] OTHER ->
            IF receipt[u] = "absent" THEN "INCOMPLETE"
            ELSE IF receipt[u] = "written" /\ Provenance(u)
                 THEN "COMPLETE" ELSE "INADMISSIBLE"

(* _not_locked_state.                                                      *)
LockRefusalStands(u) ==
    /\ PromotionState(u) = "NOT-PROMOTED" /\ NotPromotedRecorded(u)
    /\ lock[u] = "absent"

\* bug: the lock file's presence is taken for a valid lock
LockStateByPresence(u) ==
    IF notLocked[u] = "written" THEN "NOT-LOCKED"
    ELSE IF lock[u] = "absent" THEN "INCOMPLETE" ELSE "COMPLETE"

LockState(u) ==
    IF notLocked[u] = "written"
    THEN IF LockRefusalStands(u) THEN "NOT-LOCKED" ELSE "INADMISSIBLE"
    ELSE IF lock[u] = "absent" THEN "INCOMPLETE"
         ELSE IF /\ lock[u] = "written" /\ PromotionState(u) = "COMPLETE"
                 /\ arts[u] = "written"
              THEN "COMPLETE" ELSE "INADMISSIBLE"

RunCellState(c) ==
    CASE run[c] = "absent"               -> "INCOMPLETE"
      [] run[c] \in {"manifest", "opened"} -> "INADMISSIBLE"
      [] run[c] = "closed"               -> "COMPLETE"

CapabilityCell(c) == EventOf[c] \in DownstreamEvents /\ UnitOf[c] \in Units

\* bug: a failed acquisition takes the whole family's treatment cells with it
NotEvaluableFamily(c) ==
    CapabilityCell(c) /\ \E u \in Units : SameFamily(UnitOf[c], u) /\ AcquisitionFailed(u)

NotEvaluable(c) == CapabilityCell(c) /\ AcquisitionFailed(UnitOf[c])

LocalState(c) ==
    CASE NotEvaluable(c)                 -> "NOT-EVALUABLE"
      [] EventOf[c] = "PROMOTION"        -> PromotionState(UnitOf[c])
      [] EventOf[c] = "CAPABILITY_LOCK"  -> LockState(UnitOf[c])
      [] OTHER                           -> RunCellState(c)

\* bug: only COMPLETE advances the walk (the epoch-1 defect)
ProgressValidEpoch1(c, s) == s = "COMPLETE"

ProgressValid(c, s) ==
    \/ s = "COMPLETE"
    \/ EventOf[c] = "PROMOTION" /\ s = "NOT-PROMOTED"
    \/ EventOf[c] = "CAPABILITY_LOCK" /\ s = "NOT-LOCKED"
    \/ CapabilityCell(c) /\ s = "NOT-EVALUABLE"

(* The strict prefix walk: the first cell that is not progress-valid ends  *)
(* it, whatever later cells hold.                                          *)
Valid(c) == ProgressValid(c, LocalState(c))

PrefixDone(c) == \A d \in 1..(c - 1) : Valid(d)

CompletedCells == {c \in Cell : PrefixDone(c) /\ Valid(c)}

\* bug: the order check is dropped, only a duplicate is refused
AuthorizedAnyOrder(c) == ~Valid(c)

Authorized(c) == ~Valid(c) /\ PrefixDone(c)

(* cell_state: a local COMPLETE counts only behind a progress-valid prefix.*)
CellComplete(c) ==
    /\ LocalState(c) = "COMPLETE"
    /\ PrefixDone(c)

(* next_event: the first acquisition event not done, where a NOT-PROMOTED  *)
(* that is derived but not recorded is still owed.                         *)
Owed(u, e) ==
    LET c == AcqCell[u][e]
    IN  \/ c \notin CompletedCells
        \/ /\ e = "PROMOTION" /\ PromotionState(u) = "NOT-PROMOTED"
           /\ ~NotPromotedRecorded(u)

NextEventIs(u, e) ==
    /\ Owed(u, e)
    /\ \A f \in AcqEvents : AcqCell[u][f] < AcqCell[u][e] => ~Owed(u, f)

-----------------------------------------------------------------------------
Init ==
    /\ run = [c \in Cell |-> "absent"]
    /\ verdict = [c \in Cell |-> "none"]
    /\ validated = [c \in Cell |-> "none"]
    /\ arts = [u \in Units |-> "absent"]
    /\ receipt = [u \in Units |-> "absent"]
    /\ outcome = [u \in Units |-> "absent"]
    /\ lock = [u \in Units |-> "absent"]
    /\ notLocked = [u \in Units |-> "absent"]
    /\ proc = Idle
    /\ crashes = 0

(* ------------------------------ the runner ----------------------------- *)

(* Gates of main(): the acquisition-failed refusal, then authorize or      *)
(* authorize_event against the done set.                                   *)
StartRun(c) ==
    /\ proc = Idle
    /\ EventOf[c] \in ModelEvents
    /\ ~NotEvaluable(c)
    /\ Authorized(c)
    /\ proc' = Doing("run", c)
    /\ UNCHANGED <<evidence, governance, crashes>>

(* The run raises before its manifest: malformed output, an acquisition    *)
(* answer that is not fresh, a sandbox or snapshot refusal.                *)
AbandonRun ==
    /\ proc.op = "run"
    /\ proc' = Idle
    /\ UNCHANGED <<evidence, governance, crashes>>

\* bug: a finished run's checker verdict may be missing
WriteManifestUngraded ==
    /\ proc.op = "run"
    /\ verdict' = [verdict EXCEPT ![proc.cell] = "ungraded"]
    /\ run' = [run EXCEPT ![proc.cell] = IF @ = "absent" THEN "manifest" ELSE @]
    /\ proc' = Doing("wire", proc.cell)
    /\ UNCHANGED <<validated, governance, crashes>>

(* H1-RUN-MANIFEST.json, written over any earlier attempt's; a chain file  *)
(* an earlier attempt left stays where it is.                              *)
WriteManifest ==
    /\ proc.op = "run"
    /\ \E v \in Verdicts : verdict' = [verdict EXCEPT ![proc.cell] = v]
    /\ run' = [run EXCEPT ![proc.cell] = IF @ = "absent" THEN "manifest" ELSE @]
    /\ proc' = Doing("wire", proc.cell)
    /\ UNCHANGED <<validated, governance, crashes>>

(* Post-manifest containment gate, or the pre-link binding gate.           *)
RefuseManifest ==
    /\ proc.op = "wire"
    /\ proc' = Idle
    /\ UNCHANGED <<evidence, governance, crashes>>

(* Chain(): no chain file yet, so genesis binds this run's manifest.       *)
OpenChain ==
    /\ proc.op = "wire" /\ run[proc.cell] = "manifest"
    /\ run' = [run EXCEPT ![proc.cell] = "opened"]
    /\ proc' = Doing("chain", proc.cell)
    /\ UNCHANGED <<verdict, validated, governance, crashes>>

(* Chain(): an earlier attempt's links are there and its genesis binds the *)
(* earlier manifest; the audit (or a closed or torn link) refuses.         *)
RejectChain ==
    /\ proc.op = "wire" /\ run[proc.cell] = "opened"
    /\ proc' = Idle
    /\ UNCHANGED <<evidence, governance, crashes>>

(* validate_t1_candidate: a T1 run commits whether the frozen candidate    *)
(* passed, whatever the verdict of its own solver; other runs do not.      *)
ValidationResults(c) == IF EventOf[c] = "T1" THEN {"failed", "passed"} ELSE {"none"}

(* The links through grade, and a clean audit.                             *)
CloseChain ==
    /\ proc.op = "chain"
    /\ run' = [run EXCEPT ![proc.cell] = "closed"]
    /\ \E v \in ValidationResults(proc.cell) :
          validated' = [validated EXCEPT ![proc.cell] = v]
    /\ proc' = Idle
    /\ UNCHANGED <<verdict, governance, crashes>>

(* ---------------------------- the controller --------------------------- *)

\* bug: any promotion that cannot be minted is recorded as NOT-PROMOTED
RecordNotPromotedAny(u) ==
    LET c == AcqCell[u]["PROMOTION"] IN
    /\ proc = Idle
    /\ NextEventIs(u, "PROMOTION")
    /\ PrefixDone(c)
    /\ lock[u] = "absent" /\ receipt[u] = "absent" /\ outcome[u] = "absent"
    /\ outcome' = [outcome EXCEPT ![u] = "torn"]
    /\ proc' = Doing("outcome", c)
    /\ UNCHANGED <<evidence, arts, receipt, lock, notLocked, crashes>>

(* promote_universe, failed branch, and emit_promotion_outcome: its own    *)
(* derived NOT-PROMOTED is taken out of the done set, so only the cells    *)
(* before it are required; a lock, a receipt or an outcome file refuses.   *)
RecordNotPromoted(u) ==
    LET c == AcqCell[u]["PROMOTION"] IN
    /\ proc = Idle
    /\ NextEventIs(u, "PROMOTION")
    /\ AcquisitionFailed(u)
    /\ PrefixDone(c)
    /\ lock[u] = "absent" /\ receipt[u] = "absent" /\ outcome[u] = "absent"
    /\ outcome' = [outcome EXCEPT ![u] = "torn"]
    /\ proc' = Doing("outcome", c)
    /\ UNCHANGED <<evidence, arts, receipt, lock, notLocked, crashes>>

(* The recording command then denies, and advance() turns the denial into  *)
(* the sibling NOT-LOCKED record in the same invocation.                   *)
FinishOutcome ==
    /\ proc.op = "outcome"
    /\ outcome' = [outcome EXCEPT ![Unit] = "written"]
    /\ proc' = Doing("refused", proc.cell)
    /\ UNCHANGED <<evidence, arts, receipt, lock, notLocked, crashes>>

(* emit_capability_lock_outcome.                                           *)
MayRecordNotLocked(u) ==
    /\ NotPromotedRecorded(u)
    /\ lock[u] = "absent" /\ receipt[u] = "absent"
    /\ PrefixDone(AcqCell[u]["CAPABILITY_LOCK"])
    /\ PromotionState(u) = "NOT-PROMOTED"
    /\ notLocked[u] = "absent"

OpenNotLocked(u) ==
    /\ MayRecordNotLocked(u)
    /\ notLocked' = [notLocked EXCEPT ![u] = "torn"]
    /\ proc' = Doing("notlocked", AcqCell[u]["CAPABILITY_LOCK"])
    /\ UNCHANGED <<evidence, arts, receipt, outcome, lock, crashes>>

ContinueNotLocked == proc.op = "refused" /\ OpenNotLocked(Unit)

RecordNotLocked(u) ==
    /\ proc = Idle
    /\ NextEventIs(u, "CAPABILITY_LOCK")
    /\ OpenNotLocked(u)

FinishNotLocked ==
    /\ proc.op = "notlocked"
    /\ notLocked' = [notLocked EXCEPT ![Unit] = "written"]
    /\ proc' = Idle
    /\ UNCHANGED <<evidence, arts, receipt, outcome, lock, crashes>>

(* promote_universe, normal branch: run_evidence demands two COMPLETE runs *)
(* that shipped, derive_candidate a passed validation.                     *)
Promotable(u) ==
    /\ Authorized(AcqCell[u]["PROMOTION"])
    /\ \A e \in {"T0", "T1"} : /\ CellComplete(AcqCell[u][e])
                               /\ verdict[AcqCell[u][e]] = "ship"
    /\ validated[AcqCell[u]["T1"]] = "passed"

\* bug: artifacts of an earlier attempt are written over, not compared
StartMintAgain(u) ==
    /\ proc = Idle
    /\ NextEventIs(u, "PROMOTION")
    /\ ~AcquisitionFailed(u)
    /\ Promotable(u)
    /\ arts' = [arts EXCEPT ![u] = "torn"]
    /\ proc' = Doing("mint", AcqCell[u]["PROMOTION"])
    /\ UNCHANGED <<evidence, receipt, outcome, lock, notLocked, crashes>>

(* _mint_artifacts: an existing file must already hold the same bytes.     *)
StartMint(u) ==
    /\ proc = Idle
    /\ NextEventIs(u, "PROMOTION")
    /\ ~AcquisitionFailed(u)
    /\ Promotable(u)
    /\ arts[u] # "torn"
    /\ arts' = [arts EXCEPT ![u] = IF @ = "absent" THEN "torn" ELSE @]
    /\ proc' = Doing("mint", AcqCell[u]["PROMOTION"])
    /\ UNCHANGED <<evidence, receipt, outcome, lock, notLocked, crashes>>

(* The first artifact is flushed, or the second is opened.                 *)
MintFile ==
    /\ proc.op = "mint" /\ arts[Unit] \in {"torn", "partial"}
    /\ arts' = [arts EXCEPT ![Unit] = IF @ = "torn" THEN "partial" ELSE "torn"]
    /\ UNCHANGED <<evidence, receipt, outcome, lock, notLocked, proc, crashes>>

FinishMint ==
    /\ proc.op = "mint"
    /\ arts' = [arts EXCEPT ![Unit] = "written"]
    /\ proc' = Doing("minted", proc.cell)
    /\ UNCHANGED <<evidence, receipt, outcome, lock, notLocked, crashes>>

(* emit_promotion_receipt authorizes again and writes once.                *)
OpenReceipt ==
    /\ proc.op = "minted"
    /\ Authorized(proc.cell) /\ receipt[Unit] = "absent"
    /\ receipt' = [receipt EXCEPT ![Unit] = "torn"]
    /\ proc' = Doing("receipt", proc.cell)
    /\ UNCHANGED <<evidence, arts, outcome, lock, notLocked, crashes>>

RefuseReceipt ==
    /\ proc.op = "minted"
    /\ ~(Authorized(proc.cell) /\ receipt[Unit] = "absent")
    /\ proc' = Idle
    /\ UNCHANGED <<evidence, governance, crashes>>

FinishReceipt ==
    /\ proc.op = "receipt"
    /\ receipt' = [receipt EXCEPT ![Unit] = "written"]
    /\ proc' = Idle
    /\ UNCHANGED <<evidence, arts, outcome, lock, notLocked, crashes>>

(* emit_capability_lock derives the receipt's provenance once more, and    *)
(* lock.promote writes once.                                               *)
Lockable(u) == Provenance(u) /\ lock[u] = "absent"

(* lock_universe.                                                          *)
StartLock(u) ==
    LET c == AcqCell[u]["CAPABILITY_LOCK"] IN
    /\ proc = Idle
    /\ NextEventIs(u, "CAPABILITY_LOCK")
    /\ ~NotPromotedRecorded(u)
    /\ Authorized(c)
    /\ CellComplete(AcqCell[u]["PROMOTION"])
    /\ Lockable(u)
    /\ lock' = [lock EXCEPT ![u] = "torn"]
    /\ proc' = Doing("lock", c)
    /\ UNCHANGED <<evidence, arts, receipt, outcome, notLocked, crashes>>

FinishLock ==
    /\ proc.op = "lock"
    /\ lock' = [lock EXCEPT ![Unit] = "written"]
    /\ proc' = Idle
    /\ UNCHANGED <<evidence, arts, receipt, outcome, notLocked, crashes>>

(* The command dies; what it had flushed stays.                            *)
Crash ==
    /\ proc # Idle /\ crashes < MaxCrashes
    /\ proc' = Idle
    /\ crashes' = crashes + 1
    /\ UNCHANGED <<evidence, governance>>

Start == \/ \E c \in Cell : StartRun(c)
         \/ \E u \in Units : \/ RecordNotPromoted(u) \/ RecordNotLocked(u)
                             \/ StartMint(u) \/ StartLock(u)

Proceed == \/ WriteManifest \/ OpenChain \/ RejectChain \/ CloseChain
           \/ FinishOutcome \/ ContinueNotLocked \/ FinishNotLocked
           \/ FinishMint \/ OpenReceipt \/ RefuseReceipt \/ FinishReceipt
           \/ FinishLock

Next == Start \/ Proceed \/ MintFile \/ AbandonRun \/ RefuseManifest \/ Crash

Spec == Init /\ [][Next]_vars

(* The operator keeps issuing whatever command is due, a started command   *)
(* runs to its end, and repeated runs of a cell eventually get past a      *)
(* malformed answer and past the gates behind the manifest.                *)
FairSpec == Spec /\ WF_vars(Start) /\ WF_vars(Proceed)
                 /\ SF_vars(WriteManifest) /\ SF_vars(OpenChain)

-----------------------------------------------------------------------------
(* The cell whose files an attempt has touched, torn ones included.        *)
Touched(c) ==
    \/ run[c] # "absent"
    \/ /\ EventOf[c] = "PROMOTION"
       /\ \/ arts[UnitOf[c]] # "absent" \/ receipt[UnitOf[c]] # "absent"
          \/ outcome[UnitOf[c]] # "absent"
    \/ /\ EventOf[c] = "CAPABILITY_LOCK"
       /\ lock[UnitOf[c]] # "absent" \/ notLocked[UnitOf[c]] # "absent"

(* No file of a cell exists, not even a torn one, unless every earlier     *)
(* cell of the frozen order is still progress-valid: neither crashes nor   *)
(* abandoned runs leave evidence or governance out of order (order.py      *)
(* authorize, completed_cells; "can never be minted out of frozen order"). *)
NothingOutOfOrder == \A c \in Cell : Touched(c) => PrefixDone(c)

(* A validly failed acquisition yields no artifact, receipt or lock and no *)
(* run of its universe's downstream cells; a NOT-PROMOTED or NOT-LOCKED    *)
(* record exists for no other acquisition (order.py "authorizes nothing":  *)
(* no promotion, no lock creation, no capability consumption).             *)
FailureAuthorizesNothing ==
    \A u \in Units :
        /\ AcquisitionFailed(u) =>
              /\ arts[u] = "absent" /\ receipt[u] = "absent" /\ lock[u] = "absent"
              /\ \A c \in Cell : CapabilityCell(c) /\ UnitOf[c] = u => run[c] = "absent"
        /\ outcome[u] # "absent" \/ notLocked[u] # "absent" => AcquisitionFailed(u)

(* A capability is consumed only under the complete lock of the universe's *)
(* own acquisition, which shipped twice and passed validation, and no      *)
(* downstream cell at all starts before both universes of its family have  *)
(* a terminal lock event (order.py authorize).                             *)
ConsumedUnderOwnLock ==
    \A c \in Cell : EventOf[c] \in DownstreamEvents /\ run[c] # "absent" =>
        /\ \A u \in Units : SameFamily(UnitOf[c], u) =>
              lock[u] = "written" \/ notLocked[u] = "written"
        /\ UnitOf[c] \in Units =>
              LET u == UnitOf[c] IN
              /\ lock[u] = "written" /\ receipt[u] = "written" /\ arts[u] = "written"
              /\ \A e \in {"T0", "T1"} : /\ run[AcqCell[u][e]] = "closed"
                                         /\ verdict[AcqCell[u][e]] = "ship"
              /\ validated[AcqCell[u]["T1"]] = "passed"

(* A finished run and a finished governance file are never touched again:  *)
(* there is no re-promotion, no re-lock and no retry of a failed           *)
(* acquisition (emit_* and lock.promote write once; no duplicate cell).    *)
WrittenOnce ==
    [][/\ \A c \in Cell : run[c] = "closed" =>
             /\ run'[c] = "closed" /\ verdict'[c] = verdict[c]
             /\ validated'[c] = validated[c]
       /\ \A u \in Units :
             /\ arts[u] = "written" => arts'[u] = "written"
             /\ receipt[u] = "written" => receipt'[u] = "written"
             /\ outcome[u] = "written" => outcome'[u] = "written"
             /\ lock[u] = "written" => lock'[u] = "written"
             /\ notLocked[u] = "written" => notLocked'[u] = "written"]_vars

(* What the validators re-derive from the files is an append-only ledger   *)
(* of consistent terminal states: a cell once done stays done, with the    *)
(* same terminal state (order.py: "never converted to COMPLETE").          *)
LedgerView == {[cell |-> c, state |-> LocalState(c)] : c \in CompletedCells}

Ledger == INSTANCE ProgressLedger WITH ledger <- LedgerView

LedgerImplemented == Ledger!Spec

(* With commands that are never interrupted and acquisition runs that      *)
(* ship, the walk reaches the end of the order however the candidate       *)
(* validations and the downstream runs come out (EPOCH-1-CLOSURE.md: a     *)
(* failed acquisition advances the frozen prefix).                         *)
Uninterrupted ==
    crashes = 0 /\ \A c \in Cell : EventOf[c] \in {"T0", "T1"} => verdict[c] # "fix"

OrderCompletes == []Uninterrupted => <>(CompletedCells = Cell)

(* An acquisition whose two runs are complete gets a terminal promotion    *)
(* state: promoted, or a recorded refusal (promotion.py "T1 SHIP ->        *)
(* promotion; T1 failure -> no promotion").                                *)
AcquisitionSettles ==
    \A u \in Units : Acquired(u) ~> AcqCell[u]["PROMOTION"] \in CompletedCells

(* A failed acquisition ends in its NOT-LOCKED terminal, whatever command  *)
(* is interrupted (order.py emit_capability_lock_outcome: "never a lock,   *)
(* never a deadlock").                                                     *)
FailureReachesTerminal ==
    \A u \in Units : AcquisitionFailed(u)
                        ~> AcqCell[u]["CAPABILITY_LOCK"] \in CompletedCells
=============================================================================
