# Formal models of the RCOS Fam-C harness

RCOS studies whether a capability acquired by one model can be reused by itself
or by another.  Its Fam-C benchmark is run by a Python harness whose claims rest
on discipline of state: cells are run in one frozen order, a capability is
promoted and locked only from evidence of its own acquisition, a failed
acquisition is a recorded outcome that authorizes nothing, and every run leaves a
hash chain.  No database and no server keeps that discipline.  All state is files,
written by commands that may be interrupted, and every command derives what is
done and what is allowed from those files again.

These modules model that core, check it with TLC on small instances and prove the
main safety properties with TLAPS for every instance.

## 1. The system

| Component | State it keeps | Operations | Talks to |
|---|---|---|---|
| Frozen order (`harness/order.py`) | `ORDER-EXPANSION.json`: the ordered list of cells | `expand`, `authorize`, `authorize_event` | asked by the runner and the controller before anything else |
| Progress derivation (`order.py`) | none: re-derived from files | `_local_state`, `progress_valid`, `completed_cells`, `cell_state` | reads run directories and governance files |
| Acquisition governance (`promotion.py`, `order.py emit_*`, `lock.py promote`) | artifacts, receipt, outcome, lock and lock outcome of each capability universe | `advance`: promote, record NOT-PROMOTED, lock, record NOT-LOCKED | consumes two finished runs; unblocks the runner |
| Runner (`run_arm_h1.py`) | a run directory: manifest, arrival, receipts, chain | `main`, `_wire_chain` | asks the order, calls the model, writes the chain |
| Evidence chain (`chain.py`) | `EVIDENCE-CHAIN.jsonl` | open, `append`, `audit`, `verify_chain` | written by the runner, judged by the validators |
| Replacement ledger (`invalid.py`) | one JSON file of pairs | `record_run`, `request_replacement`, `complete_replacement` | used beside the order |
| Epoch lineage (`epoch*.py`, `mint_execution_lock.py`) | transition record, two locks with amendments | transition, re-mint, finalize | decides the state root of all paths |
| Lock authorities (`preflight.py`, `lock.py`) | locks and git history | validate | gates the runner's start |
| Usage and identity (`usage.py`, `identity.py`) | request, receipt, normalized usage, identity of a call | `recorded_call`, `write_normalized_usage`, `record_identity`, `verify_*` | called by the runner, verified by chain gate and admissibility |
| Adaptation and observer (`adaptation.py`, `a13_observer.py`) | plan, journal, seal, grading and causal receipt of a cell; counters in the process | three legs in an observed region, grading, `derive_causal_contribution` | called by the runner after the execution |
| Reuse log (`reuse_log.py`) | one record of a cell | `write_record` | written by the runner, judged by the order |
| Admissibility and readiness | none: re-derived from files | `classify_run_dir` and the conformance checks | reads what the runner left |
| Containment, sandbox, sealing | mounts and containers | run one command | called by the runner |

How one family of one block proceeds: for each of the capability universes A and C,
T0 and T1 are model runs, PROMOTION and CAPABILITY_LOCK are events of the
controller; then each downstream task is run in four universes, of which A and C
consume their capability and B and D solve without one.  T1 also tests T0's frozen
candidate.  If that validation fails, the universe ends NOT-PROMOTED, NOT-LOCKED
and its downstream cells NOT-EVALUABLE, and the order goes on.

What is hard about it:

* the done set is stored nowhere, so every later write may change what an earlier
  cell is taken for;
* every file is written with `open("w")` and flushed at the close, so a crash
  leaves an empty or partial file, and most writers refuse a file that exists;
* the runner checks its gate, then waits minutes for a model, then writes;
* no file is locked: two runners, or two controllers, are not excluded;
* failure is an ordinary path, and the wrong treatment of it has once stopped the
  whole order (EPOCH-1-CLOSURE.md);
* the epoch in force, and with it every path, follows from whether one file parses;
* an attempt that dies leaves its files under the names the next attempt uses, and
  most of a cell's evidence is only as good as the hashes that bind one file to
  another.

`PROJECT.json` lists each such hazard at its line, with the properties that would
notice it.

## 2. The modules

| Module | Models |
|---|---|
| `FrozenOrder` | operators: the expansion, request resolution, authorization |
| `OrderWalk`, `OrderWalk_proofs` | requests in any order against one frozen expansion |
| `ProgressLedger` | abstract: an append-only ledger of settled cells |
| `AcquisitionOrder` | the walk on disk: runner, controller, files, crashes |
| `AcquisitionOrder_proofs`, `AcquisitionWalk_proofs` | theorems |
| `EvidenceChain` | one run directory under several runners and crashes |
| `EvidenceChain_proofs`, `EvidenceSerial_proofs` | theorems, for any runners and for one at a time |
| `PairLedger`, `PairLedger_proofs` | the replacement ledger of one pair |
| `EpochLineage`, `EpochLineage_proofs` | the epoch boundary and the execution lock's lineage |
| `UsageRules` | operators: usage normalization and the bindings of a call's artifacts |
| `CausalReceipt` | operators: legs, causal receipt, reuse record |
| `TreatmentCell`, `TreatmentCell_proofs` | one estimand cell from its call to its chain |
| `MC_*` | instances for TLC |

```
FrozenOrder <- OrderWalk <- MC_OrderWalk
     ^ compared with the cells of
MC_AcquisitionOrder -> AcquisitionOrder  implements  ProgressLedger
                             ^ one cell of it is implemented by
                       EvidenceChain

UsageRules, CausalReceipt <- TreatmentCell <- MC_TreatmentCell
EpochLineage <- MC_EpochLineage
```

**FrozenOrder and OrderWalk.**  `Expand(letters)` is `expand` on an order text:
blocks and families and tasks are constants, the arm letters of each task an
argument.  A downstream request names a lane and an arm, an acquisition request an
event and a universe, and `Authorize` / `AuthorizeEvent` give the refusals in the
code's order.  A request may also name things outside the frozen universe.
`OrderWalk` makes any request at any time; a granted one joins `done`.  The
refusal of a failed universe's downstream cells is in `AcquisitionOrder`, which
has the runs it depends on.

**AcquisitionOrder.**  One variable per kind of file:

| Variable | File | Values |
|---|---|---|
| `run[c]` | run directory of a model cell | absent; manifest, no chain; chain not graded; audited |
| `verdict[c]` | `verdict` in its manifest | the checker's verdicts |
| `validated[c]` | candidate-validation link of a T1 chain | none, failed, passed |
| `arts[u]` | `engine.py` and `adapter_notes.md` | absent, torn, first only, written |
| `receipt[u]`, `outcome[u]` | `PROMOTION-RECEIPT.json`, `PROMOTION-OUTCOME.json` | absent, torn, written |
| `lock[u]`, `notLocked[u]` | `CAPABILITY_LOCK.json`, `CAPABILITY-LOCK-OUTCOME.json` | absent, torn, written |
| `proc` | the command in progress | none, or an operation and its cell |

The derived state (`PromotionState`, `LockState`, `LocalState`, `CompletedCells`,
`Authorized`, `NextEventIs`) is one operator per validator.  Actions come in pairs
around each write.  A command's later writes are made by the same command:
`RecordNotPromoted`, `FinishOutcome`, `ContinueNotLocked` and `FinishNotLocked`
are one call of `advance`.  `Crash` ends the command between any two of its steps.

Abstractions.  The many byte comparisons of `_promotion_provenance_reasons` become
`Provenance`: the two runs are closed, the candidate passed, the artifacts are
whole; nothing in the model edits a file except the commands.  `manifest.json`
beside the minted artifacts is rewritten by each mint from the same inputs and is
part of `FinishMint`.  A T0 without a solver, a producer contract that is missing
or does not conform, and a denied evidence grade are further reasons to refuse a
promotion.  They are not told apart; each has the effect of the refusal that the
run `settles` shows.  One command runs at a time.

**EvidenceChain** drops that last restriction for one run directory.  A hash is the
content it commits to, and through `prev` everything before it, so equality of
hashes is equality of histories.  A payload is the number of the attempt that
wrote it.  A runner holds the links in memory and appends lines to the file, so
memory and file can differ; opening link 0 truncates the file.  `wired` is where in
`_wire_chain` a runner is: how many of the links it owes it has appended.  `Complete` is what
the order's validator accepts.  The code also requires the identity, usage and
provenance files beside the chain; the model's weaker test makes its statements
about `Complete` runs cover more runs, and its refusals to start come earlier.

**PairLedger** has a copy of the record per process, taken when the file is opened,
and saves in two steps.

**EpochLineage.**  `TransitionRecord` and `ActiveEpoch` are derived by every action
that the code derives them in.  A lock is a record of its status, the harness bytes
it was minted on and pins, its amendments, and whether it is finalized; `exec[1]`
is epoch 1's as recorded.  The transition's three writes, `Mint` and `Finalize`
open and flush the file in two steps.  `StartRun` is the runner's preflight and
FINAL gate, `Promote` and `AdvanceClosed` the controller under either epoch.
`Edit` changes harness, protocol or closure bytes at any time, also in the middle
of a transition.  All of a lock's harness files are one value, and its
`frozen_constants` ride with it.  The protocol lock is its tip, how many amendments
it has and how many it had when it was finalized: `protocol_tips` walks a chain per
document, the model one chain for all.  The order of universes within epoch 2 is
AcquisitionOrder's; here any epoch-2 run may be promoted.

**UsageRules** gives each `verify_*` function of `usage.py` and `identity.py` as a
predicate on the artifacts' bytes, `UsageGates` as admissibility joins them, and
`IdentityEvidence` what promotion asks of a run's identity record.  A hash is the
bytes it was taken over, so a recomputed hash is a copied value.
Endpoint and model of a provider are one name, the adapters are those of the code,
and token counts are small naturals with two more values for a field that is
missing and one that is no count.

**CausalReceipt** gives what the three legs produce, `derive_causal_contribution`
condition by condition, the runner's reuse record, and what its writer and its
reader accept.  An adaptation pair, an output, a checker and a report are model
values.  Of a report only its kind matters: blank, a crash, or something else.
`build_receipt` copies task and checker into every leg, so the conditions that
compare them hold by construction there, as in the code.

**TreatmentCell** is the runner's `main` from the call on, one action per file
written, for one cell and one process at a time.

| Variable | Code |
|---|---|
| `proc` | the process: where it is, the arrival's decision and notes, what each leg left, the trips it sampled |
| `observer` | `a13_observer`'s provider-call, region and trip counters and its journal flag |
| `stage`, `request[a]`, `receipt[a]`, `normalized[a]` | the files of attempt `a`'s call, named by the call id |
| `identity`, `arrival`, `reuse`, `manifest`, `chain` | files with one name in the run directory: each holds who wrote it |
| `committed` | the identity record whose hash and echo the chain's model-call link holds |
| `outs[x]`, `a13`, `causal` | the output file of each leg; plan, journal, seal, grading; the causal receipt |
| `paid`, `causal.caused`, `proc.judged` | not in the code: what really happened, for the properties to compare with |

An exception and a kill both end the process and leave the files; the next attempt
is a new process in the same run directory, with a working directory of its own.
`Crash` also stands for a refusal over data that is left out (a jail's launch
history, daemon events, an engine that differs from the locked one).  The legs run
only after an engine execution; a surface no schema or more than one covers omits
them (`Coverings` may hold 0 or 2 for that, a trip reaches the same path).
`EditCall` rewrites one artifact of a call, hashes recomputed or not, a receipt also
together with a normalized artifact written anew over it, before the chain's gate
reads it or after the cell is complete.  Of what the provider said, the echoed model
and the response id, it puts another value or none.  The chain is one step here;
its own steps are EvidenceChain's.

## 3. What the runs check

| Run | Instance | Checks |
|---|---|---|
| `order_walk` | 2 blocks, 2 families, 2 tasks, 81 texts | `TypeOK`, `OneNextRequest`, `AcquireBeforeDownstream`, `SequentialBlocks`, `EveryCellOnce` |
| `crash` | 1 family of 12 cells, verdicts ship and fix, 2 crashes, fair | `TypeOK`, `NothingOutOfOrder`, `FailureAuthorizesNothing`, `ConsumedUnderOwnLock`, `WrittenOnce`, `LedgerImplemented`, `OrderCompletes` |
| `settles` | 1 family, verdicts ship and fix, no crash, fair | `AcquisitionSettles` is violated |
| `torn` | 1 family, verdict ship, 1 crash, fair | `FailureReachesTerminal` is violated |
| `serial` | 1 runner, T1's four links, 4 attempts, 3 crashes | `OneAuthor`, `ReportedComplete`, `ManifestFinal`, `RunImplemented` |
| `race` | 2 runners, 3 links, 3 attempts, 1 crash | `TypeOK`, `GradedByOne`, `TamperEvident` |
| `rewrite` | 2 runners, 2 attempts | `ManifestFinal` is violated |
| `pairs` | 1 process, 2 arms, 3 recorded runs, 1 crash | `TypeOK`, `OneReplacement`, `GateOpensLawfully`, `OriginalsKept` |
| `half_pair` | the same, 2 recorded runs | `BothArmsReplaced` is violated |
| `epoch` | 2 harness and 2 protocol contents, statuses open-round2 and FINAL, 2 amendments, 2 crashes | `TypeOK`, `RunsKeepTheirLock`, `HalfTransitionAuthorizesNothing`, `LineageSound`, `ClosedEpochKept` |
| `cell` | both lanes, 2 attempts, 1 kill or edit | `TypeOK`, `ProvenMeansCaused`, `PaidCallsTraced`, `CompletedCellOwnsItsEvidence`, `AdmittedIffCoherent`, `PromotableIdentityRecorded`, `LedgerAcceptedUnlessUnfinished` |
| `contribution` | lane Q, 1 attempt, no kill, no edit | `ContributionRecorded` is violated |

The bounds.  The walk repeats one pattern per family, and the order's rules relate
a universe to its family and to the prefix: one family has two universes that may
fail independently and all four consumers; the boundary between families and
blocks is `OrderWalk`'s.  The tasks T2 to T4 are alike to the walk, so the disk model has one of them;
`OrderWalk` has two, to tell their sequences apart.  `MC_AcquisitionOrder` has TLC
compare its written-out cells with `FrozenOrder`'s expansion.  Two crashes allow one
while another's torn file is being worked around.  Two runners and three attempts
allow a third to come upon the leavings of two; four attempts in a row, three of
them dying, allow every pair of leftovers.  Three recorded runs allow a second
original of one arm before or after the replacement is allowed.
In `epoch` two amendments are a mint and a finalization, or two mints; two crashes
tear a lock after a torn transition, and two contents let a byte change and change
back under a command.  In `cell` a second attempt finds every leftover of a first
one that died or raised at any step.  One fault separates what a single edit or
kill can do; an attempt may raise on its own besides.  Usage blocks are one with
work, one without, and one with more cached tokens than sent, which lane Q's
adapter refuses and lane P's accepts.  An output may equal F's own records, so a
leg may ship without the engine's help.

Deadlock is not checked where the program really stops: an order that is finished
or stuck, attempts that are used up, a ledger nobody can open.

Fairness (`FairSpec`, liveness only).  The operator goes on issuing the command
that is due (`WF` of `Start`) and a started command runs (`WF` of `Proceed`): the
harness has no scheduler of its own, this is the operator's loop.  Runs of a cell
that is still authorized are repeated, and one eventually gets past a malformed
answer and past the gates behind the manifest (`SF` of `WriteManifest` and of
`OpenChain`).  Nothing is assumed about verdicts or validations.  `crash`,
`settles` and `torn` share this assumption, so the two refuted properties are not
refuted by an operator who stops.  `OrderCompletes` speaks of behaviours without a
crash and without an acquisition run that ends in fix: `settles` and `torn` show
that the order may stop otherwise.

Mutants.  Each property of a passing run has a mutant of the code that breaks it:
definitions marked `bug:` stand before the definition they replace.  They are
never used by a specification.

### Disagreements with what the code says of itself

1. `settles`: two COMPLETE acquisition runs, one with verdict fix, and a validation
   that passed: promotion is denied (`promotion.py:559`) and nothing records a
   refusal, so the order is stuck.  The code says such terminals exist to prevent
   exactly this (`order.py:40`).
2. `torn`: a crash inside the write of an outcome record leaves a file its reader
   ignores and its writer refuses to replace (`order.py:2220`, `2231`).  Torn
   receipts, locks and artifacts block in the same way.
3. `rewrite`: two runners authorized for one cell: the second rewrites the manifest
   of the run the first has closed, which then no longer verifies.
4. `half_pair`: a replacement allowed before the second arm was recorded covers one
   arm, and opens the gate that is said to need both.
5. `contribution`: a cell whose legs prove that the capability caused the outcome
   hands the reuse log a claim with the mechanism `a13-counterfactual-legs`
   (`run_arm_h1.py:4096`), which `write_record` does not know and refuses with
   REUSE-UNPROVEN (`reuse_log.py:133`).  The attempt ends after its paid call and
   before its manifest.  So does every retry that proves it: only unproven
   contributions are ever recorded.
Two more that need no run of their own: one or two steps of the models show them.

* `trip_slice` says that no receipt is ever written after a trip
  (`a13_observer.py:272`).  But a trip is a `RuntimeError`, and while the schema is
  resolved that is caught as a schema that does not cover the task
  (`run_arm_h1.py:2626`).  If exactly one other covers it, the legs go on
  (`ResolveSchema`) and `WriteCausal` writes a receipt that counts the trip, which
  nothing that reads the receipt looks at.  The schemas of this commit attempt no
  denied event: this is about the handler, not about a receipt that exists.
* In epoch 2 the locks of that epoch are the authority (`epoch.py:34`,
  `EPOCH-1-CLOSURE.md:67`), but a promotion names, and the order compares,
  `EXECUTION-LOCK.json` and `PROTOCOL-LOCK.json` of epoch 1 (`promotion.py:885`,
  `order.py:1517`; `GoverningLock`).  As the recorded bytes of epoch 1 never change,
  the comparison never fails, and it does not bind a promotion to the lock its runs
  started under.

More facts the models show in their state spaces.  A runner that dies
inside `_wire_chain` makes its cell impossible to complete: the retry's chain has
the dead attempt's genesis.  Two runners may interleave so that the chain of
a run that verifies begins with the other attempt's links; `GradedByOne` says what
survives of the chain's promise there, `OneAuthor` what holds without a race.

Of the epochs: a torn record, or an edited closure file, makes every command work
in epoch 1 again, where `promotion advance` then adds the NOT-LOCKED outcome the
closed tree still owes (`AdvanceClosed`); this is why `ClosedEpochKept` speaks of
the tree only while the record is good.  The torn record, and a torn lock, can be
replaced by no tool.  `mint --status FINAL` makes a lock terminal without
finalizing it: no run can start under it and no command can change it.

Of the cell: a paid call whose answer is malformed or empty leaves no file at all,
and an attempt that died is counted by no later one, as the enclosing total of
provider calls is one process's.  Two kinds of completed cell are refused by the
order for ever (`LedgerAcceptedUnlessUnfinished`), a third by admissibility: one
whose call reports no work (`AdmittedIffCoherent`).  Some edits pass every gate of
admissibility: another usage block whose normalized artifact is written anew, another
echoed model, another response id.  The gates ask whether the artifacts fit together
as one answer's, not whether they are the ones written, and the hashes of receipt and
normalized artifact in the chain's model-call link are compared with the files by
nobody.  The other echo is found when the run promotes, by `IdentityEvidence`
(`PromotableIdentityRecorded`): the chain's link commits to the record, and the echo
is compared with the lane's entry once more, so it is found also when it was edited
before the chain.  Another response id is then found only if it was edited after.

The runner's comment counts a counterfactual that was blocked, the derivation only one
that was refused with fix.

## 4. What is proved

### The order walk

For every expansion that satisfies the three assumptions of `AcquisitionOrder`
(universes and events name their cells uniquely; a universe's four acquisition
events are in order and before the downstream cells of their family; that every
frozen order satisfies them is `ExpansionFitsTheWalk`, below), every
verdict set and every number of crashes:

| Theorem | Property |
|---|---|
| `TypeInvariant` | `TypeOK` |
| `EvidenceWrittenOnce` | `WrittenOnce` |
| `FailureAuthorizesNothingHolds` | `FailureAuthorizesNothing` |
| `NothingOutOfOrderHolds` | `NothingOutOfOrder` |
| `ConsumedUnderOwnLockHolds` | `ConsumedUnderOwnLock` |
| `LedgerRefined` | `LedgerImplemented` |

The argument.  None of the invariants is inductive alone.

* `Inductive` joins the types (`TypeOK`, and `KindInv`: a command works on a cell
  of its own kind) with `BegunInv` (it never works on a finished run, and what it
  continues it has begun), `ClosedT1Inv` (a closed T1 chain has a validation) and
  `ProvenanceInv` (what is minted, received, locked or consumed comes from a passed
  acquisition, what is refused from a failed one).  `ProvenanceInv` needs `BegunInv`
  because a crash leaves files whose command is gone.  `FailureAuthorizesNothing`
  and `WrittenOnce` follow.
* Under it the derived states depend on a universe's own files only
  (`PromotionFacts`, `LockFacts`).  From that, a step leaves every settled cell
  settled, with the same state (`SettledStays`), and every complete prefix complete
  (`PrefixStays`).  The one delicate case is a T1 chain that closes with a failed
  validation, which settles later cells and unsettles none, because nothing
  has been written behind it.
* `Strong` adds `OrderInv` (what is written, and what a running command works on,
  is behind a complete prefix) and `RecordInv`.  It gives `NothingOutOfOrder` and
  `ConsumedUnderOwnLock`.  With `SettledStays` each step maps to a step of
  `ProgressLedger` or to a stutter, which is `LedgerRefined`.

### The epoch lineage

For every set of harness bytes without those of epoch 1, every set of protocol
bytes and of `--status` arguments, and every bound: `TypeInvariant`,
`RunsKeepTheirLockHolds`, `HalfTransitionAuthorizesNothingHolds`,
`LineageSoundHolds`, `ClosedEpochKeptHolds`.

`Inductive` joins the types with six facts.  Epoch 1's lock is the recorded one
(`ClosedInv`): it is terminal, so nothing rewrites it.  Every whole lock, and the
lock a command is about to flush, is sound (`SoundInv`).  How far a transition has
come bounds which files may exist (`PhaseInv`), which is what a crash leaves behind
and what makes a second transition impossible.  Runs exist only behind three whole
FINAL files (`RunsInv`), under the lock still there (`RunsKeepTheirLock`), and
receipts only after runs (`ReceiptsInv`).  A run of epoch 1
is impossible because the harness tree no longer holds the bytes its lock pins
(`HarnessAssumption`).  The step lemmas are one per family of actions; the heart of
them is that `Rewrite` needs a lock that is not terminal, and a lock with a run is.

### The replacement ledger

For every set of arms, settings and run ids and every bound, under one assumption:
no two processes hold the ledger of a pair at once (`OneHolder`).  Then
`TypeInvariant`, `OneReplacementHolds`, `GateOpensLawfullyHolds` and
`OriginalsKeptHolds`.  Without the assumption they are false, and the code does
nothing to ensure it: two copies save over each other.

`Inductive` says that every version of the record, on disk or in memory, is
lawful (`Lawful`: no rerun before a replacement is allowed, every rerun one of
its arms, for a named original, in a run of its own), and that a copy in memory is
the file or keeps what the file has (`CopyInv`).  One lemma per method shows that it
turns a lawful record into a lawful one that keeps the old; a save then only
exchanges two lawful versions, and a crash leaves the old one.

### The cell

For every set of arrivals, usage blocks and outputs, any number of attempts, kills
and edits: `TypeInvariant`, `ProvenMeansCausedHolds`, `PaidCallsTracedHolds`,
`CompletedCellOwnsItsEvidenceHolds`, `LedgerAcceptedHolds`,
`AdmittedIffCoherentHolds`, `PromotableIdentityRecordedHolds`.

`Inductive` is a conjunction of what holds at each point of the program: which
artifacts of its call the running attempt has (`TracedInv`), whether it is observed
(`ObserverInv`), which leg files are its own, and that an output it judged was its
own bytes (`LegsInv`), which recorded files carry its number (`OwnInv`), what the
manifest names (`ChainedInv`), and how the order will judge the record
(`LedgerInv`).  Files of attempts that ended are only constrained by their own
order, which is why the invariant survives a crash at every step.  What each part
needs from the others is in the assumptions of its lemma (`CallKept`, `LegsKept`, ...).

`AdmittedIffCoherentHolds` needs one more part, `DerivedInv`: up to the chain the
attempt's artifacts are all made from one usage block, and from there on whatever
edits leave still has its shape (`Shaped`): a receipt for the bytes sent, a normalized
artifact made from some such receipt, an identity record of this attempt.  In that
shape the gates' comparisons leave only the usage block, the echo and the id open, so
what passes them could have come from one answer (`PassesWritten`), and what one answer
with work left passes them (`WrittenPasses`, which is where the lane's preregistered
adapter has to be the one bound to its endpoint and model).

`PromotableIdentityRecordedHolds` needs `CommittedInv`: a chain commits only to an
identity record that its gate has just bound to the request, so the parameters in it are
those that were sent, whatever is edited later.  Together with the shape this leaves
the echo, which promotion compares with the lane's entry.

### The frozen order

For every list of blocks, families and downstream tasks without repetitions and every
order text: `TypeInvariant`, `OneNextRequestHolds`, `AcquireBeforeDownstreamHolds`,
`SequentialBlocksHolds`, `EveryCellOnceHolds`.

The inductive invariant is `Prefix`: the cells are the expansion of a text and the
done set is `1..k` for some `k`.  It is preserved because a request the order grants
is for cell `k + 1`, and that needs to know where every cell stands.  A position
divides into a block, a family and an offset (`PositionAt`, `PositionOf`), an offset
stands for one event and universe (`OffsetKeys`), so an experimental cell has one
position (`CellOnce`, `CellFor`), a call or an event matches at most one cell
(`CallMatchesOne`, `EventMatchesOne`), and what is resolved and granted is the next
(`CallGranted`, `EventGranted`).  The other properties are read off the same
positions: acquisition offsets come first (`AcquisitionFirst`) and families are
contiguous (`FamiliesContiguous`).

`ExpansionFitsTheWalk` joins this to the walk on disk: with the cells of any order
text's expansion for its constants, the three assumptions of `AcquisitionOrder` hold.
So the theorems of the walk are about every order `expand` can freeze, and what
`MC_AcquisitionOrder` has TLC compare for one small order holds for all.

### The evidence chain

`EvidenceChain_proofs` is for every set of runners, every sequence of links
that ends in an evaluation and its grade, and any number of attempts and crashes:
`TypeInvariant`, `GradedByOneHolds`, `TamperEvidentHolds`.  `Inductive` types the
links, on disk and in memory, as links that are hashed as they stand, and says of a
runner that the tip it continues ends in the links it has wired (`Wiring`).
A grade's own hash therefore spells out the whole sequence of its attempt; and as a
chain that verifies is what its last hash spells out (`LinkedHistory`), no
interleaving can change what stands before a grade, which is `GradedByOne`.  A
removal, an exchange or an alteration leaves a link whose hash is not the one its
neighbour or itself commits to; nothing in this depends on the chain's length.

`EvidenceSerial_proofs` assumes that runners follow one another (`OneRunner`):
`OneAuthorHolds`, `ReportedCompleteHolds`, `ManifestFinalHolds` and
`RunImplementedHolds`.  The code does not ensure the assumption.  The operator's
loop keeps it, one runner per cell at a time; without it `rewrite` refutes
`ManifestFinal`, and two attempts that overlap refute `OneAuthor`.  `Serial` says what
an attempt finds and leaves at each point: the chain on disk begins with an attempt
not after the manifest's, if it is the manifest's own it is its work so far and
nothing else (`IsWork`), and a report is made only of a complete run with no
attempt under way.  For the refinement, `NextRefines` maps each step of
the directory to a step of one model cell of `AcquisitionOrder` or to a stutter.
The cell is a control cell, one that consumes no lock; the delicate case is that no
unfinished chain verifies (`UnfinishedIncomplete`, `OnlyAuditedVerifies`), so that the
abstract run closes when the last link is appended and at no other step.

### What is only model-checked

`OrderCompletes` and the refuted `AcquisitionSettles` and `FailureReachesTerminal`
are liveness, outside the prover's reach.  The other refuted properties are false, and
their runs are the evidence.  Every other property of a passing run is a theorem above.

## 5. Not modelled

* Edits of the epoch's locks by hand, and of a run's or a universe's files after a
  promotion; the instance freeze and the git ancestry `preflight.py` checks.
* Two controllers at once, two processes at one replacement ledger, and two runners
  in one cell before their chains (the chain itself is `EvidenceChain`'s).
* The prompts, the staging of the task, and the rules of the two schemas: a task's
  bytes are covered or not.  What a jail, a container or an audit hook does is the
  system's; the model has what the harness records of it.
* `specificity.py`, `conformance.py`, `contract_shape.py`, `t4_ids.py`: read-only
  comparisons of one file with another, without a state of their own.
* Containment, sealing, git: decided by the operating system or by other programs.
* Pi, DSH and Archon, which the documents name, are not in the repository.
* The vertical slices, calibration and benchmark data: scripts and recorded results.

## 6. Plan

Done: the order walk and its ledger, the evidence chain, the replacement ledger, the
epoch lineage, the call with its bindings, the causal legs and the reuse record, and
a proof of every safety property and refinement the passing runs check.

What is left, in the order of its worth:

1. Two controllers over `AcquisitionOrder`'s files, each with a `proc` of its own.
2. `conformance.verdict` and the contract-shape checks as operators, with the T4
   refusals of a promotion they lead to.
3. A single-writer evidence log as the abstract specification of `EvidenceChain`.
