---------------------------- MODULE EpochLineage ----------------------------
(***************************************************************************)
(* The boundary between the closed epoch 1 and epoch 2, and the execution  *)
(* lock's lineage across it.  Which epoch is live is stored nowhere: it is *)
(* derived again by every command from the transition record and the       *)
(* closure file (harness/epoch.py), and with it the state tree and the     *)
(* locks in force.  harness/epoch_transition.py makes the transition,      *)
(* harness/mint_execution_lock.py re-mints and finalizes the active        *)
(* epoch's execution lock, the owner amends and finalizes the protocol     *)
(* lock by hand, the runner's gates read them all, and the promotion       *)
(* controller (harness/promotion.py) reads none of them.                   *)
(*                                                                         *)
(* One command runs at a time; harness, protocol and closure files may be  *)
(* edited under it.  A file is opened and flushed in two steps, and a      *)
(* crash in between leaves it torn.  Bytes of a lock are its value.        *)
(***************************************************************************)
EXTENDS Naturals, Sequences

CONSTANTS
    Harness,        \* harness bytes the tree may hold; all of them list epoch.py
    ClosedHarness,  \* the harness bytes epoch 1 was finalized on
    Governed,       \* protocol-document bytes the tree may hold
    StatusArgs,     \* values the operator gives mint's --status
    MaxAmendments,  \* bound: amendments of one lock
    MaxCrashes      \* bound: commands that may die half way

ASSUME HarnessAssumption == ClosedHarness \notin Harness
ASSUME BoundAssumption   == MaxAmendments \in Nat /\ MaxCrashes \in Nat

VARIABLES
    closure,    \* EPOCH-1-CLOSURE.md: frozen, or edited since
    record,     \* EPOCH-2-TRANSITION.json
    exec,       \* epoch -> its execution lock
    proto,      \* PROTOCOL-LOCK-EPOCH2.json
    harness,    \* harness bytes on disk
    governed,   \* protocol-document bytes on disk
    runs,       \* wired estimand runs started: epoch, and the lock in force
    receipts,   \* promotion receipts: epoch of the tree, execution lock named
    closedTree, \* epoch 1's state tree: as recorded, or extended
    proc,       \* the command in progress
    crashes

tree  == <<runs, receipts, closedTree>>
files == <<harness, governed, closure>>
vars  == <<closure, record, exec, proto, harness, governed, runs, receipts,
           closedTree, proc, crashes>>

Epoch    == {1, 2}
Statuses == StatusArgs \cup {"open-round2", "FINAL"}

Amendment == [from : Harness \cup {ClosedHarness}, to : Harness \cup {ClosedHarness},
              after : Statuses]

(* A lock file: finalized stands for finalized_at and finalization_commit. *)
Lock == [file : {"absent", "torn", "written"}, status : Statuses,
         genesis : Harness \cup {ClosedHarness}, pins : Harness \cup {ClosedHarness},
         amendments : Seq(Amendment), finalized : BOOLEAN]

Finalization(pins) == [from |-> pins, to |-> pins, after |-> "FINAL"]

(* The recorded bytes of EXECUTION-LOCK.json, which the transition record  *)
(* and every epoch-2 lock cite by hash.                                    *)
ClosedLock ==
    [file |-> "written", status |-> "FINAL", genesis |-> ClosedHarness,
     pins |-> ClosedHarness, amendments |-> <<Finalization(ClosedHarness)>>,
     finalized |-> TRUE]

\* bug: the execution lock is minted with the protocol lock's status
FreshLockLiving(pins) ==
    [file |-> "written", status |-> "living-lock", genesis |-> pins, pins |-> pins,
     amendments |-> <<>>, finalized |-> FALSE]

(* A lock as _mint_execution_lock writes it.                               *)
FreshLock(pins) ==
    [file |-> "written", status |-> "open-round2", genesis |-> pins, pins |-> pins,
     amendments |-> <<>>, finalized |-> FALSE]

Idle == [op |-> "idle"]

-----------------------------------------------------------------------------
(* transition_record: the record activates epoch 2 while it parses and     *)
(* cites the closure file's actual bytes; otherwise the tree is epoch 1.   *)
TransitionRecord == record.file = "written" /\ record.cites = closure

ActiveEpoch == IF TransitionRecord THEN 2 ELSE 1

(* validate_execution_final, on the bytes of a lock.                       *)
TerminalAt(am)    == {i \in DOMAIN am : am[i].after = "FINAL"}
ExecutionFinal(l) ==
    /\ l.status \in {"open-round2", "FINAL"}
    /\ IF l.status = "FINAL"
       THEN l.finalized /\ TerminalAt(l.amendments) = {Len(l.amendments)}
       ELSE TerminalAt(l.amendments) = {}

(* validate_protocol_final and the tip of the amendment chains: the lock   *)
(* names the documents on disk, and a FINAL one has grown no further.      *)
ProtocolFinal ==
    /\ proto.file = "written" /\ proto.tip = governed
    /\ proto.status = "FINAL" => proto.count = proto.amendments

(* validate_epoch1_historical_lock.                                        *)
HistoricalLock == exec[1] = ClosedLock

(* preflight for the active epoch: the record and the historical lock under *)
(* epoch 2, and the lock in force against the harness bytes on disk.       *)
Preflight(e) ==
    /\ exec[e].file = "written" /\ exec[e].pins = harness
    /\ ExecutionFinal(exec[e])
    /\ e = 2 => HistoricalLock /\ ProtocolFinal

\* bug: only the execution lock's status is looked at
GateOnExecutionOnly(e) == exec[e].status = "FINAL" /\ exec[e].finalized

(* final_lock_gate; epoch 1's protocol lock is FINAL as recorded.          *)
FinalLockGate(e) ==
    /\ exec[e].status = "FINAL" /\ exec[e].finalized
    /\ e = 2 => proto.status = "FINAL"

\* bug: the recorded status alone makes a lock terminal
TerminalStatus(l) == l.status = "FINAL"

\* bug: no lock is ever terminal
TerminalNever(l) == FALSE

(* _terminal, in mint_execution_lock.                                      *)
Terminal(l) == l.status = "FINAL" \/ TerminalAt(l.amendments) # {}

-----------------------------------------------------------------------------
Init ==
    /\ closure = "frozen"
    /\ record = [file |-> "absent", cites |-> "frozen"]
    /\ \E h \in Harness :
          /\ harness = h
          /\ exec = <<ClosedLock, [FreshLock(h) EXCEPT !.file = "absent"]>>
    /\ governed \in Governed
    /\ proto = [file |-> "absent", status |-> "living-lock", tip |-> governed,
                amendments |-> 0, count |-> 0]
    /\ runs = {} /\ receipts = {} /\ closedTree = "recorded"
    /\ proc = Idle /\ crashes = 0

(* ----------------------- epoch_transition --transition ----------------- *)

(* Refused once any of the three files exists or epoch 1's lock drifted;   *)
(* the record is opened with the closure and genesis bytes read just now.  *)
StartTransition ==
    /\ proc = Idle
    /\ record.file = "absent" /\ exec[2].file = "absent" /\ proto.file = "absent"
    /\ HistoricalLock
    /\ record' = [file |-> "torn", cites |-> closure]
    /\ proc' = [op |-> "record", genesis |-> governed]
    /\ UNCHANGED <<exec, proto, files, tree, crashes>>

FinishRecord ==
    /\ proc.op = "record"
    /\ record' = [record EXCEPT !.file = "written"]
    /\ proc' = [proc EXCEPT !.op = "recorded"]
    /\ UNCHANGED <<exec, proto, files, tree, crashes>>

(* _mint_execution_lock: the harness bytes observed now, status open.      *)
OpenFreshLock ==
    /\ proc.op = "recorded"
    /\ exec' = [exec EXCEPT ![2] = [FreshLock(harness) EXCEPT !.file = "torn"]]
    /\ proc' = [proc EXCEPT !.op = "fresh"]
    /\ UNCHANGED <<record, proto, files, tree, crashes>>

FinishFreshLock ==
    /\ proc.op = "fresh"
    /\ exec' = [exec EXCEPT ![2].file = "written"]
    /\ proc' = [proc EXCEPT !.op = "minted"]
    /\ UNCHANGED <<record, proto, files, tree, crashes>>

(* _mint_protocol_lock: refused when a governed document changed since the *)
(* record was written; the record and the execution lock stay.             *)
OpenProtocolLock ==
    /\ proc.op = "minted" /\ governed = proc.genesis
    /\ proto' = [proto EXCEPT !.file = "torn", !.tip = governed]
    /\ proc' = [proc EXCEPT !.op = "protocol"]
    /\ UNCHANGED <<record, exec, files, tree, crashes>>

RefuseProtocolLock ==
    /\ proc.op = "minted" /\ governed # proc.genesis
    /\ proc' = Idle
    /\ UNCHANGED <<record, exec, proto, files, tree, crashes>>

FinishProtocolLock ==
    /\ proc.op = "protocol"
    /\ proto' = [proto EXCEPT !.file = "written"]
    /\ proc' = Idle
    /\ UNCHANGED <<record, exec, files, tree, crashes>>

(* -------------------------- mint_execution_lock ------------------------ *)

(* The active epoch's lock, loaded, not terminal, rewritten in place: the  *)
(* file is torn until the new bytes are flushed.                           *)
Rewrite(e, lock) ==
    /\ proc = Idle
    /\ e = ActiveEpoch
    /\ exec[e].file = "written" /\ ~Terminal(exec[e])
    /\ exec' = [exec EXCEPT ![e].file = "torn"]
    /\ proc' = [op |-> "lock", epoch |-> e, lock |-> lock]
    /\ UNCHANGED <<record, proto, files, tree, crashes>>

(* Nothing is minted unless a harness byte changed; --status goes into the *)
(* amendment, never into the status of the lock.                           *)
Mint(e, status) ==
    /\ exec[e].pins # harness
    /\ Len(exec[e].amendments) < MaxAmendments
    /\ Rewrite(e, [exec[e] EXCEPT
                     !.pins = harness,
                     !.amendments = Append(@, [from |-> exec[e].pins, to |-> harness,
                                               after |-> status])])

(* --finalize: refused while a harness byte is unrecorded.                 *)
Finalize(e) ==
    /\ exec[e].pins = harness
    /\ Rewrite(e, [exec[e] EXCEPT
                     !.status = "FINAL", !.finalized = TRUE,
                     !.amendments = Append(@, Finalization(exec[e].pins))])

FinishLock ==
    /\ proc.op = "lock"
    /\ exec' = [exec EXCEPT ![proc.epoch] = proc.lock]
    /\ proc' = Idle
    /\ UNCHANGED <<record, proto, files, tree, crashes>>

(* ----------------------- the runner and the controller ----------------- *)

(* run_arm_h1: preflight, then the FINAL-lock gate of a wired estimand     *)
(* cell; the run's files go under the active epoch's state root.           *)
StartRun(e) ==
    /\ proc = Idle
    /\ e = ActiveEpoch
    /\ Preflight(e) /\ FinalLockGate(e)
    /\ runs' = runs \cup {[epoch |-> e, lock |-> exec[e]]}
    /\ UNCHANGED <<record, exec, proto, files, receipts, closedTree, proc, crashes>>

(* promotion.advance under epoch 2: a universe whose runs are there is     *)
(* promoted.  _lock_shas reads EXECUTION-LOCK.json, whatever the epoch.    *)
GoverningLock == exec[1]

Promote ==
    /\ proc = Idle
    /\ ActiveEpoch = 2 /\ \E r \in runs : r.epoch = 2
    /\ receipts' = receipts \cup {[epoch |-> 2, lock |-> GoverningLock]}
    /\ UNCHANGED <<record, exec, proto, files, runs, closedTree, proc, crashes>>

(* promotion.advance under epoch 1: the closed tree ends in a recorded     *)
(* NOT-PROMOTED, so its CAPABILITY_LOCK event is owed and gets recorded.   *)
AdvanceClosed ==
    /\ proc = Idle
    /\ ActiveEpoch = 1 /\ closedTree = "recorded"
    /\ closedTree' = "extended"
    /\ UNCHANGED <<record, exec, proto, files, runs, receipts, proc, crashes>>

(* ------------------------------ by hand -------------------------------- *)

Edit ==
    /\ \/ harness' \in Harness \ {harness} /\ UNCHANGED <<governed, closure>>
       \/ governed' \in Governed \ {governed} /\ UNCHANGED <<harness, closure>>
       \/ closure = "frozen" /\ closure' = "edited" /\ UNCHANGED <<harness, governed>>
    /\ UNCHANGED <<record, exec, proto, tree, proc, crashes>>

(* A forward amendment of a governed document, even of a FINAL lock.       *)
AmendProtocol ==
    /\ proc = Idle
    /\ proto.file = "written" /\ proto.tip # governed
    /\ proto.amendments < MaxAmendments
    /\ proto' = [proto EXCEPT !.tip = governed, !.amendments = @ + 1]
    /\ UNCHANGED <<record, exec, files, tree, proc, crashes>>

FinalizeProtocol ==
    /\ proc = Idle
    /\ proto.file = "written" /\ proto.status = "living-lock"
    /\ proto' = [proto EXCEPT !.status = "FINAL", !.count = proto.amendments]
    /\ UNCHANGED <<record, exec, files, tree, proc, crashes>>

Crash ==
    /\ proc # Idle /\ crashes < MaxCrashes
    /\ proc' = Idle
    /\ crashes' = crashes + 1
    /\ UNCHANGED <<record, exec, proto, files, tree>>

Transition == \/ StartTransition \/ FinishRecord \/ OpenFreshLock \/ FinishFreshLock
              \/ OpenProtocolLock \/ RefuseProtocolLock \/ FinishProtocolLock

MintLock == \/ \E e \in Epoch : Finalize(e) \/ \E s \in StatusArgs : Mint(e, s)
            \/ FinishLock

Next == \/ Transition \/ MintLock
        \/ \E e \in Epoch : StartRun(e)
        \/ Promote \/ AdvanceClosed
        \/ Edit \/ AmendProtocol \/ FinalizeProtocol \/ Crash

Spec == Init /\ [][Next]_vars

-----------------------------------------------------------------------------
TypeOK ==
    /\ closure \in {"frozen", "edited"}
    /\ record \in [file : {"absent", "torn", "written"}, cites : {"frozen", "edited"}]
    /\ exec \in [Epoch -> Lock]
    /\ proto \in [file : {"absent", "torn", "written"}, status : {"living-lock", "FINAL"},
                  tip : Governed, amendments : Nat, count : Nat]
    /\ harness \in Harness /\ governed \in Governed
    /\ runs \subseteq [epoch : Epoch, lock : Lock]
    /\ receipts \subseteq [epoch : Epoch, lock : Lock]
    /\ closedTree \in {"recorded", "extended"}
    /\ \/ proc = Idle
       \/ proc \in [op : {"record", "recorded", "fresh", "minted", "protocol"},
                    genesis : Governed]
       \/ proc \in [op : {"lock"}, epoch : Epoch, lock : Lock]
    /\ crashes \in Nat

(* The execution lock an estimand run started under is still on disk, byte *)
(* for byte, after any further command, edit or crash, so all runs of the  *)
(* epoch share one lock; epoch 1, its tree holding later harness bytes,    *)
(* starts none (mint_execution_lock.py: "once FINAL ... ANY further mint   *)
(* or finalize is REFUSED").                                               *)
RunsKeepTheirLock == \A r \in runs : r.epoch = 2 /\ r.lock = exec[2]

(* A transition that died half way, at any of its three writes, or an      *)
(* epoch that is not finalized authorizes nothing: runs and receipts exist *)
(* only when the record and both epoch-2 locks are whole and FINAL         *)
(* (epoch_transition.py: minted OPEN; "the runner's FINAL gate refuses").  *)
HalfTransitionAuthorizesNothing ==
    runs \cup receipts # {} =>
        /\ record.file = "written"
        /\ exec[2].file = "written" /\ exec[2].status = "FINAL"
        /\ proto.file = "written" /\ proto.status = "FINAL"

(* The amendments of a whole lock lead, without a gap, from the bytes it   *)
(* was minted on to the bytes it pins, and nothing follows a terminal one, *)
(* whatever --status its minters gave (preflight.py "exactly ONE terminal  *)
(* amendment ... and must be the LAST").                                   *)
Reached(l, i) == IF i = 0 THEN l.genesis ELSE l.amendments[i].to

LineageSound ==
    \A e \in Epoch : exec[e].file = "written" =>
        LET am == exec[e].amendments IN
        /\ exec[e].pins = Reached(exec[e], Len(am))
        /\ \A i \in DOMAIN am : am[i].from = Reached(exec[e], i - 1)
        /\ TerminalAt(am) \subseteq {Len(am)}

(* The closed epoch's lock keeps its recorded bytes whatever epoch a tool  *)
(* derives, a torn record or an edited closure file included, and while    *)
(* the record is good no command writes the closed state tree (epoch.py:   *)
(* "epoch-1 state is never written to").                                   *)
ClosedEpochKept ==
    [][/\ exec'[1] = exec[1]
       /\ TransitionRecord => closedTree' = closedTree]_vars
=============================================================================
