------------------------ MODULE EpochLineage_proofs ------------------------
(***************************************************************************)
(* The boundary of the two epochs, for every set of harness and document   *)
(* bytes, every set of --status values and every number of amendments and  *)
(* crashes.  The one inductive invariant says where a command may be, and  *)
(* that a lock which is terminal, or on which a run was started, can no    *)
(* longer be the object of any command.                                    *)
(***************************************************************************)
EXTENDS EpochLineage, TLAPS

(* A lock whose amendments lead without a gap from its genesis to its pins *)
(* and end at the first terminal one.                                      *)
Sound(l) ==
    /\ l.pins = Reached(l, Len(l.amendments))
    /\ \A i \in DOMAIN l.amendments : l.amendments[i].from = Reached(l, i - 1)
    /\ TerminalAt(l.amendments) \subseteq {Len(l.amendments)}

ClosedInv == exec[1] = ClosedLock

SoundInv == \A e \in Epoch : Sound(exec[e])

(* The files a command in progress has not written yet.                    *)
PhaseInv ==
    /\ proc.op \in {"record", "recorded"} => exec[2].file = "absent"
    /\ proc.op \in {"record", "recorded", "fresh", "minted"} => proto.file = "absent"
    /\ proc.op = "lock" => /\ proc.epoch = 2 /\ ~Terminal(exec[2])
                           /\ Sound(proc.lock)

RunsInv ==
    runs # {} =>
        /\ proc = Idle
        /\ record.file = "written"
        /\ exec[2].file = "written" /\ exec[2].status = "FINAL"
        /\ proto.file = "written" /\ proto.status = "FINAL"

ReceiptsInv == receipts # {} => runs # {}

Inductive ==
    /\ TypeOK /\ ClosedInv /\ SoundInv /\ PhaseInv
    /\ RunsInv /\ RunsKeepTheirLock /\ ReceiptsInv

-----------------------------------------------------------------------------
(* The recorded bytes of epoch 1's lock are a lock, sound and terminal.    *)
LEMMA ClosedLockFacts ==
    ClosedLock \in Lock /\ Sound(ClosedLock) /\ Terminal(ClosedLock)
<1>1. ClosedLock \in Lock
  BY DEF ClosedLock, Lock, Statuses, Finalization, Amendment
<1>2. Sound(ClosedLock)
  BY DEF ClosedLock, Sound, Reached, TerminalAt, Finalization
<1>3. Terminal(ClosedLock)
  BY DEF ClosedLock, Terminal
<1> QED
  BY <1>1, <1>2, <1>3

(* A freshly minted lock, whole or torn, is a sound one.                   *)
LEMMA FreshLockFacts ==
    ASSUME NEW h \in Harness, NEW f \in {"absent", "torn", "written"}
    PROVE  LET l == [FreshLock(h) EXCEPT !.file = f] IN l \in Lock /\ Sound(l)
<1> DEFINE g == FreshLock(h)
           l == [g EXCEPT !.file = f]
<1>1. g \in Lock
  <2>1. <<>> \in Seq(Amendment)
    OBVIOUS
  <2> QED
    BY <2>1 DEF FreshLock, Lock, Statuses
<1>2. l \in Lock
  BY <1>1 DEF Lock
<1>3. l.pins = h /\ l.genesis = h /\ l.amendments = <<>>
  BY DEF FreshLock
<1>4. Sound(l)
  BY <1>3 DEF Sound, Reached, TerminalAt
<1> QED
  BY <1>2, <1>4

(* One more amendment, from the pinned bytes, keeps a lock that was not    *)
(* terminal sound: the arithmetic of both mints.                           *)
LEMMA AmendedSound ==
    ASSUME NEW l \in Lock, NEW k \in Lock, NEW a \in Amendment,
           Sound(l), ~Terminal(l), a.from = l.pins,
           k.amendments = Append(l.amendments, a), k.genesis = l.genesis, k.pins = a.to
    PROVE  Sound(k)
<1> DEFINE am == l.amendments
<1>1. am \in Seq(Amendment) /\ Len(am) \in Nat
  BY DEF Lock
<1>2. Len(k.amendments) = Len(am) + 1 /\ DOMAIN k.amendments = 1..(Len(am) + 1)
  BY <1>1
<1>3. k.amendments[Len(am) + 1] = a /\ \A i \in 1..Len(am) : k.amendments[i] = am[i]
  BY <1>1
<1>4. \A i \in 0..Len(am) : Reached(k, i) = Reached(l, i)
  BY <1>1, <1>3 DEF Reached
<1>5. k.pins = Reached(k, Len(k.amendments))
  BY <1>1, <1>2, <1>3 DEF Reached
<1>6. ASSUME NEW i \in DOMAIN k.amendments
      PROVE  k.amendments[i].from = Reached(k, i - 1)
  <2>1. CASE i = Len(am) + 1
    BY <2>1, <1>1, <1>3, <1>4 DEF Sound
  <2>2. CASE i \in 1..Len(am)
    BY <2>2, <1>1, <1>3, <1>4 DEF Sound
  <2> QED
    BY <2>1, <2>2, <1>1, <1>2
<1>7. TerminalAt(k.amendments) \subseteq {Len(k.amendments)}
  <2>1. \A i \in 1..Len(am) : am[i].after # "FINAL"
    BY <1>1 DEF Terminal, TerminalAt
  <2> QED
    BY <2>1, <1>1, <1>2, <1>3 DEF TerminalAt
<1> QED
  BY <1>5, <1>6, <1>7 DEF Sound
-----------------------------------------------------------------------------
LEMMA InitInductive == Init => Inductive
<1> SUFFICES ASSUME Init PROVE Inductive
  OBVIOUS
<1>1. PICK h \in Harness :
         harness = h /\ exec = <<ClosedLock, [FreshLock(h) EXCEPT !.file = "absent"]>>
  BY DEF Init
<1>2. exec[1] = ClosedLock /\ exec[2] = [FreshLock(h) EXCEPT !.file = "absent"]
  BY <1>1
<1>3. /\ exec[1] \in Lock /\ Sound(exec[1])
      /\ exec[2] \in Lock /\ Sound(exec[2]) /\ exec[2].file = "absent"
  BY <1>2, ClosedLockFacts, FreshLockFacts DEF FreshLock
<1>4. exec \in [Epoch -> Lock]
  BY <1>1, <1>3 DEF Epoch
<1>5. TypeOK
  BY <1>1, <1>4 DEF Init, TypeOK, Idle
<1>6. ClosedInv /\ SoundInv
  BY <1>2, <1>3 DEF ClosedInv, SoundInv, Epoch
<1>7. PhaseInv /\ RunsInv /\ RunsKeepTheirLock /\ ReceiptsInv
  BY DEF Init, Idle, PhaseInv, RunsInv, RunsKeepTheirLock, ReceiptsInv
<1> QED
  BY <1>5, <1>6, <1>7 DEF Inductive

(* A step that leaves the locks, the runs and the receipts alone, is of no *)
(* minting command and keeps the types, keeps the invariant when it keeps  *)
(* the phase.                                                              *)
LEMMA LocksAlone ==
    ASSUME Inductive, TypeOK', PhaseInv', RunsInv',
           exec' = exec, runs' = runs, receipts' = receipts
    PROVE  Inductive'
<1>1. ClosedInv' /\ SoundInv'
  BY DEF Inductive, ClosedInv, SoundInv, Sound, Reached, TerminalAt
<1>2. RunsKeepTheirLock' /\ ReceiptsInv'
  BY DEF Inductive, RunsKeepTheirLock, ReceiptsInv
<1> QED
  BY <1>1, <1>2 DEF Inductive

(* A step that writes epoch 2's lock, sound, while no run has been started.*)
LEMMA LockWritten ==
    ASSUME Inductive, TypeOK', PhaseInv', runs = {},
           NEW l \in Lock, Sound(l), exec' = [exec EXCEPT ![2] = l],
           runs' = runs, receipts' = receipts
    PROVE  Inductive'
<1>1. exec'[1] = exec[1] /\ exec'[2] = l
  BY DEF Inductive, TypeOK, Epoch
<1>2. ClosedInv' /\ SoundInv'
  BY <1>1 DEF Inductive, ClosedInv, SoundInv, Epoch, Sound, Reached, TerminalAt
<1>3. RunsInv' /\ RunsKeepTheirLock' /\ ReceiptsInv'
  BY DEF Inductive, RunsInv, RunsKeepTheirLock, ReceiptsInv
<1> QED
  BY <1>2, <1>3 DEF Inductive

(* The transition and its two mints: every write is the first of its file. *)
LEMMA TransitionKeeps == Inductive /\ Transition => Inductive'
<1> SUFFICES ASSUME Inductive, Transition PROVE Inductive'
  OBVIOUS
<1> USE DEF Idle
<1>1. CASE StartTransition
  <2>1. TypeOK' /\ PhaseInv'
    BY <1>1 DEF Inductive, StartTransition, TypeOK, PhaseInv, files, tree
  <2>2. RunsInv'
    BY <1>1 DEF Inductive, StartTransition, RunsInv, tree
  <2> QED
    BY <1>1, <2>1, <2>2, LocksAlone DEF StartTransition, tree
<1>2. CASE FinishRecord
  <2>1. TypeOK' /\ PhaseInv'
    BY <1>2 DEF Inductive, FinishRecord, TypeOK, PhaseInv, files, tree
  <2>2. RunsInv'
    BY <1>2 DEF Inductive, FinishRecord, RunsInv, tree
  <2> QED
    BY <1>2, <2>1, <2>2, LocksAlone DEF FinishRecord, tree
<1>3. CASE OpenFreshLock
  <2> DEFINE l == [FreshLock(harness) EXCEPT !.file = "torn"]
  <2>1. l \in Lock /\ Sound(l)
    BY FreshLockFacts DEF Inductive, TypeOK
  <2>2. exec' = [exec EXCEPT ![2] = l] /\ runs = {}
    BY <1>3 DEF Inductive, OpenFreshLock, RunsInv
  <2>3. exec' \in [Epoch -> Lock]
    BY <2>1, <2>2 DEF Inductive, TypeOK, Epoch
  <2>4. TypeOK'
    BY <1>3, <2>3 DEF Inductive, OpenFreshLock, TypeOK, files, tree
  <2>5. PhaseInv'
    BY <1>3 DEF Inductive, OpenFreshLock, PhaseInv
  <2> QED
    BY <1>3, <2>1, <2>2, <2>4, <2>5, LockWritten DEF OpenFreshLock, tree
<1>4. CASE FinishFreshLock
  <2> DEFINE l == [exec[2] EXCEPT !.file = "written"]
  <2>1. exec[2] \in Lock /\ Sound(exec[2])
    BY DEF Inductive, TypeOK, SoundInv, Epoch
  <2>2. l \in Lock /\ Sound(l)
    BY <2>1 DEF Lock, Sound, Reached
  <2>3. exec' = [exec EXCEPT ![2] = l] /\ runs = {}
    BY <1>4 DEF Inductive, FinishFreshLock, RunsInv
  <2>4. exec' \in [Epoch -> Lock]
    BY <2>2, <2>3 DEF Inductive, TypeOK, Epoch
  <2>5. TypeOK'
    BY <1>4, <2>4 DEF Inductive, FinishFreshLock, TypeOK, files, tree
  <2>6. PhaseInv'
    BY <1>4 DEF Inductive, FinishFreshLock, PhaseInv
  <2> QED
    BY <1>4, <2>2, <2>3, <2>5, <2>6, LockWritten DEF FinishFreshLock, tree
<1>5. CASE OpenProtocolLock
  <2>1. proc \in [op : {"minted", "protocol"}, genesis : Governed] /\ runs = {}
    BY <1>5 DEF Inductive, OpenProtocolLock, TypeOK, RunsInv
  <2>2. TypeOK'
    BY <1>5, <2>1 DEF Inductive, OpenProtocolLock, TypeOK, files, tree
  <2>3. PhaseInv'
    BY <1>5, <2>1 DEF OpenProtocolLock, PhaseInv
  <2>4. RunsInv'
    BY <1>5, <2>1 DEF OpenProtocolLock, RunsInv, tree
  <2> QED
    BY <1>5, <2>2, <2>3, <2>4, LocksAlone DEF OpenProtocolLock, tree
<1>6. CASE RefuseProtocolLock
  <2>1. proc \in [op : {"minted", "protocol"}, genesis : Governed] /\ runs = {}
    BY <1>6 DEF Inductive, RefuseProtocolLock, TypeOK, RunsInv
  <2>2. TypeOK'
    BY <1>6, <2>1 DEF Inductive, RefuseProtocolLock, TypeOK, files, tree
  <2>3. PhaseInv'
    BY <1>6, <2>1 DEF RefuseProtocolLock, PhaseInv
  <2>4. RunsInv'
    BY <1>6, <2>1 DEF RefuseProtocolLock, RunsInv, tree
  <2> QED
    BY <1>6, <2>2, <2>3, <2>4, LocksAlone DEF RefuseProtocolLock, tree
<1>7. CASE FinishProtocolLock
  <2>1. proc \in [op : {"minted", "protocol"}, genesis : Governed] /\ runs = {}
    BY <1>7 DEF Inductive, FinishProtocolLock, TypeOK, RunsInv
  <2>2. TypeOK'
    BY <1>7, <2>1 DEF Inductive, FinishProtocolLock, TypeOK, files, tree
  <2>3. PhaseInv'
    BY <1>7, <2>1 DEF FinishProtocolLock, PhaseInv
  <2>4. RunsInv'
    BY <1>7, <2>1 DEF FinishProtocolLock, RunsInv, tree
  <2> QED
    BY <1>7, <2>2, <2>3, <2>4, LocksAlone DEF FinishProtocolLock, tree
<1> QED
  BY <1>1, <1>2, <1>3, <1>4, <1>5, <1>6, <1>7 DEF Transition

(* Neither mint rewrites a terminal lock, so epoch 1's is never touched,   *)
(* and a lock is rewritten only before the first run under it.             *)
LEMMA RewriteKeeps ==
    ASSUME Inductive, NEW e \in Epoch, NEW k \in Lock, Sound(k), Rewrite(e, k)
    PROVE  Inductive'
<1> USE DEF Idle
<1> DEFINE l == [exec[2] EXCEPT !.file = "torn"]
<1>1. e = 2
  BY ClosedLockFacts DEF Inductive, ClosedInv, Rewrite, Epoch
<1>2. exec[2] \in Lock /\ Sound(exec[2]) /\ ~Terminal(exec[2])
  BY <1>1 DEF Inductive, TypeOK, SoundInv, Epoch, Rewrite
<1>3. l \in Lock /\ Sound(l) /\ ~Terminal(l)
  BY <1>2 DEF Lock, Sound, Reached, Terminal
<1>4. exec' = [exec EXCEPT ![2] = l]
  BY <1>1 DEF Rewrite
<1>5. runs = {}
  BY <1>2 DEF Inductive, RunsInv, Terminal
<1>6. exec' \in [Epoch -> Lock] /\ exec'[2] = l
  BY <1>3, <1>4 DEF Inductive, TypeOK, Epoch
<1>7. TypeOK'
  BY <1>6 DEF Inductive, Rewrite, TypeOK, files, tree
<1>8. PhaseInv'
  BY <1>1, <1>3, <1>6 DEF Rewrite, PhaseInv, Sound, Reached, TerminalAt, Terminal
<1> QED
  BY <1>3, <1>4, <1>5, <1>7, <1>8, LockWritten DEF Rewrite, tree

LEMMA MintKeeps == Inductive /\ MintLock => Inductive'
<1> SUFFICES ASSUME Inductive, MintLock PROVE Inductive'
  OBVIOUS
<1>1. ASSUME NEW e \in Epoch, Finalize(e) PROVE Inductive'
  <2> DEFINE a == Finalization(exec[e].pins)
             k == [exec[e] EXCEPT !.status = "FINAL", !.finalized = TRUE,
                                  !.amendments = Append(@, a)]
  <2>1. exec[e] \in Lock /\ Sound(exec[e]) /\ ~Terminal(exec[e])
    BY <1>1 DEF Inductive, TypeOK, SoundInv, Finalize, Rewrite
  <2>2. a \in Amendment /\ a.from = exec[e].pins /\ a.to = exec[e].pins
    BY <2>1 DEF Lock, Amendment, Finalization, Statuses
  <2>3. k \in Lock
    <3>1. Append(exec[e].amendments, a) \in Seq(Amendment)
      BY <2>1, <2>2 DEF Lock
    <3> QED
      BY <2>1, <3>1 DEF Lock, Statuses
  <2>4. k.amendments = Append(exec[e].amendments, a) /\ k.genesis = exec[e].genesis
           /\ k.pins = a.to
    BY <2>1, <2>2 DEF Lock
  <2>5. Sound(k)
    BY <2>1, <2>2, <2>3, <2>4, AmendedSound
  <2>6. Rewrite(e, k)
    BY <1>1 DEF Finalize
  <2> QED
    BY <2>3, <2>5, <2>6, RewriteKeeps
<1>2. ASSUME NEW e \in Epoch, NEW s \in StatusArgs, Mint(e, s) PROVE Inductive'
  <2> DEFINE a == [from |-> exec[e].pins, to |-> harness, after |-> s]
             k == [exec[e] EXCEPT !.pins = harness, !.amendments = Append(@, a)]
  <2>1. exec[e] \in Lock /\ Sound(exec[e]) /\ ~Terminal(exec[e])
    BY <1>2 DEF Inductive, TypeOK, SoundInv, Mint, Rewrite
  <2>2. a \in Amendment /\ a.from = exec[e].pins /\ a.to = harness
    BY <2>1 DEF Inductive, TypeOK, Lock, Amendment, Statuses
  <2>3. k \in Lock
    <3>1. Append(exec[e].amendments, a) \in Seq(Amendment)
      BY <2>1, <2>2 DEF Lock
    <3> QED
      BY <2>1, <3>1 DEF Inductive, TypeOK, Lock
  <2>4. k.amendments = Append(exec[e].amendments, a) /\ k.genesis = exec[e].genesis
           /\ k.pins = a.to
    BY <2>1, <2>2 DEF Lock
  <2>5. Sound(k)
    BY <2>1, <2>2, <2>3, <2>4, AmendedSound
  <2>6. Rewrite(e, k)
    BY <1>2 DEF Mint
  <2> QED
    BY <2>3, <2>5, <2>6, RewriteKeeps
<1>3. CASE FinishLock
  <2> DEFINE k == proc.lock
  <2>1. proc \in [op : {"lock"}, epoch : Epoch, lock : Lock]
    BY <1>3 DEF FinishLock, Inductive, TypeOK, Idle
  <2>2. proc.epoch = 2 /\ k \in Lock /\ Sound(k)
    BY <1>3, <2>1 DEF FinishLock, Inductive, PhaseInv
  <2>3. runs = {}
    BY <1>3 DEF FinishLock, Inductive, RunsInv, Idle
  <2>4. exec' = [exec EXCEPT ![2] = k]
    BY <1>3, <2>2 DEF FinishLock
  <2>5. exec' \in [Epoch -> Lock]
    BY <2>2, <2>4 DEF Inductive, TypeOK, Epoch
  <2>6. TypeOK'
    BY <1>3, <2>5 DEF Inductive, FinishLock, TypeOK, files, tree
  <2>7. PhaseInv'
    BY <1>3 DEF FinishLock, PhaseInv, Idle
  <2> QED
    BY <1>3, <2>2, <2>6, <2>7, <2>3, <2>4, LockWritten DEF FinishLock, tree
<1> QED
  BY <1>1, <1>2, <1>3 DEF MintLock

(* A run needs epoch 2's whole and FINAL locks: under epoch 1 the preflight*)
(* compares the recorded lock with harness bytes that are newer.           *)
LEMMA RunKeeps ==
    ASSUME Inductive, NEW e \in Epoch, StartRun(e)
    PROVE  Inductive'
<1> DEFINE r == [epoch |-> e, lock |-> exec[e]]
<1>1. e = 2
  <2>1. exec[1].pins = ClosedHarness /\ harness \in Harness
    BY DEF Inductive, ClosedInv, ClosedLock, TypeOK
  <2> QED
    BY <2>1, HarnessAssumption DEF StartRun, Preflight, Epoch
<1>2. /\ proc = Idle /\ record.file = "written"
      /\ exec[2].file = "written" /\ exec[2].status = "FINAL"
      /\ proto.file = "written" /\ proto.status = "FINAL"
  BY <1>1 DEF StartRun, ActiveEpoch, TransitionRecord, Preflight, FinalLockGate, ProtocolFinal
<1>3. exec' = exec /\ runs' = runs \cup {r} /\ receipts' = receipts
  BY DEF StartRun
<1>4. r \in [epoch : Epoch, lock : Lock]
  BY DEF Inductive, TypeOK
<1>5. TypeOK'
  BY <1>3, <1>4 DEF Inductive, StartRun, TypeOK, files
<1>6. PhaseInv' /\ ClosedInv' /\ SoundInv'
  BY <1>3 DEF Inductive, StartRun, PhaseInv, ClosedInv, SoundInv, Terminal, Sound,
              Reached, TerminalAt
<1>7. RunsInv'
  BY <1>2, <1>3 DEF StartRun, RunsInv
<1>8. RunsKeepTheirLock' /\ ReceiptsInv'
  BY <1>1, <1>3 DEF Inductive, RunsKeepTheirLock, ReceiptsInv
<1> QED
  BY <1>5, <1>6, <1>7, <1>8 DEF Inductive

(* A promotion follows a run of epoch 2 and names the recorded lock.       *)
LEMMA PromoteKeeps == Inductive /\ Promote => Inductive'
<1> SUFFICES ASSUME Inductive, Promote PROVE Inductive'
  OBVIOUS
<1> DEFINE r == [epoch |-> 2, lock |-> exec[1]]
<1>1. exec' = exec /\ runs' = runs /\ receipts' = receipts \cup {r} /\ runs # {}
  BY DEF Promote, GoverningLock
<1>2. r \in [epoch : Epoch, lock : Lock]
  BY DEF Inductive, TypeOK, Epoch
<1>3. TypeOK'
  BY <1>1, <1>2 DEF Inductive, Promote, TypeOK, files
<1>4. PhaseInv' /\ ClosedInv' /\ SoundInv'
  BY <1>1 DEF Inductive, Promote, PhaseInv, ClosedInv, SoundInv, Terminal, Sound,
              Reached, TerminalAt
<1>5. RunsInv' /\ RunsKeepTheirLock'
  BY <1>1 DEF Inductive, Promote, RunsInv, RunsKeepTheirLock
<1>6. ReceiptsInv'
  BY <1>1 DEF Inductive, ReceiptsInv, ClosedInv
<1> QED
  BY <1>3, <1>4, <1>5, <1>6 DEF Inductive

(* Edits, the owner's protocol lock and a crash leave locks and runs alone.*)
LEMMA OthersKeep ==
    ASSUME Inductive,
           AdvanceClosed \/ Edit \/ AmendProtocol \/ FinalizeProtocol \/ Crash
                \/ UNCHANGED vars
    PROVE  Inductive'
<1> USE DEF Idle
<1>1. exec' = exec /\ runs' = runs /\ receipts' = receipts /\ record' = record
  BY DEF AdvanceClosed, Edit, AmendProtocol, FinalizeProtocol, Crash, vars, files, tree
<1>2. CASE AdvanceClosed \/ Edit \/ UNCHANGED vars
  <2>1. TypeOK'
    BY <1>2 DEF Inductive, AdvanceClosed, Edit, vars, TypeOK, files, tree
  <2>2. proc' = proc /\ proto' = proto
    BY <1>2 DEF AdvanceClosed, Edit, vars
  <2>3. PhaseInv' /\ RunsInv'
    BY <1>1, <2>2 DEF Inductive, PhaseInv, RunsInv, Terminal, Sound, Reached, TerminalAt
  <2> QED
    BY <1>1, <2>1, <2>3, LocksAlone
<1>3. CASE AmendProtocol \/ FinalizeProtocol
  <2>1. proto' \in [file : {"absent", "torn", "written"}, status : {"living-lock", "FINAL"},
                    tip : Governed, amendments : Nat, count : Nat]
    <3>1. CASE AmendProtocol
      <4>1. proto' = [proto EXCEPT !.tip = governed, !.amendments = proto.amendments + 1]
        BY <3>1 DEF AmendProtocol
      <4>2. governed \in Governed
         /\ proto \in [file : {"absent", "torn", "written"},
                       status : {"living-lock", "FINAL"},
                       tip : Governed, amendments : Nat, count : Nat]
        BY DEF Inductive, TypeOK
      <4>3. \A k \in Nat : [proto EXCEPT !.tip = governed, !.amendments = k]
               \in [file : {"absent", "torn", "written"}, status : {"living-lock", "FINAL"},
                    tip : Governed, amendments : Nat, count : Nat]
        BY <4>2
      <4>4. proto.amendments + 1 \in Nat
        BY <4>2
      <4> QED
        BY <4>1, <4>3, <4>4
    <3>2. CASE FinalizeProtocol
      <4>1. proto' = [proto EXCEPT !.status = "FINAL", !.count = proto.amendments]
        BY <3>2 DEF FinalizeProtocol
      <4>2. proto \in [file : {"absent", "torn", "written"},
                       status : {"living-lock", "FINAL"},
                       tip : Governed, amendments : Nat, count : Nat]
        BY DEF Inductive, TypeOK
      <4> QED
        BY <4>1, <4>2
    <3> QED
      BY <1>3, <3>1, <3>2
  <2>2. TypeOK'
    BY <1>3, <2>1 DEF Inductive, AmendProtocol, FinalizeProtocol, TypeOK, files, tree
  <2>3. PhaseInv' /\ RunsInv'
    BY <1>3 DEF Inductive, AmendProtocol, FinalizeProtocol, PhaseInv, RunsInv, TypeOK, tree
  <2> QED
    BY <1>1, <2>2, <2>3, LocksAlone
<1>4. CASE Crash
  <2>1. TypeOK' /\ PhaseInv' /\ RunsInv'
    BY <1>4 DEF Inductive, Crash, TypeOK, PhaseInv, RunsInv, files, tree
  <2> QED
    BY <1>1, <2>1, LocksAlone
<1> QED
  BY <1>2, <1>3, <1>4

LEMMA StepInductive == Inductive /\ [Next]_vars => Inductive'
<1> SUFFICES ASSUME Inductive, [Next]_vars PROVE Inductive'
  OBVIOUS
<1>1. CASE Transition
  BY <1>1, TransitionKeeps
<1>2. CASE MintLock
  BY <1>2, MintKeeps
<1>3. ASSUME NEW e \in Epoch, StartRun(e) PROVE Inductive'
  BY <1>3, RunKeeps
<1>4. CASE Promote
  BY <1>4, PromoteKeeps
<1> QED
  BY <1>1, <1>2, <1>3, <1>4, OthersKeep DEF Next

-----------------------------------------------------------------------------
LEMMA AlwaysInductive == Spec => []Inductive
  BY InitInductive, StepInductive, PTL DEF Spec

(* Every file of the two epochs and the command in progress keep their     *)
(* types, for every set of bytes and number of amendments and crashes.     *)
THEOREM TypeInvariant == Spec => []TypeOK
<1>1. Inductive => TypeOK
  BY DEF Inductive
<1> QED
  BY <1>1, AlwaysInductive, PTL

(* The lock an estimand run was started under stays on disk, byte for      *)
(* byte, and it is epoch 2's (mint_execution_lock _refuse_final, the       *)
(* runner's preflight and FINAL gate).                                     *)
THEOREM RunsKeepTheirLockHolds == Spec => []RunsKeepTheirLock
<1>1. Inductive => RunsKeepTheirLock
  BY DEF Inductive
<1> QED
  BY <1>1, AlwaysInductive, PTL

(* No run and no receipt exists unless the transition record and both      *)
(* epoch-2 locks are whole and FINAL, wherever a transition died           *)
(* (epoch_transition main, final_lock_gate).                               *)
THEOREM HalfTransitionAuthorizesNothingHolds == Spec => []HalfTransitionAuthorizesNothing
<1>1. Inductive => HalfTransitionAuthorizesNothing
  BY DEF Inductive, RunsInv, ReceiptsInv, HalfTransitionAuthorizesNothing
<1> QED
  BY <1>1, AlwaysInductive, PTL

(* The amendments of a whole lock form one gapless chain that ends at the  *)
(* first terminal one (mint_execution_lock main).                          *)
THEOREM LineageSoundHolds == Spec => []LineageSound
<1>1. Inductive => LineageSound
  BY DEF Inductive, SoundInv, Sound, LineageSound
<1> QED
  BY <1>1, AlwaysInductive, PTL

(* No step changes epoch 1's lock, nor, while the transition record is     *)
(* good, its state tree (epoch.py state_root, active_lock_names).          *)
THEOREM ClosedEpochKeptHolds == Spec => ClosedEpochKept
<1> DEFINE Kept == /\ exec'[1] = exec[1]
                   /\ TransitionRecord => closedTree' = closedTree
<1>1. Inductive /\ [Next]_vars => [Kept]_vars
  <2> SUFFICES ASSUME Inductive, Inductive', Next PROVE Kept
    BY StepInductive
  <2>1. exec'[1] = exec[1]
    BY DEF Inductive, ClosedInv
  <2>2. AdvanceClosed => ~TransitionRecord
    BY DEF AdvanceClosed, ActiveEpoch
  <2>3. ~AdvanceClosed => closedTree' = closedTree
    <3>1. CASE Transition
      BY <3>1 DEF Transition, StartTransition, FinishRecord, OpenFreshLock,
                  FinishFreshLock, OpenProtocolLock, RefuseProtocolLock,
                  FinishProtocolLock, tree
    <3>2. CASE MintLock
      BY <3>2 DEF MintLock, Finalize, Mint, Rewrite, FinishLock, tree
    <3> QED
      BY <3>1, <3>2 DEF Next, StartRun, Promote, Edit, AmendProtocol,
                        FinalizeProtocol, Crash, tree
  <2> QED
    BY <2>1, <2>2, <2>3
<1> QED
  BY <1>1, AlwaysInductive, PTL DEF Spec, ClosedEpochKept
=============================================================================
