------------------------ MODULE CommitCoordinatorProofs ------------------------
(***************************************************************************)
(* Proofs about the commit coordinator, for any trees and last revision.   *)
(* ProtocolInv holds whatever callers prepare from; AgreementInv adds what *)
(* holds when they prepare from confirmed snapshots only.                  *)
(***************************************************************************)
EXTENDS CommitCoordinator, TLAPS

\* Status, confirmed snapshot and the port call in progress tell one story.
ProtocolInv ==
  /\ TypeOK
  /\ \A p \in prepared : p.target = p.base + 1
  /\ status.confirmed = confirmed.revision
  /\ status.kind = "Ready" => call = Idle /\ status.attempted = status.confirmed
  /\ status.kind # "Ready" => status.attempted = status.confirmed + 1
  /\ status.kind = "RecoveryRequired" => call = Idle
  /\ call.port = "apply" =>
       /\ status.kind = "Applying"
       /\ call.commit.base = confirmed.revision
       /\ call.commit.target = status.attempted
  /\ call.port = "remount" => status.kind = "Remounting" /\ call.snapshot = confirmed

\* A snapshot or preparation at the confirmed revision is of the confirmed tree.
AgreementInv ==
  /\ \A s \in snapshots :
       s.revision <= confirmed.revision /\ (s.revision = confirmed.revision => s = confirmed)
  /\ \A p \in prepared :
       p.base <= confirmed.revision /\ (p.base = confirmed.revision => p.from = confirmed.tree)
  /\ status.kind = "Ready" => host = confirmed.tree
  /\ call.port = "apply" => call.shown = confirmed.tree /\ call.commit.from = confirmed.tree

-----------------------------------------------------------------------------

LEMMA InitProtocol == Init => ProtocolInv
  BY TreeAssumption, RevisionAssumption
  DEF Init, ProtocolInv, TypeOK, Snapshot, Revision, Ready, Status, Idle

\* What callers do with snapshots and preparations leaves the protocol alone.
LEMMA CallerProtocol ==
  ASSUME ProtocolInv,
         \/ ReadSnapshot
         \/ \E p \in prepared : Speculate(p)
         \/ \E s \in snapshots, tree \in Tree : Prepare(s, tree)
  PROVE  ProtocolInv'
<1> USE DEF ProtocolInv
<1>1. CASE ReadSnapshot
  BY <1>1 DEF ReadSnapshot, TypeOK
<1>2. ASSUME NEW p \in prepared, Speculate(p) PROVE ProtocolInv'
  <2>1. IntoSnapshot(p) \in Snapshot
    BY DEF TypeOK, IntoSnapshot, PreparedCommit, Snapshot
  <2>2. QED
    BY <1>2, <2>1 DEF Speculate, TypeOK
<1>3. ASSUME NEW s \in snapshots, NEW tree \in Tree, Prepare(s, tree) PROVE ProtocolInv'
  <2> DEFINE p == [base |-> s.revision, target |-> s.revision + 1,
                   from |-> s.tree, tree |-> tree]
  <2>1. p \in PreparedCommit /\ p.target = p.base + 1
    BY <1>3, RevisionAssumption DEF Prepare, TypeOK, Snapshot, Revision, PreparedCommit
  <2>2. QED
    BY <1>3, <2>1 DEF Prepare, TypeOK
<1>4. QED
  BY <1>1, <1>2, <1>3

LEMMA ApplyProtocol ==
  ASSUME ProtocolInv, NEW p \in prepared, Apply(p)
  PROVE  ProtocolInv'
<1> USE DEF ProtocolInv
<1>1. p \in PreparedCommit /\ p.target = p.base + 1
  BY DEF TypeOK
<1>2. CASE UNCHANGED <<confirmed, status, call, host, snapshots, prepared>>
           /\ outcome' \in {"SURFACE_BUSY", "RECOVERY_REQUIRED", "STALE_BATCH"}
  BY <1>2 DEF TypeOK
<1>3. CASE /\ p.base = confirmed.revision
           /\ status' = Status("Applying", p.base, p.target)
           /\ call' = ApplyCall(p, host)
           /\ outcome' = "apply_started"
           /\ UNCHANGED <<confirmed, host, snapshots, prepared>>
  <2>1. TypeOK'
    BY <1>1, <1>3 DEF TypeOK, Status, ApplyCall, PreparedCommit
  <2>2. QED
    BY <1>1, <1>3, <2>1 DEF Status, ApplyCall, Idle
<1>4. QED
  BY <1>2, <1>3 DEF Apply, RejectApply

LEMMA ApplyReturnProtocol ==
  ASSUME ProtocolInv, HostMutates \/ ApplyOk \/ ApplyRejected \/ ApplyFailed
  PROVE  ProtocolInv'
<1> USE DEF ProtocolInv
<1>1. /\ call.port = "apply"
      /\ call \in [port : {"apply"}, commit : PreparedCommit, shown : Tree \cup {Torn}]
  BY DEF HostMutates, ApplyOk, ApplyRejected, ApplyFailed, TypeOK, Idle
<1>2. AfterBatch(call.commit, call.shown) \in Tree \cup {Torn}
  BY <1>1 DEF AfterBatch, PreparedCommit
<1>3. CASE HostMutates
  BY <1>3 DEF HostMutates, TypeOK
<1>4. CASE ApplyOk
  <2>1. TypeOK'
    BY <1>1, <1>2, <1>4
    DEF ApplyOk, TypeOK, IntoSnapshot, Ready, Status, Snapshot, PreparedCommit
  <2>2. QED
    BY <1>1, <1>4, <2>1 DEF ApplyOk, IntoSnapshot, Ready, Status, Idle
<1>5. CASE ApplyRejected
  <2>1. TypeOK'
    BY <1>5 DEF ApplyRejected, TypeOK, Ready, Status, Snapshot
  <2>2. QED
    BY <1>5, <2>1 DEF ApplyRejected, Ready, Status, Idle
<1>6. CASE ApplyFailed
  <2>1. TypeOK'
    BY <1>1, <1>2, <1>6 DEF ApplyFailed, TypeOK, Status, Snapshot, PreparedCommit
  <2>2. QED
    BY <1>1, <1>6, <2>1 DEF ApplyFailed, Status, Idle, TypeOK
<1>7. QED
  BY <1>3, <1>4, <1>5, <1>6

LEMMA RecoverProtocol ==
  ASSUME ProtocolInv, Recover \/ RemountOk \/ RemountFailed
  PROVE  ProtocolInv'
<1> USE DEF ProtocolInv
<1>1. CASE BeginRemount
  <2>1. TypeOK'
    BY <1>1 DEF BeginRemount, TypeOK, RemountCall
  <2>2. QED
    BY <1>1, <2>1 DEF BeginRemount, RemountCall, TypeOK, Idle
<1>2. CASE RejectRecover
  BY <1>2 DEF RejectRecover, TypeOK
<1>3. CASE RemountOk
  <2>1. TypeOK'
    BY <1>3 DEF RemountOk, TypeOK, Ready, Status, Snapshot, Idle
  <2>2. QED
    BY <1>3, <2>1 DEF RemountOk, Ready, Status, Idle
<1>4. CASE RemountFailed
  <2>1. TypeOK'
    BY <1>4 DEF RemountFailed, TypeOK, Snapshot, Idle
  <2>2. QED
    BY <1>4, <2>1 DEF RemountFailed, TypeOK, Idle
<1>5. QED
  BY <1>1, <1>2, <1>3, <1>4 DEF Recover

LEMMA UnwindProtocol ==
  ASSUME ProtocolInv, Unwind
  PROVE  ProtocolInv'
  BY DEF ProtocolInv, Unwind, TypeOK, Idle

LEMMA NextProtocol == ProtocolInv /\ [Next]_vars => ProtocolInv'
<1>1. ASSUME ProtocolInv, UNCHANGED vars PROVE ProtocolInv'
  BY <1>1 DEF ProtocolInv, TypeOK, vars
<1>2. QED
  BY <1>1, CallerProtocol, ApplyProtocol, ApplyReturnProtocol, RecoverProtocol,
     UnwindProtocol DEF Next

\* The coordinator's types hold in every reachable state, with the protocol that
\* ties status, confirmed revision and the call in progress together.
THEOREM ProtocolInvariant == Spec => []TypeOK /\ []ProtocolInv
<1>1. ProtocolInv => TypeOK
  BY DEF ProtocolInv
<1>2. QED
  BY <1>1, InitProtocol, NextProtocol, PTL DEF Spec

-----------------------------------------------------------------------------
(* A panic in a port call closes the surface. *)

LEMMA OrphanedStep ==
  ASSUME ProtocolInv, Orphaned, [Next]_vars
  PROVE  call' = Idle /\ UNCHANGED <<status, confirmed, host>>
<1>1. call = Idle /\ call.port = "none" /\ status.kind \in {"Applying", "Remounting"}
  BY DEF Orphaned, Idle
<1>2. CASE UNCHANGED vars
  BY <1>1, <1>2 DEF vars
<1>3. CASE ReadSnapshot \/ \E p \in prepared : Speculate(p)
  BY <1>1, <1>3 DEF ReadSnapshot, Speculate
<1>4. CASE \E s \in snapshots, tree \in Tree : Prepare(s, tree)
  BY <1>1, <1>4 DEF Prepare
<1>5. CASE \E p \in prepared : Apply(p)
  BY <1>1, <1>5 DEF Apply, RejectApply
<1>6. CASE Recover
  BY <1>1, <1>6 DEF Recover, BeginRemount, RejectRecover
<1>7. QED
  BY <1>1, <1>2, <1>3, <1>4, <1>5, <1>6
  DEF Next, HostMutates, ApplyOk, ApplyRejected, ApplyFailed, RemountOk, RemountFailed, Unwind

\* After apply or recover has unwound, no request changes the status, the
\* confirmed snapshot or the host again.
THEOREM PanicFailsClosed == Spec => FailsClosedAfterPanic
<1>1. ProtocolInv /\ [Next]_vars
        => [Orphaned => call' = Idle /\ UNCHANGED <<status, confirmed, host>>]_vars
  BY OrphanedStep
<1>2. QED
  BY <1>1, ProtocolInvariant, PTL DEF Spec, FailsClosedAfterPanic

-----------------------------------------------------------------------------
(* Agreement of host and confirmed snapshot. *)

LEMMA InitAgreement == Init => AgreementInv
  BY DEF Init, AgreementInv, Ready, Status, Idle

LEMMA CallerAgreement ==
  ASSUME ProtocolInv, AgreementInv, ~Speculative,
         \/ ReadSnapshot
         \/ \E p \in prepared : Speculate(p)
         \/ \E s \in snapshots, tree \in Tree : Prepare(s, tree)
  PROVE  AgreementInv'
<1> USE DEF AgreementInv
<1>1. confirmed.revision \in Nat
  BY RevisionAssumption DEF ProtocolInv, TypeOK, Snapshot, Revision
<1>2. CASE ReadSnapshot
  BY <1>1, <1>2 DEF ReadSnapshot
<1>3. CASE \E p \in prepared : Speculate(p)
  BY <1>3 DEF Speculate
<1>4. ASSUME NEW s \in snapshots, NEW tree \in Tree, Prepare(s, tree)
      PROVE  AgreementInv'
  <2> DEFINE new == [base |-> s.revision, target |-> s.revision + 1,
                     from |-> s.tree, tree |-> tree]
  <2>1. /\ new.base <= confirmed.revision
        /\ new.base = confirmed.revision => new.from = confirmed.tree
    OBVIOUS
  <2>2. prepared' = prepared \cup {new} /\ UNCHANGED <<confirmed, status, call, host, snapshots>>
    BY <1>4 DEF Prepare
  <2>3. QED
    BY <2>1, <2>2
<1>5. QED
  BY <1>2, <1>3, <1>4

LEMMA ApplyAgreement ==
  ASSUME ProtocolInv, AgreementInv, NEW p \in prepared, Apply(p)
  PROVE  AgreementInv'
<1> USE DEF AgreementInv
<1>1. CASE UNCHANGED <<confirmed, status, call, host, snapshots, prepared>>
  BY <1>1
<1>2. CASE /\ status.kind = "Ready"
           /\ p.base = confirmed.revision
           /\ status' = Status("Applying", p.base, p.target)
           /\ call' = ApplyCall(p, host)
           /\ UNCHANGED <<confirmed, host, snapshots, prepared>>
  BY <1>2 DEF Status, ApplyCall
<1>3. QED
  BY <1>1, <1>2 DEF Apply, RejectApply

LEMMA HostAgreement ==
  ASSUME ProtocolInv, AgreementInv,
         HostMutates \/ ApplyRejected \/ ApplyFailed \/ RemountOk \/ RemountFailed \/ Unwind
  PROVE  AgreementInv'
<1> USE DEF AgreementInv, ProtocolInv
<1>1. CASE HostMutates
  BY <1>1 DEF HostMutates
<1>2. CASE ApplyRejected
  BY <1>2 DEF ApplyRejected, Ready, Status, Idle
<1>3. CASE ApplyFailed
  BY <1>3 DEF ApplyFailed, Status, Idle
<1>4. CASE RemountOk
  BY <1>4 DEF RemountOk, Ready, Status, Idle
<1>5. CASE RemountFailed
  BY <1>5 DEF RemountFailed, Idle, TypeOK
<1>6. CASE Unwind
  BY <1>6 DEF Unwind, Idle
<1>7. QED
  BY <1>1, <1>2, <1>3, <1>4, <1>5, <1>6

LEMMA ApplyOkAgreement ==
  ASSUME ProtocolInv, AgreementInv, ApplyOk
  PROVE  AgreementInv'
<1> USE DEF AgreementInv, ProtocolInv
<1>1. /\ call.commit \in PreparedCommit
      /\ call.commit.target = confirmed.revision + 1
      /\ call.shown = call.commit.from
  BY DEF ApplyOk, TypeOK, Idle
<1>2. confirmed.revision \in Nat
  BY RevisionAssumption DEF TypeOK, Snapshot, Revision
<1>3. confirmed' = [revision |-> confirmed.revision + 1, tree |-> call.commit.tree]
  BY <1>1 DEF ApplyOk, IntoSnapshot
<1>4. confirmed'.revision = confirmed.revision + 1 /\ confirmed'.tree = call.commit.tree
  BY <1>3
<1>5. host' = confirmed'.tree /\ call' = Idle /\ UNCHANGED <<snapshots, prepared>>
  BY <1>1, <1>4 DEF ApplyOk, AfterBatch
<1>6. \A s \in snapshots : s.revision < confirmed'.revision
  BY <1>2, <1>4 DEF TypeOK, Snapshot, Revision
<1>7. \A p \in prepared : p.base < confirmed'.revision
  BY <1>2, <1>4 DEF TypeOK, PreparedCommit, Revision
<1>8. confirmed'.revision \in Nat
  BY <1>2, <1>4
<1>9. /\ \A s \in snapshots : s.revision <= confirmed'.revision /\ s.revision # confirmed'.revision
      /\ \A p \in prepared : p.base <= confirmed'.revision /\ p.base # confirmed'.revision
  BY <1>6, <1>7, <1>8, RevisionAssumption DEF TypeOK, Snapshot, PreparedCommit, Revision
<1>10. QED
  BY <1>5, <1>9 DEF Idle

LEMMA NextAgreement ==
  ProtocolInv /\ AgreementInv /\ ~Speculative /\ [Next]_vars => AgreementInv'
<1>1. ASSUME AgreementInv, UNCHANGED vars PROVE AgreementInv'
  BY <1>1 DEF AgreementInv, vars
<1>2. ASSUME ProtocolInv, AgreementInv, Recover PROVE AgreementInv'
  BY <1>2 DEF AgreementInv, ProtocolInv, TypeOK, Recover, BeginRemount, RejectRecover,
     RemountCall
<1>3. QED
  BY <1>1, <1>2, CallerAgreement, ApplyAgreement, ApplyOkAgreement, HostAgreement DEF Next

\* When callers prepare from confirmed snapshots only, a ready surface shows the
\* confirmed tree, and no batch meets a tree it was not prepared from.
THEOREM HostAgreesWhenReady ==
  ASSUME ~Speculative
  PROVE  Spec => []ReadyHostAgrees /\ []BatchFitsHost
<1>1. AgreementInv /\ ProtocolInv => ReadyHostAgrees /\ BatchFitsHost
  <2>1. ASSUME AgreementInv, ProtocolInv, status.kind = "Ready"
        PROVE  status = Ready(confirmed.revision)
    BY <2>1 DEF ProtocolInv, TypeOK, Ready, Status
  <2>2. QED
    BY <2>1 DEF AgreementInv, ReadyHostAgrees, BatchFitsHost
<1>2. Spec => []AgreementInv
  BY InitAgreement, NextAgreement, ProtocolInvariant, PTL DEF Spec
<1>3. QED
  BY <1>1, <1>2, ProtocolInvariant, PTL

-----------------------------------------------------------------------------
(* The coordinator implements the commit-application contract. *)

Mapped == [state |-> ContractName, revision |-> confirmed.revision,
           attempted |-> status.attempted]

LEMMA MappedFields ==
  /\ Mapped.state = ContractName
  /\ Mapped.revision = confirmed.revision
  /\ Mapped.attempted = status.attempted
  BY DEF Mapped

LEMMA ContractInit == Init => Contract!Init
  BY DEF Init, Contract!Init, Contract!Ready, Contract!State, ContractName, Ready, Status

\* Steps that answer nothing leave the contract's state and answer alone.
LEMMA CallerContract ==
  ASSUME \/ ReadSnapshot
         \/ \E p \in prepared : Speculate(p)
         \/ \E s \in snapshots, tree \in Tree : Prepare(s, tree)
         \/ HostMutates \/ Unwind
         \/ UNCHANGED vars
  PROVE  UNCHANGED <<Mapped, outcome>>
<1>1. UNCHANGED <<confirmed, status, outcome>>
  BY DEF ReadSnapshot, Speculate, Prepare, HostMutates, Unwind, vars
<1>2. QED
  BY <1>1 DEF Mapped, ContractName

LEMMA ApplyContract ==
  ASSUME ProtocolInv, NEW p \in prepared, Apply(p)
  PROVE  Contract!BeginApply(p.base, p.target)
<1>1. p \in PreparedCommit /\ p.target = p.base + 1 /\ p.base # MaxRevision
  BY RevisionAssumption DEF ProtocolInv, TypeOK, PreparedCommit, Revision
<1>2. CASE UNCHANGED <<confirmed, status>>
  <2>1. UNCHANGED Mapped
    BY <1>2 DEF Mapped, ContractName
  <2>2. \/ status.kind \in {"Applying", "Remounting"} /\ outcome' = "SURFACE_BUSY"
        \/ status.kind = "RecoveryRequired" /\ outcome' = "RECOVERY_REQUIRED"
        \/ status.kind = "Ready" /\ p.base # confirmed.revision /\ outcome' = "STALE_BATCH"
    BY <1>2, <1>1 DEF Apply, RejectApply, Status
  <2>3. QED
    BY <2>1, <2>2 DEF Contract!BeginApply, Contract!Rejects, Mapped, ContractName
<1>3. CASE /\ status.kind = "Ready"
           /\ p.base = confirmed.revision
           /\ status' = Status("Applying", p.base, p.target)
           /\ outcome' = "apply_started"
           /\ UNCHANGED confirmed
  <2>1. Mapped' = Contract!State("applying", p.base, p.target)
    BY <1>3 DEF Mapped, ContractName, Contract!State, Status
  <2>2. Mapped.state = "ready" /\ Mapped.revision = p.base
    BY <1>3 DEF Mapped, ContractName
  <2>3. QED
    BY <1>1, <1>3, <2>1, <2>2 DEF Contract!BeginApply, Contract!Moves, Mapped
<1>4. QED
  BY <1>2, <1>3 DEF Apply, RejectApply

LEMMA ApplyReturnContract ==
  ASSUME ProtocolInv
  PROVE  /\ ApplyOk => Contract!HostApplied
         /\ ApplyRejected => Contract!HostRejected
         /\ ApplyFailed => Contract!HostFailed
<1> USE DEF Mapped, ContractName, Contract!Moves, Contract!Ready, Contract!State, Ready, Status
<1>1. ASSUME call.port = "apply"
      PROVE  /\ status.kind = "Applying"
             /\ Mapped.state = "applying"
             /\ Mapped.attempted = call.commit.target
             /\ Mapped.revision = confirmed.revision
  BY <1>1 DEF ProtocolInv
<1>2. ASSUME ApplyOk PROVE Contract!HostApplied
  <2>1. Mapped' = Contract!Ready(call.commit.target)
    BY <1>2 DEF ApplyOk, IntoSnapshot
  <2>2. QED
    BY <1>1, <1>2, <2>1 DEF ApplyOk, Contract!HostApplied
<1>3. ASSUME ApplyRejected PROVE Contract!HostRejected
  <2>1. Mapped' = Contract!Ready(confirmed.revision)
    BY <1>3 DEF ApplyRejected
  <2>2. QED
    BY <1>1, <1>3, <2>1 DEF ApplyRejected, Contract!HostRejected
<1>4. ASSUME ApplyFailed PROVE Contract!HostFailed
  <2>1. Mapped' = Contract!State("failed", confirmed.revision, call.commit.target)
    BY <1>4 DEF ApplyFailed
  <2>2. QED
    BY <1>1, <1>4, <2>1 DEF ApplyFailed, Contract!HostFailed
<1>5. QED
  BY <1>2, <1>3, <1>4

LEMMA RecoverContract ==
  ASSUME ProtocolInv
  PROVE  /\ Recover => Contract!BeginRemount
         /\ RemountOk => Contract!RemountSucceeded
         /\ RemountFailed => Contract!RemountFailed
<1> USE DEF Mapped, ContractName, Contract!Moves, Contract!Ready, Contract!State, Ready, Status
<1>1. status \in [kind : {"Ready", "Applying", "Remounting", "RecoveryRequired"},
                  confirmed : Revision, attempted : Revision]
  BY DEF ProtocolInv, TypeOK
<1>2. ASSUME BeginRemount PROVE Contract!BeginRemount
  <2>1. status'.kind = "Remounting" /\ status'.attempted = status.attempted
    BY <1>1, <1>2 DEF BeginRemount
  <2>2. Mapped' = Contract!State("remounting", confirmed.revision, status.attempted)
    BY <1>2, <2>1 DEF BeginRemount
  <2>3. QED
    BY <1>2, <2>2 DEF BeginRemount, Contract!BeginRemount
<1>3. ASSUME RejectRecover PROVE Contract!BeginRemount
  <2>1. UNCHANGED Mapped
    BY <1>3 DEF RejectRecover
  <2>2. Mapped.state # "failed"
    BY <1>1, <1>3 DEF RejectRecover
  <2>3. QED
    BY <1>3, <2>1, <2>2 DEF RejectRecover, Contract!BeginRemount, Contract!Rejects
<1>4. ASSUME RemountOk PROVE Contract!RemountSucceeded
  <2>1. status.kind = "Remounting" /\ status.confirmed = confirmed.revision
    BY <1>4 DEF RemountOk, ProtocolInv
  <2>2. Mapped' = Contract!Ready(confirmed.revision)
    BY <1>4, <2>1 DEF RemountOk
  <2>3. QED
    BY <1>4, <2>1, <2>2 DEF RemountOk, Contract!RemountSucceeded
<1>5. ASSUME RemountFailed PROVE Contract!RemountFailed
  <2>1. status.kind = "Remounting"
    BY <1>5 DEF RemountFailed, ProtocolInv
  <2>2. status'.kind = "RecoveryRequired" /\ status'.attempted = status.attempted
    BY <1>1, <1>5 DEF RemountFailed
  <2>3. Mapped' = Contract!State("failed", confirmed.revision, status.attempted)
    BY <1>5, <2>2 DEF RemountFailed
  <2>4. QED
    BY <1>5, <2>1, <2>3 DEF RemountFailed, Contract!RemountFailed
<1>6. QED
  BY <1>2, <1>3, <1>4, <1>5 DEF Recover

\* Every status change and answer of the coordinator is one of the contract's
\* transitions, whatever callers prepare from and even if a port call panics.
THEOREM CoordinatorImplementsContract == Spec => ImplementsCommitContract
<1>1. ASSUME ProtocolInv, [Next]_vars
      PROVE  [Contract!Next]_<<Mapped, outcome>>
  <2>1. ASSUME NEW p \in prepared, Apply(p) PROVE Contract!Next
    <3>1. p.base \in Revision /\ p.target \in Revision
      BY <1>1 DEF ProtocolInv, TypeOK, PreparedCommit
    <3>2. QED
      BY <1>1, <2>1, <3>1, ApplyContract DEF Contract!Next, Contract!Revision, Revision
  <2>2. CASE ApplyOk \/ ApplyRejected \/ ApplyFailed
    BY <1>1, <2>2, ApplyReturnContract DEF Contract!Next
  <2>3. CASE Recover \/ RemountOk \/ RemountFailed
    BY <1>1, <2>3, RecoverContract DEF Contract!Next
  <2>4. QED
    BY <1>1, <2>1, <2>2, <2>3, CallerContract DEF Next
<1>2. ProtocolInv /\ [Next]_vars => [Contract!Next]_<<Mapped, outcome>>
  BY <1>1
<1>3. QED
  BY <1>2, ContractInit, ProtocolInvariant, PTL
  DEF Spec, ImplementsCommitContract, Contract!ContractSpec, Mapped
=============================================================================
