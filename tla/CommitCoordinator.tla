--------------------------- MODULE CommitCoordinator ---------------------------
(***************************************************************************)
(* Apply-then-promote orchestration of one surface: CommitCoordinator in   *)
(* crates/rmf-runtime/src/commit.rs, with the callers that prepare commits *)
(* and the host behind the two outbound ports.                             *)
(*                                                                         *)
(* A call of a port is a begin step, in which the coordinator publishes    *)
(* its status, and a return step; in between the host mutates its tree,    *)
(* callers prepare more commits, and requests that re-enter the            *)
(* coordinator (or come after a call that never returned normally) see     *)
(* the published status.  Prepared commits are values (Clone): a caller    *)
(* may present one late, twice, or after others prepared from the same     *)
(* snapshot were committed.                                                *)
(*                                                                         *)
(* Trees are opaque.  A batch is the difference between the tree of the    *)
(* snapshot it was prepared from and its target tree, so only a host that  *)
(* shows the first ends up showing the second.                             *)
(***************************************************************************)
EXTENDS Integers

CONSTANTS
  Tree,          \* committed trees
  EmptyTree,     \* the tree of SurfaceSnapshot::empty()
  Torn,          \* a host tree that is no committed tree
  MaxRevision,   \* stands for u64::MAX
  Speculative,   \* TRUE: callers also prepare from snapshots not yet committed
  HostMayPanic   \* TRUE: a port call may unwind through the coordinator

ASSUME TreeAssumption == EmptyTree \in Tree /\ Torn \notin Tree
ASSUME RevisionAssumption == MaxRevision \in Nat \ {0}
ASSUME FlagAssumption == Speculative \in BOOLEAN /\ HostMayPanic \in BOOLEAN

VARIABLES
  confirmed,  \* last snapshot confirmed by the host: [revision, tree]
  status,     \* CommitStatus: [kind, confirmed, attempted]
  call,       \* the port call in progress: Idle, ApplyCall or RemountCall
  host,       \* the tree the host shows
  snapshots,  \* snapshots callers hold (SurfaceSnapshot is Clone)
  prepared,   \* prepared commits callers hold: [base, target, from, tree]
  outcome     \* history: the last answer, in the contract's vocabulary

vars == <<confirmed, status, call, host, snapshots, prepared, outcome>>

Revision == 0..MaxRevision
Snapshot == [revision : Revision, tree : Tree]
PreparedCommit == [base : Revision, target : Revision, from : Tree, tree : Tree]

\* The port call in progress; `shown` is the host's tree when apply_batch began.
Idle == [port |-> "none"]
ApplyCall(p, tree) == [port |-> "apply", commit |-> p, shown |-> tree]
RemountCall(s) == [port |-> "remount", snapshot |-> s]

Status(kind, revision, attempted) ==
  [kind |-> kind, confirmed |-> revision, attempted |-> attempted]
Ready(revision) == Status("Ready", revision, revision)

\* into_snapshot()
IntoSnapshot(p) == [revision |-> p.target, tree |-> p.tree]

-----------------------------------------------------------------------------

\* CommitCoordinator::new over a host that shows nothing.
Init ==
  /\ confirmed = [revision |-> 0, tree |-> EmptyTree]
  /\ status = Ready(0)
  /\ call = Idle
  /\ host = EmptyTree
  /\ snapshots = {}
  /\ prepared = {}
  /\ outcome = "none"

(* Callers. *)

\* confirmed_snapshot(), or its cloned result kept for later.
ReadSnapshot ==
  /\ snapshots' = snapshots \cup {confirmed}
  /\ UNCHANGED <<confirmed, status, call, host, prepared, outcome>>

\* into_snapshot() of a preparation the host has not confirmed.
Speculate(p) ==
  /\ Speculative
  /\ snapshots' = snapshots \cup {IntoSnapshot(p)}
  /\ UNCHANGED <<confirmed, status, call, host, prepared, outcome>>

\* Mutant: Revision::next that does not stop at the last revision.
PrepareUnchecked(s, tree) ==
  /\ prepared' = prepared \cup {[base |-> s.revision, target |-> s.revision + 1,
                                 from |-> s.tree, tree |-> tree]}
  /\ UNCHANGED <<confirmed, status, call, host, snapshots, outcome>>

\* Reconciler::prepare; RevisionExhausted at the last revision.
Prepare(s, tree) ==
  /\ s.revision < MaxRevision
  /\ prepared' = prepared \cup {[base |-> s.revision, target |-> s.revision + 1,
                                 from |-> s.tree, tree |-> tree]}
  /\ UNCHANGED <<confirmed, status, call, host, snapshots, outcome>>

(* CommitCoordinator::apply. *)

RejectApply(code) ==
  /\ outcome' = code
  /\ UNCHANGED <<confirmed, status, call, host, snapshots, prepared>>

Apply(p) ==
  \/ status.kind \in {"Applying", "Remounting"} /\ RejectApply("SURFACE_BUSY")
  \/ status.kind = "RecoveryRequired" /\ RejectApply("RECOVERY_REQUIRED")
  \/ /\ status.kind = "Ready"
     /\ p.base # confirmed.revision
     /\ RejectApply("STALE_BATCH")
  \/ /\ status.kind = "Ready"
     /\ p.base = confirmed.revision
     /\ status' = Status("Applying", p.base, p.target)
     /\ call' = ApplyCall(p, host)
     /\ outcome' = "apply_started"
     /\ UNCHANGED <<confirmed, host, snapshots, prepared>>

(* The host, and the return of apply_batch by the three arms of its match. *)

\* The complete batch, applied to a host that shows `tree`.
AfterBatch(p, tree) == IF tree = p.from THEN p.tree ELSE Torn

\* Some of the batch has reached the host.
HostMutates ==
  /\ call.port = "apply"
  /\ host' = Torn
  /\ UNCHANGED <<confirmed, status, call, snapshots, prepared, outcome>>

ApplyOk ==
  /\ call.port = "apply"
  /\ host' = AfterBatch(call.commit, call.shown)
  /\ confirmed' = IntoSnapshot(call.commit)
  /\ status' = Ready(call.commit.target)
  /\ call' = Idle
  /\ outcome' = "commit_promoted"
  /\ UNCHANGED <<snapshots, prepared>>

\* RejectedBeforeMutation is valid only when no host state changed.
ApplyRejected ==
  /\ call.port = "apply"
  /\ host = call.shown
  /\ status' = Ready(confirmed.revision)
  /\ call' = Idle
  /\ outcome' = "batch_discarded"
  /\ UNCHANGED <<confirmed, host, snapshots, prepared>>

\* Mutant: an ambiguous failure handled like a rejection.
ApplyFailedIsRejection ==
  /\ call.port = "apply"
  /\ host' \in {host, Torn, AfterBatch(call.commit, call.shown)}
  /\ status' = Ready(confirmed.revision)
  /\ call' = Idle
  /\ outcome' = "batch_discarded"
  /\ UNCHANGED <<confirmed, snapshots, prepared>>

\* Any ambiguous failure is FailedAfterMutation: the batch may have reached the
\* host not at all, in part, or completely.
ApplyFailed ==
  /\ call.port = "apply"
  /\ host' \in {host, Torn, AfterBatch(call.commit, call.shown)}
  /\ status' = Status("RecoveryRequired", confirmed.revision, call.commit.target)
  /\ call' = Idle
  /\ outcome' = "recovery_required"
  /\ UNCHANGED <<confirmed, snapshots, prepared>>

(* CommitCoordinator::recover. *)

\* Mutant: recovery from every state that is not ready.
BeginRemountAnytime ==
  /\ status.kind # "Ready"
  /\ status' = [status EXCEPT !.kind = "Remounting"]
  /\ call' = RemountCall(confirmed)
  /\ outcome' = "remount_started"
  /\ UNCHANGED <<confirmed, host, snapshots, prepared>>

BeginRemount ==
  /\ status.kind = "RecoveryRequired"
  /\ status' = [status EXCEPT !.kind = "Remounting"]
  /\ call' = RemountCall(confirmed)
  /\ outcome' = "remount_started"
  /\ UNCHANGED <<confirmed, host, snapshots, prepared>>

\* NotRequired, BusyApplying and BusyRemounting.
RejectRecover ==
  /\ status.kind # "RecoveryRequired"
  /\ outcome' = "INVALID_TRANSITION"
  /\ UNCHANGED <<confirmed, status, call, host, snapshots, prepared>>

Recover == BeginRemount \/ RejectRecover

\* Mutant: a remount that reports the attempted revision as ready.
RemountOkAttempted ==
  /\ call.port = "remount"
  /\ host' = call.snapshot.tree
  /\ status' = Ready(status.attempted)
  /\ call' = Idle
  /\ outcome' = "surface_restored"
  /\ UNCHANGED <<confirmed, snapshots, prepared>>

RemountOk ==
  /\ call.port = "remount"
  /\ host' = call.snapshot.tree
  /\ status' = Ready(status.confirmed)
  /\ call' = Idle
  /\ outcome' = "surface_restored"
  /\ UNCHANGED <<confirmed, snapshots, prepared>>

\* Mutant: the status is not reset after a failed remount.
RemountFailedStuck ==
  /\ call.port = "remount"
  /\ host' \in {host, Torn, call.snapshot.tree}
  /\ call' = Idle
  /\ outcome' = "recovery_required"
  /\ UNCHANGED <<confirmed, status, snapshots, prepared>>

RemountFailed ==
  /\ call.port = "remount"
  /\ host' \in {host, Torn, call.snapshot.tree}
  /\ status' = [status EXCEPT !.kind = "RecoveryRequired"]
  /\ call' = Idle
  /\ outcome' = "recovery_required"
  /\ UNCHANGED <<confirmed, snapshots, prepared>>

\* A panic in a port unwinds through apply or recover: the published status stays.
Unwind ==
  /\ HostMayPanic
  /\ call # Idle
  /\ host' \in {host, Torn}
  /\ call' = Idle
  /\ UNCHANGED <<confirmed, status, snapshots, prepared, outcome>>

-----------------------------------------------------------------------------

Next ==
  \/ ReadSnapshot
  \/ \E p \in prepared : Speculate(p)
  \/ \E s \in snapshots, tree \in Tree : Prepare(s, tree)
  \/ \E p \in prepared : Apply(p)
  \/ HostMutates \/ ApplyOk \/ ApplyRejected \/ ApplyFailed
  \/ Recover
  \/ RemountOk \/ RemountFailed
  \/ Unwind

Spec == Init /\ [][Next]_vars

\* Ports are synchronous and return; the owner of a surface that requires recovery
\* calls recover() until it is ready; a remount retried for ever succeeds once.
Fairness ==
  /\ WF_vars(ApplyOk \/ ApplyRejected \/ ApplyFailed)
  /\ WF_vars(BeginRemount)
  /\ WF_vars(RemountOk \/ RemountFailed)
  /\ SF_vars(RemountOk)

FairSpec == Spec /\ Fairness

-----------------------------------------------------------------------------

\* The coordinator's fields, the callers' values and the host's tree have the
\* types commit.rs gives them.
TypeOK ==
  /\ confirmed \in Snapshot
  /\ status \in [kind : {"Ready", "Applying", "Remounting", "RecoveryRequired"},
                 confirmed : Revision, attempted : Revision]
  /\ call \in {Idle}
         \cup [port : {"apply"}, commit : PreparedCommit, shown : Tree \cup {Torn}]
         \cup [port : {"remount"}, snapshot : Snapshot]
  /\ host \in Tree \cup {Torn}
  /\ snapshots \subseteq Snapshot
  /\ prepared \subseteq PreparedCommit
  /\ outcome \in {"none", "apply_started", "commit_promoted", "batch_discarded",
                  "recovery_required", "remount_started", "surface_restored",
                  "SURFACE_BUSY", "RECOVERY_REQUIRED", "STALE_BATCH", "INVALID_TRANSITION"}

\* CommitStatus::Ready, "The host agrees with the confirmed snapshot": after every
\* promotion, safe rejection and recovery, however many stale, duplicate or
\* re-entrant requests were made.
ReadyHostAgrees ==
  status.kind = "Ready" =>
    /\ status = Ready(confirmed.revision)
    /\ host = confirmed.tree

\* A batch reaches the host only against the tree it was prepared from: every
\* preparation that lost the race to another commit is refused before the call.
BatchFitsHost == call.port = "apply" => call.shown = call.commit.from

\* A port call that unwound leaves the surface closed for good: no request makes
\* the coordinator call the host or change its confirmed snapshot again.
Orphaned == call = Idle /\ status.kind \in {"Applying", "Remounting"}

FailsClosedAfterPanic ==
  [][Orphaned => call' = Idle /\ UNCHANGED <<status, confirmed, host>>]_vars

\* A surface never stays out of service while the host can still be remounted.
ReadyAgainAndAgain == []<>(status.kind = "Ready")

-----------------------------------------------------------------------------
(* The coordinator implements the commit-application contract. *)

ContractName ==
  CASE status.kind = "Ready"            -> "ready"
    [] status.kind = "Applying"         -> "applying"
    [] status.kind = "Remounting"       -> "remounting"
    [] status.kind = "RecoveryRequired" -> "failed"

Contract == INSTANCE CommitContract WITH
  surface <- [state |-> ContractName, revision |-> confirmed.revision,
              attempted |-> status.attempted]

\* Each status change and answer of commit.rs is a transition of the contract: a
\* promotion advances the confirmed revision by one and only after host success,
\* and a failed surface accepts nothing but a remount until one succeeds.
ImplementsCommitContract == Contract!ContractSpec
=============================================================================
