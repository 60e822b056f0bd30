---------------------------- MODULE CommitContract ----------------------------
(***************************************************************************)
(* The language-independent commit-application contract: `transition` of   *)
(* scripts/check_commit_state_fixtures.py, one action per operation.  A    *)
(* host reports each result as an operation of its own, so the contract    *)
(* says what may follow a begun apply or remount, at any later time.       *)
(* Failure codes are opaque there and are left out.                        *)
(***************************************************************************)
EXTENDS Integers

CONSTANT MaxRevision   \* stands for MAX_REVISION = 2^64 - 1

VARIABLES
  surface,   \* the model's `state`: name, confirmed revision, attempted revision
  outcome    \* the typed result, or the code of a rejection

Revision == 0..MaxRevision

\* `attempted` is the target (applying) or attempted_revision (failed, remounting);
\* a ready surface has none, which is written as its own revision.
State(name, revision, attempted) ==
  [state |-> name, revision |-> revision, attempted |-> attempted]

Ready(revision) == State("ready", revision, revision)

Moves(name, to, result) ==
  surface.state = name /\ surface' = to /\ outcome' = result

Rejects(code) == UNCHANGED surface /\ outcome' = code

-----------------------------------------------------------------------------

Init == surface = Ready(0) /\ outcome = "none"

BeginApply(base, target) ==
  \/ surface.state = "failed" /\ Rejects("RECOVERY_REQUIRED")
  \/ surface.state \in {"applying", "remounting"} /\ Rejects("SURFACE_BUSY")
  \/ /\ surface.state = "ready"
     /\ base # surface.revision
     /\ Rejects("STALE_BATCH")
  \/ /\ surface.state = "ready"
     /\ base = surface.revision
     /\ base = MaxRevision \/ target # base + 1
     /\ Rejects("INVALID_REVISION")
  \/ /\ base = surface.revision
     /\ base # MaxRevision
     /\ target = base + 1
     /\ Moves("ready", State("applying", base, target), "apply_started")

HostApplied == Moves("applying", Ready(surface.attempted), "commit_promoted")

HostRejected == Moves("applying", Ready(surface.revision), "batch_discarded")

HostFailed ==
  Moves("applying", State("failed", surface.revision, surface.attempted),
        "recovery_required")

BeginRemount ==
  \/ Moves("failed", State("remounting", surface.revision, surface.attempted),
           "remount_started")
  \/ surface.state # "failed" /\ Rejects("INVALID_TRANSITION")

RemountSucceeded == Moves("remounting", Ready(surface.revision), "surface_restored")

RemountFailed ==
  Moves("remounting", State("failed", surface.revision, surface.attempted),
        "recovery_required")

\* A host result that answers no call in progress is refused.
UnexpectedResult ==
  \/ surface.state # "applying" /\ Rejects("INVALID_TRANSITION")
  \/ surface.state # "remounting" /\ Rejects("INVALID_TRANSITION")

Next ==
  \/ \E base, target \in Revision : BeginApply(base, target)
  \/ HostApplied \/ HostRejected \/ HostFailed
  \/ BeginRemount
  \/ RemountSucceeded \/ RemountFailed
  \/ UnexpectedResult

ContractSpec == Init /\ [][Next]_<<surface, outcome>>
=============================================================================
