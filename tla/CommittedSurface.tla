--------------------------- MODULE CommittedSurface ---------------------------
(***************************************************************************)
(* One surface from candidate to host: preparations by the reconciler, the *)
(* coordinator that promotes them (apply and recover of commit.rs, each    *)
(* here one step) and the headless host that carries them out.             *)
(*                                                                         *)
(* Callers prepare from the confirmed snapshot, hold the results and apply *)
(* or drop them later, in any order.  The headless host is atomic; with    *)
(* PartialHost a host may also fail part of the way through a batch, which *)
(* the BatchApplier port allows.                                           *)
(***************************************************************************)
EXTENDS CommittedTrees, HeadlessHost

CONSTANTS
  Candidates,    \* validated candidate trees
  Limits,        \* operation limits callers configure
  MaxHeld,       \* bound: results held at a time
  PartialHost    \* TRUE: a host may fail part of the way through a batch

ASSUME SurfaceAssumption == MaxHeld \in Nat \ {0} /\ PartialHost \in BOOLEAN

VARIABLES
  confirmed,  \* the coordinator's confirmed snapshot
  ready,      \* CommitStatus: TRUE for Ready, FALSE for RecoveryRequired
  host,       \* the host's tree
  held,       \* results of prepare: [candidate, from, limit, commit]
  named       \* history: <<identity, kind>> of every node a host was made to create

vars == <<confirmed, ready, host, held, named>>

Init ==
  /\ confirmed = EmptySnapshot
  /\ ready = TRUE
  /\ host = EmptyHost
  /\ held = {}
  /\ named = {}

Preparation(c, limit) ==
  [candidate |-> c, from |-> confirmed, limit |-> limit,
   commit |-> Prepare(confirmed, c, limit)]

Names(operations) ==
  {<<operations[i].node_id, operations[i].kind>> :
     i \in {k \in DOMAIN operations : operations[k].op = "Create"}}

PrepareCommit(c, limit) ==
  /\ Cardinality(held) < MaxHeld
  /\ held' = held \cup {Preparation(c, limit)}
  /\ UNCHANGED <<confirmed, ready, host, named>>

Discard(p) ==
  /\ held' = held \ {p}
  /\ UNCHANGED <<confirmed, ready, host, named>>

\* apply refuses a stale base; a host rejection leaves the surface ready.
Stale(p) == p.commit.base # confirmed.revision

Apply(p) ==
  LET answer == ApplyBatch(host, p.commit)
  IN /\ ready
     /\ p.commit.error = "none"
     /\ held' = held \ {p}
     /\ IF Stale(p) \/ answer.error # "none"
        THEN UNCHANGED <<confirmed, host, named>>
        ELSE /\ host' = answer.host
             /\ confirmed' = p.commit.snapshot
             /\ named' = named \cup Names(p.commit.operations)
     /\ UNCHANGED ready

\* FailedAfterMutation with the first `done` mutations on the host.
FailPartway(p, done) ==
  LET carriedOut == SubSeq(p.commit.operations, 1, done)
  IN /\ PartialHost /\ ready
     /\ p.commit.error = "none" /\ ~Stale(p)
     /\ held' = held \ {p}
     /\ ready' = FALSE
     /\ host' = ApplyAll(host, carriedOut).host
     /\ named' = named \cup Names(carriedOut)
     /\ UNCHANGED confirmed

\* Mutant: the surface is declared ready without a remount.
RecoverKeepsHost ==
  /\ ~ready
  /\ ready' = TRUE
  /\ UNCHANGED <<confirmed, host, held, named>>

Recover ==
  /\ ~ready
  /\ ready' = TRUE
  /\ host' = FromSnapshot(confirmed)
  /\ UNCHANGED <<confirmed, held, named>>

Next ==
  \/ \E c \in Candidates, limit \in Limits : PrepareCommit(c, limit)
  \/ \E p \in held : Discard(p)
  \/ \E p \in held : Apply(p)
  \/ \E p \in held : \E done \in 0..Len(p.commit.operations) : FailPartway(p, done)
  \/ Recover

Spec == Init /\ [][Next]_vars

-----------------------------------------------------------------------------
(* Vocabulary of the properties. *)

Nodes(s) == UNION {NodesOf(s.root[i]) : i \in DOMAIN s.root}
Ids(s) == {node.node_id : node \in Nodes(s)}

-----------------------------------------------------------------------------
(* Properties. *)

\* Identities are unique in a snapshot and end at the last one, and the allocator is
\* beyond all of them, or exhausted.
IdentitiesAllocated(s) ==
  /\ Ids(s) \subseteq 1..MaxNodeId
  /\ Cardinality(Ids(s)) = Cardinality(Nodes(s))
  /\ \A id \in Ids(s) : s.next = Exhausted \/ id < s.next

\* Snapshots and preparations have the shape types.rs gives them: revisions in range, a
\* batch only with a success and no larger than its limit, and identities that are unique
\* up to exhaustion, whatever was refused, dropped, late or recovered before.
TypeOK ==
  /\ confirmed.revision \in 0..MaxRevision /\ confirmed.next \in 0..MaxNodeId
  /\ ready \in BOOLEAN
  /\ DOMAIN host.nodes \subseteq 1..MaxNodeId
  /\ Cardinality(held) <= MaxHeld
  /\ \A p \in held : /\ p.candidate \in Candidates
                     /\ Len(p.commit.operations) <= p.limit
                     /\ p.commit.error # "none" => p.commit.snapshot = p.from
  /\ \A s \in {confirmed} \cup {p.commit.snapshot : p \in held} : IdentitiesAllocated(s)

\* agrees_with: a ready surface's host shows the confirmed snapshot exactly (structure,
\* kinds, properties, revision), whatever was prepared, dropped, late or recovered.
HostAgrees == ready => AgreesWith(host, confirmed)

\* ADR-0002, "IDs are monotonically allocated and never reused during a surface
\* lifetime": the nodes created under one identity are of one kind.
NodeIdsNamedOnce == \A m, n \in named : m[1] = n[1] => m = n
=============================================================================
