------------------------ MODULE ReconciliationCampaign ------------------------
(***************************************************************************)
(* The campaign of scripts/check_reconciliation_sequences.py over the      *)
(* Python reference: a surface is taken from request to request, each      *)
(* executed against the tree committed by the one before.  Here requests   *)
(* may also be invalid, damaged or late, and for each one the properties   *)
(* ask the Rust validator, reconciler and headless host as well.           *)
(*                                                                         *)
(* A request is executed in one step and its result promoted, or the       *)
(* refusal noted, in the next, so that a property sees the tree before,    *)
(* the request and the result together.                                    *)
(***************************************************************************)
EXTENDS CommittedTrees, HeadlessHost, CandidateValidation

CONSTANTS
  Candidates,       \* declared trees, valid and invalid
  Sample,           \* candidates whose requests also override limits, or are damaged
  LimitOverrides,   \* the limits they override
  MaxSteps          \* bound: committed revisions (STEPS_PER_SEED)

ASSUME CampaignAssumption == MaxSteps \in 1..MaxRevision /\ Sample \subseteq Candidates

VARIABLES
  previous,      \* the committed tree, an option: [revision, root]
  next_node_id,  \* the reference's allocator
  ever_created,  \* identities that batches have created
  request,       \* the request being executed, an option
  result         \* its result, or its violation

vars == <<previous, next_node_id, ever_created, request, result>>

Oracle == INSTANCE ReconciliationOracle
Model == INSTANCE ReconciliationBatch

NoResult == [code |-> "idle"]

-----------------------------------------------------------------------------
(* Requests. *)

Revision == IF previous = <<>> THEN 0 ELSE previous[1].revision

Fixture(c, limits) ==
  [contract_version |-> 1, name |-> "generated", expected |-> <<>>,
   base_revision |-> Revision, target_revision |-> Revision + 1,
   allocator_next_id |-> next_node_id, previous |-> previous, candidate |-> c,
   limits |-> limits]

\* A request that lost a field, has one too many, or a field out of its range; the
\* third line is a request made for another revision, which only a previous tree refutes.
DamagedEnvelopes(f) ==
  {Restrict(f, DOMAIN f \ {"candidate"}), f @@ ("host" :> 1), [f EXCEPT !.name = ""],
   [f EXCEPT !.contract_version = 2], [f EXCEPT !.target_revision = f.base_revision],
   [f EXCEPT !.base_revision = @ + 1, !.target_revision = @ + 1],
   [f EXCEPT !.allocator_next_id = 0], [f EXCEPT !.allocator_next_id = 1],
   [f EXCEPT !.limits = "max_depth" :> 0], [f EXCEPT !.limits = "max_width" :> 1]}

\* A committed tree that was not the reference's.
DamagedTrees(tree) ==
  {tree @@ ("host" :> 1), [tree EXCEPT !.revision = -1], [tree EXCEPT !.root.node_id = 0],
   [tree EXCEPT !.root.kind = "Image"]}
  \cup {[tree EXCEPT !.root.children[i].node_id = tree.root.node_id] :
          i \in DOMAIN tree.root.children}
  \cup {[tree EXCEPT !.root.children[i].key = tree.root.children[i - 1].key] :
          i \in DOMAIN tree.root.children \ {1}}

Damaged(f) ==
  DamagedEnvelopes(f)
  \cup {[f EXCEPT !.previous = <<tree>>] :
          tree \in UNION {DamagedTrees(f.previous[i]) : i \in DOMAIN f.previous}}

-----------------------------------------------------------------------------

Init ==
  /\ previous = <<>>
  /\ next_node_id = 1
  /\ ever_created = {}
  /\ request = <<>>
  /\ result = NoResult

Created(operations) ==
  {operations[i].node_id : i \in {k \in DOMAIN operations : operations[k].op = "Create"}}

Transact(f) ==
  /\ request' = <<f>>
  /\ result' = Oracle!Execute(f)
  /\ UNCHANGED <<previous, next_node_id, ever_created>>

\* Mutant: the allocator is not carried to the next request.
PromoteKeepsAllocator ==
  /\ result.code = "none"
  /\ previous' = <<result.committed>>
  /\ ever_created' = ever_created \cup Created(result.operations)
  /\ request' = <<>> /\ result' = NoResult
  /\ UNCHANGED next_node_id

\* The committed tree and the allocator become those of the next request.
Promote ==
  /\ result.code = "none"
  /\ previous' = <<result.committed>>
  /\ next_node_id' = result.next_node_id
  /\ ever_created' = ever_created \cup Created(result.operations)
  /\ request' = <<>> /\ result' = NoResult

\* A violation leaves everything as it was.
Refuse ==
  /\ result.code \notin {"none", "idle"}
  /\ request' = <<>> /\ result' = NoResult
  /\ UNCHANGED <<previous, next_node_id, ever_created>>

Idle == request = <<>> /\ Revision < MaxSteps

TransactOwn == Idle /\ \E c \in Candidates : Transact(Fixture(c, <<>>))

TransactLimited ==
  Idle /\ \E c \in Sample, limits \in LimitOverrides : Transact(Fixture(c, limits))

TransactDamaged ==
  Idle /\ \E c \in Sample : \E f \in Damaged(Fixture(c, <<>>)) : Transact(f)

Next == TransactOwn \/ TransactLimited \/ TransactDamaged \/ Promote \/ Refuse

Spec == Init /\ [][Next]_vars

-----------------------------------------------------------------------------
(* The checks of run_campaign. *)

RECURSIVE Ids(_)
Ids(node) == FoldLeft(LAMBDA ids, child : ids \o Ids(child), <<node.node_id>>, node.children)

\* _collect_ids
CollectCode(root) ==
  Fails(\E i \in DOMAIN Ids(root) : Ids(root)[i] <= 0, "invalid committed identity")
  ?? Fails(~IsInjective(Ids(root)), "duplicate committed identity")

\* _assert_preserved, which finds old children by key and kind, the last one of several.
RECURSIVE Preserved(_, _)
Preserved(old, new) ==
  /\ SameKindAndKey(old, new) => old.node_id = new.node_id
  /\ \A j \in DOMAIN new.children :
       LET found == {i \in DOMAIN old.children : SameKindAndKey(old.children[i], new.children[j])}
       IN found # {} => Preserved(old.children[Max(found)], new.children[j])

\* What the campaign raises for a request `f` of its own, accepted with result `r`.
CampaignCode(f, r) ==
  Model!VerifyBatchResult(f.previous, r.operations, r.committed.root)
  ?? Fails(r.committed.revision # f.target_revision, "revision does not match")
  ?? Fails(\E i \in DOMAIN f.previous : ~Preserved(f.previous[i].root, r.committed.root),
           "matched node identity changed")
  ?? CollectCode(r.committed.root)
  ?? Fails(Created(r.operations) \cap ever_created # {}, "a runtime identity was reused")
  ?? Fails(\E i \in DOMAIN Ids(r.committed.root) : r.next_node_id <= Ids(r.committed.root)[i],
           "allocator did not advance")

-----------------------------------------------------------------------------
(* Vocabulary of the properties. *)

Answered == request # <<>>
Accepted == result.code = "none"
OwnRequest ==
  /\ Answered /\ TransactionCode(request[1]) = "none"
  /\ request[1] = Fixture(request[1].candidate, request[1].limits)
Limits == EffectiveLimits(request[1])

\* The rules of a valid tree.
RECURSIVE Height(_)
Height(node) ==
  1 + FoldLeft(LAMBDA h, child : Greater(h, Height(child)), 0, node.children)

RECURSIVE Size(_)
Size(node) == FoldLeft(LAMBDA n, child : n + Size(child), 1, node.children)

ConformingProperty(kind, id, v, limits) ==
  /\ id \in DOMAIN Schemas[kind] /\ v.type = Schemas[kind][id] /\ v.fits
  /\ v.type = "string" => v.bytes <= limits.max_string_bytes

ConformingNode(node, limits) ==
  /\ node.kind \in DOMAIN Schemas
  /\ Len(node.children) <= limits.max_children_per_node
  /\ Cardinality(DOMAIN node.properties) <= limits.max_properties_per_node
  /\ \A id \in DOMAIN node.properties :
       ConformingProperty(node.kind, id, node.properties[id], limits)
  /\ \A i, j \in DOMAIN node.children :
       node.children[i].key = node.children[j].key => i = j \/ node.children[i].key = NoKey

Conforms(tree, limits) ==
  /\ Height(tree) <= limits.max_depth
  /\ Size(tree) <= limits.max_nodes
  /\ \A node \in NodesOf(tree) : ConformingNode(node, limits)

ConformingPrevious(f, tree, limits) ==
  /\ DOMAIN tree = {"revision", "root"} /\ tree.revision = f.base_revision
  /\ Conforms(tree.root, limits)
  /\ IsInjective(Ids(tree.root)) /\ ToSet(Ids(tree.root)) \subseteq 1..f.allocator_next_id - 1
  /\ SameKindAndKey(tree.root, f.candidate)

Acceptable(f) ==
  /\ TransactionCode(f) = "none"
  /\ \A i \in DOMAIN f.previous : ConformingPrevious(f, f.previous[i], EffectiveLimits(f))
  /\ Conforms(f.candidate, EffectiveLimits(f))
  /\ Len(Oracle!Reconciled(f).operations) <= EffectiveLimits(f).max_operations

\* What the core's types can express: known kinds, property ids and well-typed values.
Declarable(c) ==
  \A node \in NodesOf(c) :
    /\ node.kind \in {"View", "Text"}
    /\ \A id \in DOMAIN node.properties : id \notin MalformedIds /\ node.properties[id].fits

\* The Rust side of a request: the surface's snapshot, the validator, the preparation.
Snapshot == [revision |-> Revision, next |-> next_node_id,
             root |-> [i \in DOMAIN previous |-> previous[i].root]]
RustValidation == ValidatedTree(request[1].candidate, Limits)
Compared == OwnRequest /\ Declarable(request[1].candidate) /\ RustValidation.error = "none"
Preparation == Prepare(Snapshot, request[1].candidate, Limits.max_operations)

ShowsOnBothHosts(base, operations, root, next) ==
  LET answer == ApplyBatch(FromSnapshot(Snapshot), [base |-> base, operations |-> operations])
  IN /\ answer.error = "none"
     /\ AgreesWith(answer.host, [revision |-> base + 1, root |-> <<root>>, next |-> next])
     /\ Model!VerifyBatchResult(previous, operations, root) = "none"

KeepsIdentity(old, new) ==
  \A m \in NodesOf(old), n \in NodesOf(new) :
    m.node_id = n.node_id =>
      /\ SameKindAndKey(m, n)
      /\ \A i \in DOMAIN m.children, j \in DOMAIN n.children :
           m.children[i].node_id = n.children[j].node_id
             <=> SameChild(m.children, i, n.children, j)

\* A committed tree with one name for all identities it is the first to have.
RECURSIVE Anonymous(_)
Anonymous(node) ==
  [node EXCEPT !.node_id = IF @ < next_node_id THEN @ ELSE 0,
               !.children = [i \in DOMAIN @ |-> Anonymous(@[i])]]

\* What a batch does to the nodes that exist before it, child lists apart.
OnExisting(operations) ==
  {operations[i] : i \in {k \in DOMAIN operations :
     \/ operations[k].op = "Delete"
     \/ operations[k].op = "UpdateProperties" /\ operations[k].node_id < next_node_id}}

-----------------------------------------------------------------------------
(* Properties. *)

\* The surface's tree, its allocator and the history go together: the committed tree is
\* valid under the default limits, of identities that were created and are below the next.
TypeOK ==
  /\ Revision \in 0..MaxSteps
  /\ next_node_id \in Nat \ {0} /\ ever_created = 1..next_node_id - 1
  /\ \A i \in DOMAIN previous : /\ Conforms(previous[i].root, DefaultLimits)
                                /\ ToSet(Ids(previous[i].root)) \subseteq ever_created
  /\ Answered <=> result.code # "idle"

\* Every batch, the reference's and the Rust reconciler's, is carried out by the headless
\* host and by the reference's host model, in the order of its mutations, and makes both
\* show the tree that is committed with it, which is the candidate, node for node.
PreparedBatchesApply ==
  /\ Accepted => Declaration(result.committed.root) = request[1].candidate
  /\ OwnRequest /\ Accepted =>
       ShowsOnBothHosts(Revision, result.operations, result.committed.root, result.next_node_id)
  /\ Compared /\ Preparation.error = "none" =>
       ShowsOnBothHosts(Revision, Preparation.operations, Preparation.snapshot.root[1],
                        Preparation.snapshot.next)
  /\ Compared /\ Preparation.error = "none" =>
       Declaration(Preparation.snapshot.root[1]) = request[1].candidate

\* In either one, nodes with one identity before and after have as their children with one
\* identity exactly those that are the same child: matched children keep their identity,
\* and a changed key or kind never does.  run_campaign, with checks of its own over fully
\* keyed trees, raises nothing: what it matches is preserved, and no identity is reused.
MatchedNodesKeepIdentity ==
  /\ \A i \in DOMAIN previous :
       /\ OwnRequest /\ Accepted => KeepsIdentity(previous[i].root, result.committed.root)
       /\ Compared /\ Preparation.error = "none" =>
            KeepsIdentity(previous[i].root, Preparation.snapshot.root[1])
  /\ OwnRequest /\ Accepted /\ (\A node \in NodesOf(request[1].candidate) : Keyed(node.children))
       => CampaignCode(request[1], result) = "none"

\* contracts/reconciliation/v1/README.md, "A conforming implementation must produce the
\* exact result": where both accept, the Rust reconciler and the reference commit the same
\* tree but for the order in which new nodes are numbered, do the same to the nodes that
\* existed, and leave the same next identity; the Rust batch is never the longer one.  The
\* Rust reconciler refuses as unsupported exactly the changes of some sibling list that it
\* does not implement.
ReconcilersAgree ==
  /\ Compared /\ Preparation.error = "none" =>
       /\ result.code \in {"none", "OPERATION_COUNT_LIMIT"}
            \/ \E i \in DOMAIN previous : ~Conforms(previous[i].root, Limits)
       /\ Accepted =>
            /\ Anonymous(Preparation.snapshot.root[1]) = Anonymous(result.committed.root)
            /\ OnExisting(Preparation.operations) = OnExisting(result.operations)
            /\ Preparation.snapshot.next = result.next_node_id
            /\ Len(Preparation.operations) <= Len(result.operations)
  /\ Compared /\ previous # <<>> =>
       LET supported == Supported(previous[1].root, request[1].candidate)
       IN /\ Preparation.error = "StructuralChangeUnsupported" => ~supported
          /\ Preparation.error = "none" => supported

\* A request is executed if and only if it is well formed, of the surface's revision, with
\* trees within its limits, an allocator beyond every identity, and a batch within bounds.
RefusedIffInvalid == Answered => (Accepted <=> Acceptable(request[1]))

\* The core's validator and the reference's accept the same declarations, and count the
\* same nodes, but for children of a Text, which only the core refuses.
ValidatorsAgree ==
  OwnRequest /\ Declarable(request[1].candidate) =>
    LET reference == ValidateCandidate(request[1].candidate, Limits, 1)
        leafy == \A n \in NodesOf(request[1].candidate) : n.kind = "Text" => n.children = <<>>
    IN /\ RustValidation.error = "none" <=> reference.code = "none" /\ leafy
       /\ RustValidation.error = "none" => RustValidation.count = reference.count
=============================================================================
