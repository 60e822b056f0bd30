------------------------------ MODULE HostBatches ------------------------------
(***************************************************************************)
(* The headless adapter under any batches, well-made or not: apply_batch   *)
(* of adapters/rmf-renderer-headless/src/mutation.rs one mutation at a     *)
(* time, on the copy that it works on, and remount_snapshot.               *)
(***************************************************************************)
EXTENDS HostMutations

CONSTANTS
  NodeId,        \* identities that batches name
  Kind,          \* component kinds
  PropertyId, Value,
  Index,         \* child indices that batches name
  Snapshots,     \* the hosts that from_snapshot makes of committed snapshots
  MaxRevision    \* bound: the last revision that is published

VARIABLES
  published,  \* HeadlessMutationAdapter::state
  copy        \* `next` of apply_to_copy with its last error, an option

vars == <<published, copy>>

\* PropertySet: values by identity.
PropertySets == UNION {[ids -> Value] : ids \in SUBSET PropertyId}

\* Mutation, as its types allow.
Mutation ==
  [op : {"Create"}, node_id : NodeId, kind : Kind]
  \cup [op : {"UpdateProperties"}, node_id : NodeId, set : PropertySets, remove : SUBSET PropertyId]
  \cup [op : {"InsertChild", "RemoveChild"}, parent_id : NodeId, child_id : NodeId, index : Index]
  \cup [op : {"MoveChild"}, parent_id : NodeId, child_id : NodeId, from : Index, to : Index]
  \cup [op : {"Delete"}, node_id : NodeId]

-----------------------------------------------------------------------------
(* What a host is. *)

Node == [kind : Kind, properties : PropertySets,
         parent : NodeId \cup {Nobody}, children : Seq(NodeId)]

\* HostState, the root being one of the nodes.
Typed(h) ==
  /\ h \in [revision : 0..MaxRevision, root : DOMAIN h.nodes \cup {Nobody},
           nodes : {h.nodes}]
  /\ DOMAIN h.nodes \subseteq NodeId
  /\ h.nodes \in [DOMAIN h.nodes -> Node]

\* The first node is the root, and no other node is above it.
Rooted(h) ==
  IF h.root = Nobody THEN DOMAIN h.nodes = {}
  ELSE Live(h, h.root) /\ Parent(h, h.root) = Nobody

\* A parent lists its children.
ParentsList(h) ==
  \A id \in DOMAIN h.nodes :
    Parent(h, id) # Nobody =>
      Live(h, Parent(h, id)) /\ id \in Range(Children(h, Parent(h, id)))

\* A node is listed once, by its parent.
ListedByParent(h) ==
  \A id \in DOMAIN h.nodes :
    /\ IsInjective(Children(h, id))
    /\ \A child \in Range(Children(h, id)) : Live(h, child) /\ Parent(h, child) = id

\* Whichever nodes one takes, a way up leaves them: has_ancestor ends.
Acyclic(h) ==
  \A ids \in SUBSET DOMAIN h.nodes : ids # {} => \E id \in ids : Parent(h, id) \notin ids

Forest(h) == Rooted(h) /\ ParentsList(h) /\ ListedByParent(h) /\ Acyclic(h)

\* Nodes other than the root that are attached nowhere.
Loose(h) == {id \in DOMAIN h.nodes \ {h.root} : Parent(h, id) = Nobody}

-----------------------------------------------------------------------------
ASSUME IdentityAssumption == NodeId \subseteq Nat \ {0}   \* NonZeroU64
ASSUME IndexAssumption == Index \subseteq Nat
ASSUME RevisionAssumption == MaxRevision \in Nat
\* Committed identities are distinct, so a snapshot becomes a tree.
ASSUME SnapshotAssumption ==
  \A s \in Snapshots : Typed(s) /\ Forest(s) /\ Loose(s) = {}

Init ==
  /\ published = EmptyHost
  /\ copy = <<>>

\* A batch for the revision of the host; any other is refused at once.
BeginBatch ==
  /\ copy = <<>>
  /\ copy' = <<Done(published)>>
  /\ UNCHANGED published

Mutate(m) ==
  /\ copy # <<>> /\ copy[1].error = "none"
  /\ copy' = <<ApplyMutation(copy[1].host, m)>>
  /\ UNCHANGED published

\* RejectedBeforeMutation: the copy is dropped.
Discard ==
  /\ copy # <<>>
  /\ copy[1].error # "none" \/ ~ValidGraph(copy[1].host)
  /\ copy' = <<>>
  /\ UNCHANGED published

Publish ==
  /\ copy # <<>> /\ copy[1].error = "none" /\ ValidGraph(copy[1].host)
  /\ published.revision < MaxRevision
  /\ published' = [copy[1].host EXCEPT !.revision = published.revision + 1]
  /\ copy' = <<>>

Remount(s) ==
  /\ copy = <<>>
  /\ published' = s
  /\ UNCHANGED copy

Next ==
  \/ BeginBatch
  \/ \E m \in Mutation : Mutate(m)
  \/ Discard
  \/ Publish
  \/ \E s \in Snapshots : Remount(s)

Spec == Init /\ [][Next]_vars

-----------------------------------------------------------------------------
(* Properties. *)

Hosts == {published} \cup {copy[i].host : i \in DOMAIN copy}

Errors == {"none", "DuplicateNode", "UnknownNode", "MissingProperty", "InvalidChildRelation",
           "NodeNotDeletable"}

\* The published host and the copy are hosts, the copy with an error of apply().
TypeOK ==
  /\ Typed(published)
  /\ \/ copy = <<>>
     \/ /\ copy = <<[host |-> copy[1].host, error |-> copy[1].error]>>
        /\ Typed(copy[1].host)
        /\ copy[1].error \in Errors

\* Whatever mutations a batch has, in the middle of it as well: parents and lists of
\* children agree, and every way up ends, as the loop of has_ancestor needs.
HostIsForest == \A h \in Hosts : Forest(h)

\* Every node of a published host hangs below its root, although validate_graph only walks
\* down from the root and counts: at the end of a batch it refuses exactly the hosts with a
\* node that is attached nowhere, and none of its other refusals can happen.
PublishedIsTree ==
  /\ \A id \in DOMAIN published.nodes : HasAncestor(published, id, published.root)
  /\ \A i \in DOMAIN copy : ValidGraph(copy[i].host) <=> Loose(copy[i].host) = {}

\* A refused mutation leaves the copy as it was: remove_child takes the child off the
\* list before its last two checks, which never fail.
RefusalsLeaveNoTrace ==
  [][\A i \in DOMAIN copy \cap DOMAIN copy' :
       copy'[i].error # "none" => copy'[i].host = copy[i].host]_vars
=============================================================================
