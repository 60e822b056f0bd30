----------------------------- MODULE HostMutations -----------------------------
(***************************************************************************)
(* What a mutation does to the headless host: HostState::apply and         *)
(* validate_graph in adapters/rmf-renderer-headless/src/mutation.rs.  A    *)
(* host is [revision, root, nodes], `nodes` a function from the live       *)
(* identities to [kind, properties, parent, children].  Each mutation      *)
(* gives the next host or an error; a batch is applied to a copy, checked  *)
(* as a graph, and published only as a whole.                              *)
(***************************************************************************)
EXTENDS Integers, Sequences, SequencesExt, FiniteSets, Functions

\* Option<u64> of `root` and `parent`.
Nobody == 0

EmptyHost == [revision |-> 0, root |-> Nobody, nodes |-> <<>>]

HostNode(kind, properties, parent, children) ==
  [kind |-> kind, properties |-> properties, parent |-> parent, children |-> children]

\* `error` is the error of the last mutation, "none" while all have succeeded.
Done(h) == [host |-> h, error |-> "none"]
Rejected(h, error) == [host |-> h, error |-> error]

Live(h, id) == id \in DOMAIN h.nodes
Parent(h, id) == h.nodes[id].parent
Children(h, id) == h.nodes[id].children

\* children.get(index) == Some(&child)
ChildAt(h, parent, index, child) ==
  index < Len(Children(h, parent)) /\ Children(h, parent)[index + 1] = child

\* A set that has the parents of its nodes.
HasParents(h, ids) ==
  \A id \in ids : Live(h, id) /\ Parent(h, id) # Nobody => Parent(h, id) \in ids

\* `sought` is `id` or one of its ancestors: no set with the parents of its nodes has `id` only.
HasAncestor(h, id, sought) ==
  \A ids \in SUBSET (DOMAIN h.nodes \cup {id}) : id \in ids /\ HasParents(h, ids) => sought \in ids

-----------------------------------------------------------------------------
(* HostState::apply, one operator per mutation. *)

HostCreate(h, m) ==
  IF Live(h, m.node_id) THEN Rejected(h, "DuplicateNode")
  ELSE Done([h EXCEPT
         !.root = IF DOMAIN h.nodes = {} THEN m.node_id ELSE @,
         !.nodes = [id \in DOMAIN h.nodes \cup {m.node_id} |->
                      IF id = m.node_id THEN HostNode(m.kind, <<>>, Nobody, <<>>) ELSE h.nodes[id]]])

\* `old` without those removed and with those set.
Updated(old, set, remove) ==
  [p \in (DOMAIN old \ remove) \cup DOMAIN set |-> IF p \in DOMAIN set THEN set[p] ELSE old[p]]

HostUpdateProperties(h, m) ==
  CASE ~Live(h, m.node_id) -> Rejected(h, "UnknownNode")
    [] Live(h, m.node_id) /\ ~(m.remove \subseteq DOMAIN h.nodes[m.node_id].properties)
         -> Rejected(h, "MissingProperty")
    [] OTHER -> Done([h EXCEPT !.nodes[m.node_id].properties = Updated(@, m.set, m.remove)])

\* Mutant: a child that is attached already is taken.
MayBeInsertedTwice(h, m) == h.root # m.child_id /\ ~HasAncestor(h, m.parent_id, m.child_id)

\* A child that is attached nowhere, and that the parent is not below.
MayBeInserted(h, m) ==
  /\ Parent(h, m.child_id) = Nobody
  /\ h.root # m.child_id
  /\ ~HasAncestor(h, m.parent_id, m.child_id)

HostInsertChild(h, m) ==
  CASE ~Live(h, m.child_id) -> Rejected(h, "UnknownNode")
    [] Live(h, m.child_id) /\ ~MayBeInserted(h, m) -> Rejected(h, "InvalidChildRelation")
    [] OTHER ->
         CASE ~Live(h, m.parent_id) -> Rejected(h, "UnknownNode")
           [] Live(h, m.parent_id) /\ m.index > Len(Children(h, m.parent_id))
                -> Rejected(h, "InvalidChildRelation")
           [] OTHER -> Done([h EXCEPT
                !.nodes[m.parent_id].children = InsertAt(@, m.index + 1, m.child_id),
                !.nodes[m.child_id].parent = m.parent_id])

HostMoveChild(h, m) ==
  CASE ~Live(h, m.parent_id) -> Rejected(h, "UnknownNode")
    [] /\ Live(h, m.parent_id)
       /\ \/ ~ChildAt(h, m.parent_id, m.from, m.child_id)
          \/ m.to >= Len(Children(h, m.parent_id))
         -> Rejected(h, "InvalidChildRelation")
    [] OTHER -> Done([h EXCEPT !.nodes[m.parent_id].children =
                        InsertAt(RemoveAt(@, m.from + 1), m.to + 1, m.child_id)])

\* The child leaves the parent's list even when its own parent field disagrees.
HostRemoveChild(h, m) ==
  LET unlisted == [h EXCEPT !.nodes[m.parent_id].children = RemoveAt(@, m.index + 1)]
  IN CASE ~Live(h, m.parent_id) -> Rejected(h, "UnknownNode")
       [] Live(h, m.parent_id) /\ ~ChildAt(h, m.parent_id, m.index, m.child_id)
            -> Rejected(h, "InvalidChildRelation")
       [] OTHER ->
            CASE ~Live(h, m.child_id) -> Rejected(unlisted, "UnknownNode")
              [] Live(h, m.child_id) /\ Parent(h, m.child_id) # m.parent_id
                   -> Rejected(unlisted, "InvalidChildRelation")
              [] OTHER -> Done([unlisted EXCEPT !.nodes[m.child_id].parent = Nobody])

Deletable(h, id) == h.root # id /\ Parent(h, id) = Nobody /\ Children(h, id) = <<>>

HostDelete(h, m) ==
  CASE ~Live(h, m.node_id) -> Rejected(h, "UnknownNode")
    [] Live(h, m.node_id) /\ ~Deletable(h, m.node_id) -> Rejected(h, "NodeNotDeletable")
    [] OTHER -> Done([h EXCEPT !.nodes = [id \in DOMAIN @ \ {m.node_id} |-> h.nodes[id]]])

ApplyMutation(h, m) ==
  CASE m.op = "Create"           -> HostCreate(h, m)
    [] m.op = "UpdateProperties" -> HostUpdateProperties(h, m)
    [] m.op = "InsertChild"      -> HostInsertChild(h, m)
    [] m.op = "MoveChild"        -> HostMoveChild(h, m)
    [] m.op = "RemoveChild"      -> HostRemoveChild(h, m)
    [] m.op = "Delete"           -> HostDelete(h, m)

-----------------------------------------------------------------------------
(* Whole batches. *)

\* A set that has the children of its nodes.
HasChildren(h, ids) ==
  \A id \in ids : \A k \in DOMAIN Children(h, id) : Children(h, id)[k] \in ids

\* Mutant: nodes that the walk does not reach are not missed.
ValidGraphUncounted(h) ==
  IF h.root = Nobody THEN DOMAIN h.nodes = {}
  ELSE /\ Live(h, h.root) /\ Parent(h, h.root) = Nobody
       /\ \A id \in DOMAIN h.nodes :
            /\ IsInjective(Children(h, id))
            /\ \A k \in DOMAIN Children(h, id) :
                 Live(h, Children(h, id)[k]) /\ Parent(h, Children(h, id)[k]) = id

\* validate_graph, by the nodes it visits: a tree from the root that reaches every node once.
ValidGraph(h) ==
  IF h.root = Nobody THEN DOMAIN h.nodes = {}
  ELSE /\ Live(h, h.root) /\ Parent(h, h.root) = Nobody
       /\ \A ids \in SUBSET DOMAIN h.nodes :
            h.root \in ids /\ HasChildren(h, ids) => ids = DOMAIN h.nodes
       /\ \A id \in DOMAIN h.nodes :
            /\ IsInjective(Children(h, id))
            /\ \A k \in DOMAIN Children(h, id) :
                 Live(h, Children(h, id)[k]) /\ Parent(h, Children(h, id)[k]) = id

\* The host after the first `n` mutations, or after those before the first that fails.
AfterEach(h, operations) ==
  LET after[n \in 0..Len(operations)] ==
        IF n = 0 THEN Done(h)
        ELSE LET before == after[n - 1]
             IN IF before.error = "none" THEN ApplyMutation(before.host, operations[n]) ELSE before
  IN after

ApplyAll(h, operations) == AfterEach(h, operations)[Len(operations)]

\* apply_batch: the published host is the old one or the complete new one.
ApplyBatch(h, batch) ==
  LET copy == ApplyAll(h, batch.operations)
  IN CASE batch.base # h.revision -> Rejected(h, "StaleRevision")
       [] batch.base = h.revision /\ copy.error # "none" -> Rejected(h, copy.error)
       [] batch.base = h.revision /\ copy.error = "none" /\ ~ValidGraph(copy.host)
            -> Rejected(h, "InvalidHostGraph")
       [] OTHER -> Done([copy.host EXCEPT !.revision = batch.base + 1])
=============================================================================
