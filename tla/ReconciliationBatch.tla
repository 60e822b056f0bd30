-------------------------- MODULE ReconciliationBatch --------------------------
(***************************************************************************)
(* The independent host of the reference,                                  *)
(* scripts/reconciliation_batch_model.py: it seeds a tree, applies a batch *)
(* and compares what it shows with the committed tree.                     *)
(*                                                                         *)
(* A host is [nodes, parents, root, error]: the nodes by identity, their   *)
(* parents (Nobody: detached, or the root), the root (Nobody: none) and    *)
(* the BatchApplicationError raised, "none" while there is none.           *)
(***************************************************************************)
EXTENDS Integers, Sequences, SequencesExt, FiniteSets, Functions

Nobody == 0

HostNode(kind, properties, children) ==
  [kind |-> kind, properties |-> properties, children |-> children]

Empty == [nodes |-> <<>>, parents |-> <<>>, root |-> Nobody, error |-> "none"]
Raised(host, error) == [host EXCEPT !.error = error]

Known(host, id) == id \in DOMAIN host.nodes
Children(host, id) == host.nodes[id].children

\* host_projection: what the mutation protocol lets a host know of a committed node.
RECURSIVE Projection(_)
Projection(node) ==
  [node_id |-> node.node_id, kind |-> node.kind, properties |-> node.properties,
   children |-> [i \in DOMAIN node.children |-> Projection(node.children[i])]]

-----------------------------------------------------------------------------
(* _seed_tree. *)

Seeded(host, node, parent) ==
  [host EXCEPT
     !.nodes = (node.node_id :> HostNode(node.kind, node.properties,
                  [i \in DOMAIN node.children |-> node.children[i].node_id])) @@ @,
     !.parents = (node.node_id :> parent) @@ @]

RECURSIVE SeedTree(_, _, _)
SeedTree(host, node, parent) ==
  IF host.error # "none" THEN host
  ELSE IF Known(host, node.node_id) THEN Raised(host, "duplicate seed node")
  ELSE FoldLeft(LAMBDA h, child : SeedTree(h, child, node.node_id),
                Seeded(host, node, parent), node.children)

-----------------------------------------------------------------------------
(* _apply_operation: a host for each operation, or the host with the error raised. *)

ApplyCreate(host, op) ==
  IF op.node_id <= 0 \/ Known(host, op.node_id) \/ op.kind = ""
  THEN Raised(host, "created node is invalid or exists")
  ELSE [host EXCEPT !.nodes = (op.node_id :> HostNode(op.kind, <<>>, <<>>)) @@ @,
                    !.parents = (op.node_id :> Nobody) @@ @,
                    !.root = IF @ = Nobody THEN op.node_id ELSE @]

ApplyUpdateProperties(host, op) ==
  IF \/ ~Known(host, op.node_id)
     \/ DOMAIN op.set \cap op.remove # {}
     \/ ~(op.remove \subseteq DOMAIN host.nodes[op.node_id].properties)
  THEN Raised(host, "invalid property update")
  ELSE [host EXCEPT !.nodes[op.node_id].properties =
                      op.set @@ Restrict(@, DOMAIN @ \ op.remove)]

\* The two identities are known, and the attached child is at the index.
KnownPair(host, op) == Known(host, op.parent_id) /\ Known(host, op.child_id)
InRange(host, op, index) == 0 <= index /\ index < Len(Children(host, op.parent_id))
Attached(host, op, index) ==
  /\ KnownPair(host, op) /\ InRange(host, op, index)
  /\ Children(host, op.parent_id)[index + 1] = op.child_id
  /\ host.parents[op.child_id] = op.parent_id

ApplyInsertChild(host, op) ==
  IF /\ KnownPair(host, op)
     /\ host.parents[op.child_id] = Nobody /\ op.child_id # host.root
     /\ 0 <= op.index /\ op.index <= Len(Children(host, op.parent_id))
  THEN [host EXCEPT !.nodes[op.parent_id].children = InsertAt(@, op.index + 1, op.child_id),
                    !.parents[op.child_id] = op.parent_id]
  ELSE Raised(host, "node is attached or index is outside")

ApplyMoveChild(host, op) ==
  IF Attached(host, op, op.from) /\ InRange(host, op, op.to)
  THEN [host EXCEPT !.nodes[op.parent_id].children =
                      InsertAt(RemoveAt(@, op.from + 1), op.to + 1, op.child_id)]
  ELSE Raised(host, "move source does not identify the attached child")

ApplyRemoveChild(host, op) ==
  IF Attached(host, op, op.index)
  THEN [host EXCEPT !.nodes[op.parent_id].children = RemoveAt(@, op.index + 1),
                    !.parents[op.child_id] = Nobody]
  ELSE Raised(host, "remove index does not identify the attached child")

ApplyDelete(host, op) ==
  IF /\ Known(host, op.node_id) /\ op.node_id # host.root
     /\ host.parents[op.node_id] = Nobody /\ Children(host, op.node_id) = <<>>
  THEN [host EXCEPT !.nodes = Restrict(@, DOMAIN @ \ {op.node_id}),
                    !.parents = Restrict(@, DOMAIN @ \ {op.node_id})]
  ELSE Raised(host, "node must be detached and empty before deletion")

ApplyOperation(host, op) ==
  CASE op.op = "Create"           -> ApplyCreate(host, op)
    [] op.op = "UpdateProperties" -> ApplyUpdateProperties(host, op)
    [] op.op = "InsertChild"      -> ApplyInsertChild(host, op)
    [] op.op = "MoveChild"        -> ApplyMoveChild(host, op)
    [] op.op = "RemoveChild"      -> ApplyRemoveChild(host, op)
    [] op.op = "Delete"           -> ApplyDelete(host, op)

-----------------------------------------------------------------------------
(* apply_batch and verify_batch_result. *)

\* _materialize: the tree shown below `id`, and the nodes visited on the way.
RECURSIVE Materialize(_, _)
Materialize(host, id) ==
  [node_id |-> id, kind |-> host.nodes[id].kind, properties |-> host.nodes[id].properties,
   children |-> [i \in DOMAIN Children(host, id) |-> Materialize(host, Children(host, id)[i])]]

RECURSIVE Visits(_, _)
Visits(host, id) == FoldLeft(LAMBDA ids, child : ids \o Visits(host, child), <<id>>, Children(host, id))

\* What the finished host lacks to be one tree.
ShapeError(host) ==
  CASE host.error # "none" -> host.error
    [] host.error = "none" /\ ~Known(host, host.root) -> "batch did not leave a surface root"
    [] OTHER ->
         IF ~IsInjective(Visits(host, host.root)) THEN "node is reachable more than once"
         ELSE IF ToSet(Visits(host, host.root)) # DOMAIN host.nodes
         THEN "batch left detached nodes"
         ELSE "none"

Seed(previous) ==
  IF previous = <<>> THEN Empty
  ELSE [SeedTree(Empty, previous[1].root, Nobody) EXCEPT !.root = previous[1].root.node_id]

ApplyBatch(previous, operations) ==
  FoldLeft(LAMBDA host, op : IF host.error = "none" THEN ApplyOperation(host, op) ELSE host,
           Seed(previous), operations)

Verdict(host, root) ==
  IF ShapeError(host) # "none" THEN ShapeError(host)
  ELSE IF Materialize(host, host.root) # Projection(root)
  THEN "applied host tree differs from committed host projection"
  ELSE "none"

\* verify_batch_result: the error raised for a batch and the tree committed with it.
VerifyBatchResult(previous, operations, root) == Verdict(ApplyBatch(previous, operations), root)
=============================================================================
