----------------------------- MODULE HeadlessHost -----------------------------
(***************************************************************************)
(* The headless host against committed snapshots: remount_snapshot and     *)
(* agrees_with of HeadlessMutationAdapter in                               *)
(* adapters/rmf-renderer-headless/src/mutation.rs.                         *)
(***************************************************************************)
EXTENDS HostMutations

RECURSIVE CommittedNodes(_, _)
CommittedNodes(node, parent) ==
  LET ids == [i \in DOMAIN node.children |-> node.children[i].node_id]
      own == node.node_id :> HostNode(node.kind, node.properties, parent, ids)
  IN FoldLeft(LAMBDA nodes, child : CommittedNodes(child, node.node_id) @@ nodes,
              own, node.children)

\* remount_snapshot
FromSnapshot(s) ==
  IF s.root = <<>> THEN [EmptyHost EXCEPT !.revision = s.revision]
  ELSE [revision |-> s.revision, root |-> s.root[1].node_id,
        nodes |-> CommittedNodes(s.root[1], Nobody)]

RECURSIVE NodeAgrees(_, _, _)
NodeAgrees(h, node, parent) ==
  /\ Live(h, node.node_id)
  /\ h.nodes[node.node_id].kind = node.kind
  /\ h.nodes[node.node_id].parent = parent
  /\ h.nodes[node.node_id].properties = node.properties
  /\ Len(h.nodes[node.node_id].children) = Len(node.children)
  /\ \A i \in DOMAIN node.children :
       /\ h.nodes[node.node_id].children[i] = node.children[i].node_id
       /\ NodeAgrees(h, node.children[i], node.node_id)

RECURSIVE NodeIds(_)
NodeIds(node) ==
  FoldLeft(LAMBDA ids, child : ids \o NodeIds(child), <<node.node_id>>, node.children)

\* agrees_with; `visited` is the list of the snapshot's identities.
AgreesWith(h, s) ==
  /\ h.revision = s.revision
  /\ IF s.root = <<>> THEN h.root = Nobody /\ DOMAIN h.nodes = {}
     ELSE /\ h.root = s.root[1].node_id
          /\ NodeAgrees(h, s.root[1], Nobody)
          /\ IsInjective(NodeIds(s.root[1]))
          /\ Len(NodeIds(s.root[1])) = Cardinality(DOMAIN h.nodes)
=============================================================================
