------------------------- MODULE ReconciliationOracle -------------------------
(***************************************************************************)
(* The deterministic reference for reconciliation,                         *)
(* scripts/reconciliation_oracle.py: from a request to the batch, the next *)
(* committed tree and the next identity, or a violation.                   *)
(*                                                                         *)
(* Unlike the Rust reconciler it takes any change of a list of children:   *)
(* it matches children, removes those without a match from the end, and    *)
(* puts the candidate's children into place one by one.                    *)
(***************************************************************************)
EXTENDS ReconciliationValidation

\* A walk in progress: the next identity, the operations so far, the committed children
\* built, and the identities in the host's list as they are at this moment.
Walk(next_id, operations, children, order) ==
  [next_id |-> next_id, operations |-> operations, children |-> children, order |-> order]

\* A walk over a subtree that is complete, with its committed node.
Subtree(node, w) == [node |-> node, operations |-> w.operations, next_id |-> w.next_id]

Position(order, id) == SelectInSeq(order, LAMBDA i : i = id)

\* The child built by `sub` is inserted as child `i`.
Inserted(w, parent, i, sub) ==
  Walk(sub.next_id,
       w.operations \o sub.operations \o <<InsertChild(parent, sub.node.node_id, i - 1)>>,
       Append(w.children, sub.node), InsertAt(w.order, i, sub.node.node_id))

RECURSIVE CreateSubtree(_, _)
CreateSubtree(c, node_id) ==
  LET properties == IF DOMAIN c.properties = {} THEN <<>>
                    ELSE <<UpdateProperties(node_id, c.properties, {})>>
      start == Walk(node_id + 1, <<Create(node_id, c.kind)>> \o properties, <<>>, <<>>)
      Add(w, i) == Inserted(w, node_id, i, CreateSubtree(c.children[i], w.next_id))
      built == FoldLeft(Add, start, [i \in DOMAIN c.children |-> i])
  IN Subtree(Committed(node_id, c, built.children), built)

RECURSIVE DeleteSubtree(_)
DeleteSubtree(node) ==
  LET Detach(i) == <<RemoveChild(node.node_id, node.children[i].node_id, i - 1)>>
                     \o DeleteSubtree(node.children[i])
  IN FlattenSeq(Reverse([i \in DOMAIN node.children |-> Detach(i)])) \o <<Delete(node.node_id)>>

\* property_delta, as the operation it leads to, if any.
PropertyDelta(id, old, new) ==
  LET changed == {p \in DOMAIN new : p \notin DOMAIN old \/ old[p] # new[p]}
      removed == DOMAIN old \ DOMAIN new
  IN IF changed = {} /\ removed = {} THEN <<>>
     ELSE <<UpdateProperties(id, [p \in changed |-> new[p]], removed)>>

-----------------------------------------------------------------------------
(* Which previous children are continued. *)

Matches(p, c) == p.kind = c.kind /\ p.key = c.key

\* The previous child selected for candidate child `c` in position `i`, as a set.
Selected(old, c, i, used) ==
  IF c.key # NoKey
  THEN {j \in DOMAIN old : old[j].key = c.key /\ (j \in used \/ Matches(old[j], c))}
  ELSE {j \in {i} \cap DOMAIN old : j \notin used /\ old[j].key = NoKey /\ Matches(old[j], c)}

\* select_child_matches: 0 is None.
SelectChildMatches(old, cand) ==
  LET Select(selected, i) ==
        LET found == Selected(old, cand[i], i, ToSet(selected) \ {0})
        IN Append(selected, IF found = {} THEN 0 ELSE Max(found))
  IN FoldLeft(Select, <<>>, [i \in DOMAIN cand |-> i])

-----------------------------------------------------------------------------
(* reconcile_node. *)

\* A previous child without a match leaves the list at its position of this moment.
Removed(w, parent, child) ==
  LET at == Position(w.order, child.node_id)
  IN Walk(w.next_id,
          w.operations \o <<RemoveChild(parent, child.node_id, at - 1)>> \o DeleteSubtree(child),
          w.children, RemoveAt(w.order, at))

\* The child continued by `sub` is moved to position `i`, if it is not there.
Continued(w, parent, i, sub) ==
  LET id == sub.node.node_id
      at == Position(w.order, id)
      move == IF at = i THEN <<>> ELSE <<MoveChild(parent, id, at - 1, i - 1)>>
  IN Walk(sub.next_id, w.operations \o sub.operations \o move, Append(w.children, sub.node),
          InsertAt(RemoveAt(w.order, at), i, id))

RECURSIVE ReconcileNode(_, _, _)

\* The children of `cand`, in order, where `selected` names the previous child.
PlaceChildren(start, parent, old, cand, selected) ==
  LET Place(w, i) ==
        IF selected[i] = 0
        THEN Inserted(w, parent, i, CreateSubtree(cand[i], w.next_id))
        ELSE Continued(w, parent, i, ReconcileNode(old[selected[i]], cand[i], w.next_id))
  IN FoldLeft(Place, start, [i \in DOMAIN cand |-> i])

\* The unmatched previous children go first, from the end.
RemoveUnmatched(start, parent, old, selected) ==
  LET unmatched == SelectSeq([i \in DOMAIN old |-> i], LAMBDA i : i \notin ToSet(selected))
      Discard(w, i) == Removed(w, parent, old[i])
  IN FoldLeft(Discard, start, Reverse(unmatched))

ReconcileChildren(start, p, c, selected) ==
  PlaceChildren(RemoveUnmatched(start, p.node_id, p.children, selected),
                p.node_id, p.children, c.children, selected)

ReconcileNode(p, c, next_id) ==
  LET ids == [i \in DOMAIN p.children |-> p.children[i].node_id]
      start == Walk(next_id, PropertyDelta(p.node_id, p.properties, c.properties), <<>>, ids)
      walk == ReconcileChildren(start, p, c, SelectChildMatches(p.children, c.children))
  IN Subtree(Committed(p.node_id, c, walk.children), walk)

-----------------------------------------------------------------------------
(* execute. *)

Violation(code) == [code |-> code]

PreviousCode(f, tree, limits) ==
  LET walked == ValidateCommittedTree(tree, limits)
  IN walked.code
     ?? Fails(f.allocator_next_id <= walked.greatest, "INVALID_ALLOCATOR_STATE")
     ?? Fails(tree.revision # f.base_revision, "STALE_REVISION")

\* Everything that is refused before identities are allocated.
RequestCode(f) ==
  TransactionCode(f)
  ?? (IF f.previous = <<>> THEN "none" ELSE PreviousCode(f, f.previous[1], EffectiveLimits(f)))
  ?? ValidateCandidate(f.candidate, EffectiveLimits(f), 1).code
  ?? Fails(f.previous # <<>> /\ ~Matches(f.previous[1].root, f.candidate),
           "ROOT_REPLACEMENT_UNSUPPORTED")

Batch(f, sub) ==
  IF Len(sub.operations) > EffectiveLimits(f).max_operations
  THEN Violation("OPERATION_COUNT_LIMIT")
  ELSE [code |-> "none",
        operations |-> sub.operations,
        committed |-> [revision |-> f.target_revision, root |-> sub.node],
        next_node_id |-> sub.next_id]

Reconciled(f) ==
  IF f.previous = <<>> THEN CreateSubtree(f.candidate, f.allocator_next_id)
  ELSE ReconcileNode(f.previous[1].root, f.candidate, f.allocator_next_id)

Execute(f) ==
  IF RequestCode(f) # "none" THEN Violation(RequestCode(f)) ELSE Batch(f, Reconciled(f))
=============================================================================
