------------------------------ MODULE Reconciler ------------------------------
(***************************************************************************)
(* Preparation of a commit: Reconciler::prepare and CommitBuilder in       *)
(* crates/rmf-reconciliation/src/reconciler.rs over the trees of types.rs. *)
(*                                                                         *)
(* The builder walks the previous and the candidate tree in a fixed order, *)
(* allocates identities, pushes mutations, and stops at the first error.   *)
(* Here it yields its steps, the mutations with a Failed step wherever it  *)
(* would stop, and the tree it builds; Prepare then cuts the steps at the  *)
(* first failure or at the operation limit, whichever comes first.         *)
(*                                                                         *)
(* Positions are the code's, counted from 0; sequences count from 1.       *)
(***************************************************************************)
EXTENDS ChildPlans

CONSTANTS
  MaxNodeId,     \* stands for u64::MAX, the last identity
  MaxRevision    \* stands for u64::MAX, the last revision

\* next_node_id is Option<NonZeroU64>; the zero niche is None.
Exhausted == 0
\* Mutant: identities run past the last one.
SuccessorUnchecked(id) == id + 1

Successor(id) == IF id = MaxNodeId THEN Exhausted ELSE id + 1

\* Snapshots: `root` is an option, written as a sequence.
EmptySnapshot == [revision |-> 0, root |-> <<>>, next |-> 1]

Failed(error) == <<[op |-> "Failed", error |-> error]>>
Unsupported == Failed("StructuralChangeUnsupported")

\* What a part of the walk yields: what it built, its steps, the next identity.
Built(tree, steps, next) == [tree |-> tree, steps |-> steps, next |-> next]

\* One more child, which was there already, or which is inserted behind those built.
WithChild(b, sub) == Built(Append(b.tree, sub.tree), b.steps \o sub.steps, sub.next)
WithNewChild(b, parent, sub) ==
  Built(Append(b.tree, sub.tree),
        b.steps \o sub.steps \o <<InsertChild(parent, sub.tree.node_id, Len(b.tree))>>,
        sub.next)

\* A committed node over the children built for it, its own steps coming first.
OverChildren(id, c, steps, b) == Built(Committed(id, c, b.tree), steps \o b.steps, b.next)

-----------------------------------------------------------------------------
(* create_subtree and delete_subtree. *)

RECURSIVE CreateSubtree(_, _)
CreateSubtree(c, next) ==
  LET allocated == IF next = Exhausted THEN Failed("IdentityExhausted") ELSE <<>>
      properties == IF DOMAIN c.properties = {} THEN <<>>
                    ELSE <<UpdateProperties(next, c.properties, {})>>
      Add(b, child) == WithNewChild(b, next, CreateSubtree(child, b.next))
  IN OverChildren(next, c, allocated \o <<Create(next, c.kind)>> \o properties,
                  FoldLeft(Add, Built(<<>>, <<>>, Successor(next)), c.children))

RECURSIVE DeleteSubtree(_)
DeleteSubtree(node) ==
  LET Detach(i) == <<RemoveChild(node.node_id, node.children[i].node_id, i - 1)>>
                     \o DeleteSubtree(node.children[i])
  IN FlattenSeq(Reverse([i \in DOMAIN node.children |-> Detach(i)])) \o <<Delete(node.node_id)>>

-----------------------------------------------------------------------------
(* reconcile_node and reconcile_children. *)

RECURSIVE ReconcileNode(_, _, _)

\* Continue the children built so far with one that continues `p`, or with a new one.
ContinueWith(b, p, c) == WithChild(b, ReconcileNode(p, c, b.next))

InsertNew(b, parent, c) == WithNewChild(b, parent, CreateSubtree(c, b.next))

RemoveOld(b, parent, p, index) ==
  Built(b.tree,
        b.steps \o <<RemoveChild(parent, p.node_id, index)>> \o DeleteSubtree(p), b.next)

\* reconcile_keyed_insertions, over the positions of the candidate children.
Insertions(parent, prev, cand, next) ==
  LET match == GreedyMatch(cand, prev)
      Child(b, i) == IF match[i] # 0 THEN ContinueWith(b, prev[match[i]], cand[i])
                     ELSE InsertNew(b, parent, cand[i])
  IN IF MatchesAll(cand, prev)
     THEN FoldLeft(Child, Built(<<>>, <<>>, next), [i \in DOMAIN cand |-> i])
     ELSE Built(<<>>, Unsupported, next)

\* reconcile_keyed_removals, over the positions of the previous children; a removal's
\* index is the live one, after those before it.
Removals(parent, prev, cand, next) ==
  LET match == GreedyMatch(prev, cand)
      Child(b, i) == IF match[i] # 0 THEN ContinueWith(b, prev[i], cand[match[i]])
                     ELSE RemoveOld(b, parent, prev[i], Len(b.tree))
  IN IF MatchesAll(prev, cand)
     THEN FoldLeft(Child, Built(<<>>, <<>>, next), [i \in DOMAIN prev |-> i])
     ELSE Built(<<>>, Unsupported, next)

\* reconcile_single_replacement: the replaced child goes and comes before the others
\* are reconciled.
Replacement(parent, prev, cand, at, next) ==
  LET removed == RemoveOld(Built(<<>>, <<>>, next), parent, prev[at], at - 1)
      new == CreateSubtree(cand[at], next)
      start == Built(<<>>, removed.steps \o new.steps
                             \o <<InsertChild(parent, new.tree.node_id, at - 1)>>, new.next)
      Child(b, i) == IF i = at THEN Built(Append(b.tree, new.tree), b.steps, b.next)
                     ELSE ContinueWith(b, prev[i], cand[i])
  IN FoldLeft(Child, start, [i \in DOMAIN cand |-> i])

\* The moves of reconcile_children come before its children are reconciled, each with
\* the previous child `from[i]` that candidate `i` continues.
Moved(parent, prev, cand, next) ==
  LET single == SingleMoves(prev, cand)
      move == CHOOSE m \in single : TRUE
      Children(from, steps) ==
        FoldLeft(LAMBDA b, i : ContinueWith(b, prev[from[i]], cand[i]),
                 Built(<<>>, steps, next), [i \in DOMAIN cand |-> i])
  IN CASE Keys(prev) = Keys(cand) -> Children([i \in DOMAIN cand |-> i], <<>>)
       [] Keys(prev) # Keys(cand) /\ single # {}
            -> Children([i \in DOMAIN cand |-> MovedFrom(move[1], move[2], i)],
                        <<MoveChild(parent, prev[move[1]].node_id, move[1] - 1, move[2] - 1)>>)
       [] Keys(prev) # Keys(cand) /\ single = {} /\ IsReorder(prev, cand)
            -> Children([i \in DOMAIN cand |-> PreviousIndex(prev, cand[i])],
                        ReorderMoves(parent, prev, cand)[Len(cand)])
       [] OTHER -> Built(<<>>, Unsupported, next)

ReconcileChildren(parent, prev, cand, next) ==
  CASE Len(cand) > Len(prev) -> Insertions(parent, prev, cand, next)
    [] Len(cand) < Len(prev) -> Removals(parent, prev, cand, next)
    [] Len(cand) = Len(prev) /\ Replacements(prev, cand) # {}
         -> Replacement(parent, prev, cand, CHOOSE at \in Replacements(prev, cand) : TRUE, next)
    [] OTHER -> Moved(parent, prev, cand, next)

ReconcileNode(p, c, next) ==
  LET delta == PropertyDelta(p.properties, c.properties)
      update == IF DOMAIN delta.set = {} /\ delta.remove = {} THEN <<>>
                ELSE <<UpdateProperties(p.node_id, delta.set, delta.remove)>>
  IN IF ~Compatible(p, c) THEN Built(p, Unsupported, next)
     ELSE OverChildren(p.node_id, c, update,
                       ReconcileChildren(p.node_id, p.children, c.children, next))

-----------------------------------------------------------------------------
(* Reconciler::prepare.  An error leaves no trace: the snapshot is untouched. *)

\* CommitBuilder::push, for all mutations of a batch.
ExceedsLimit(pushed, limit) == pushed > limit

\* The result of a preparation that stopped at its first failure or at the operation
\* limit, whichever came first.
Finish(s, built, limit) ==
  LET stop == SelectInSeq(built.steps, LAMBDA step : step.op = "Failed")
      pushed == IF stop = 0 THEN Len(built.steps) ELSE stop - 1
      error == CASE s.revision = MaxRevision -> "RevisionExhausted"
                 [] s.revision # MaxRevision /\ ExceedsLimit(pushed, limit)
                      -> "OperationLimitExceeded"
                 [] s.revision # MaxRevision /\ ~ExceedsLimit(pushed, limit) /\ stop # 0
                      -> built.steps[stop].error
                 [] OTHER -> "none"
  IN [error |-> error,
      base |-> s.revision,
      operations |-> IF error = "none" THEN built.steps ELSE <<>>,
      snapshot |-> IF error = "none"
                   THEN [revision |-> s.revision + 1, root |-> <<built.tree>>, next |-> built.next]
                   ELSE s]

Prepare(s, c, limit) ==
  Finish(s, IF s.root = <<>> THEN CreateSubtree(c, s.next)
            ELSE ReconcileNode(s.root[1], c, s.next), limit)
=============================================================================
