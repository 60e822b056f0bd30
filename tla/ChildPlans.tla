------------------------------ MODULE ChildPlans ------------------------------
(***************************************************************************)
(* How the reconciler compares two nodes and two lists of children: the    *)
(* plans at the end of crates/rmf-reconciliation/src/reconciler.rs, from   *)
(* the previous committed nodes `prev` and the declared ones `cand`.       *)
(***************************************************************************)
EXTENDS Mutations, Functions

\* Mutant: removed properties are missed.
PropertyDeltaWithoutRemovals(old, new) ==
  LET changed == {p \in DOMAIN new : p \notin DOMAIN old \/ old[p] # new[p]}
  IN [set |-> [p \in changed |-> new[p]], remove |-> {}]

PropertyDelta(old, new) ==
  LET changed == {p \in DOMAIN new : p \notin DOMAIN old \/ old[p] # new[p]}
  IN [set |-> [p \in changed |-> new[p]], remove |-> DOMAIN old \ DOMAIN new]

-----------------------------------------------------------------------------
(* Which previous child, if any, a candidate child continues. *)

\* Mutant: nodes are matched by key alone.
CompatibleKey(p, c) == p.key = c.key

Compatible(p, c) == p.key = c.key /\ p.kind = c.kind
Keyed(nodes) == \A i \in DOMAIN nodes : nodes[i].key # NoKey
Keys(nodes) == [i \in DOMAIN nodes |-> nodes[i].key]

\* detect_single_keyed_replacement: the one incompatible position, if both are keyed.
Replacements(prev, cand) ==
  LET differ == {i \in DOMAIN prev : ~Compatible(prev[i], cand[i])}
  IN IF Cardinality(differ) = 1
        /\ \A i \in differ : prev[i].key # NoKey /\ cand[i].key # NoKey
     THEN differ ELSE {}

\* SingleMove::previous_index, of the move of position `from` to position `to`.
MovedFrom(from, to, j) ==
  CASE j = to -> from
    [] from < to /\ j >= from /\ j < to -> j + 1
    [] from > to /\ j > to /\ j <= from -> j - 1
    [] OTHER -> j

\* single_move_matches
IsMove(prev, cand, from, to) ==
  \A j \in DOMAIN cand :
    LET p == prev[MovedFrom(from, to, j)] IN p.key # NoKey /\ p.key = cand[j].key

\* detect_single_keyed_move: a move to the first mismatch is preferred to one from it.
SingleMoves(prev, cand) ==
  LET first == CHOOSE i \in DOMAIN prev :
                 /\ prev[i].key # cand[i].key
                 /\ \A j \in 1..i - 1 : prev[j].key = cand[j].key
      later == first + 1..Len(prev)
      toFirst == {<<from, first>> : from \in {i \in later : IsMove(prev, cand, i, first)}}
      fromFirst == {<<first, to>> : to \in {i \in later : IsMove(prev, cand, first, i)}}
  IN IF toFirst # {} THEN toFirst ELSE fromFirst

\* plan_keyed_reorder: the candidate permutes fully keyed children of the same kinds.
IsReorder(prev, cand) ==
  /\ Keyed(prev) /\ IsInjective(Keys(prev)) /\ IsInjective(Keys(cand))
  /\ \A i \in DOMAIN cand : \E j \in DOMAIN prev : Compatible(prev[j], cand[i])

PreviousIndex(prev, child) == CHOOSE j \in DOMAIN prev : prev[j].key = child.key

\* Mutant: a child is moved from its position before the earlier moves.
OldPosition(prev, cand, i) == PreviousIndex(prev, cand[i])

\* The position of the child for target `i` after the earlier targets were moved into
\* place: behind the children before it that are still waiting (FenwickTree).
LivePosition(prev, cand, i) ==
  LET placed == {PreviousIndex(prev, cand[k]) : k \in 1..i - 1}
      waiting == (1..PreviousIndex(prev, cand[i]) - 1) \ placed
  IN i + Cardinality(waiting)

\* The movements of the plan, by the targets that they serve; a child that has come to its
\* place with the earlier ones stays.
ReorderMoves(parent, prev, cand) ==
  LET movement(i) ==
        LET live == LivePosition(prev, cand, i)
        IN IF live = i THEN <<>>
           ELSE <<MoveChild(parent, prev[PreviousIndex(prev, cand[i])].node_id, live - 1, i - 1)>>
      moves[i \in 0..Len(cand)] == IF i = 0 THEN <<>> ELSE moves[i - 1] \o movement(i)
  IN moves

\* plan_keyed_insertions and plan_keyed_removals: how much of the shorter list the first
\* nodes of the longer one have matched, each the next node if it is compatible.
GreedyUse(longer, shorter) ==
  LET used[i \in 0..Len(longer)] ==
        IF i = 0 THEN 0
        ELSE LET before == used[i - 1]
             IN IF before < Len(shorter) /\ Compatible(shorter[before + 1], longer[i])
                THEN before + 1 ELSE before
  IN used

\* The matches of the nodes of the longer list, as indices in the shorter, 0 where there is none.
GreedyMatch(longer, shorter) ==
  LET used == GreedyUse(longer, shorter)
  IN [i \in DOMAIN longer |-> IF used[i] = used[i - 1] THEN 0 ELSE used[i]]

MatchesAll(longer, shorter) ==
  Keyed(longer) /\ GreedyUse(longer, shorter)[Len(longer)] = Len(shorter)
=============================================================================
