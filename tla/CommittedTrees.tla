---------------------------- MODULE CommittedTrees ----------------------------
(***************************************************************************)
(* Reference definitions over declared and committed trees, by which the   *)
(* properties judge what reconcilers and validators do: the same child,    *)
(* the changes the Rust reconciler supports, the rules of a valid tree.    *)
(***************************************************************************)
EXTENDS Reconciler

RECURSIVE NodesOf(_)
NodesOf(node) == {node} \cup UNION {NodesOf(node.children[i]) : i \in DOMAIN node.children}


\* The declaration a committed tree realises.
RECURSIVE Declaration(_)
Declaration(node) ==
  [kind |-> node.kind, key |-> node.key, properties |-> node.properties,
   children |-> [i \in DOMAIN node.children |-> Declaration(node.children[i])]]

SameKindAndKey(old, new) == old.kind = new.kind /\ old.key = new.key

\* Child `i` of one sibling list is the same child as `j` of another: by key and kind,
\* or by position and kind when it has no key.
SameChild(old, i, new, j) == SameKindAndKey(old[i], new[j]) /\ (old[i].key = NoKey => i = j)

Matches(old, new) ==
  {m \in (DOMAIN old) \X (DOMAIN new) : SameChild(old, m[1], new, m[2])}

\* Every child of `shorter`, all keyed, occurs in `longer` in the same order.
EmbedsInOrder(shorter, longer) ==
  /\ Keyed(longer)
  /\ \A i \in DOMAIN shorter : \E j \in DOMAIN longer : SameChild(shorter, i, longer, j)
  /\ \A m, n \in Matches(shorter, longer) : m[1] < n[1] => m[2] < n[2]

\* The changes of one sibling list that the reconciler documents as implemented: none,
\* one keyed replacement, a permutation of keyed children, pure keyed insertion and removal.
SupportedChange(old, new) ==
  \/ Len(old) < Len(new) /\ EmbedsInOrder(old, new)
  \/ Len(old) > Len(new) /\ EmbedsInOrder(new, old)
  \/ /\ Len(old) = Len(new)
     /\ LET changed == {i \in DOMAIN old : ~SameKindAndKey(old[i], new[i])}
        IN \/ changed = {}
           \/ Cardinality(changed) = 1
              /\ \A i \in changed : old[i].key # NoKey /\ new[i].key # NoKey
           \/ Keyed(old) /\ \A i \in DOMAIN old : \E j \in DOMAIN new : SameChild(old, i, new, j)

RECURSIVE Supported(_, _)
Supported(old, new) ==
  /\ SameKindAndKey(old, new)
  /\ SupportedChange(old.children, new.children)
  /\ \A m \in Matches(old.children, new.children) :
       Supported(old.children[m[1]], new.children[m[2]])
=============================================================================
