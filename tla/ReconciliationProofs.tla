-------------------------- MODULE ReconciliationProofs --------------------------
(***************************************************************************)
(* Proofs about HostBatches, what the mutations of any batch keep of a     *)
(* host, and what is published; and about ChildPlans, what the plans for   *)
(* two lists of children do to the host that carries them out.             *)
(***************************************************************************)
EXTENDS HostBatches, ChildPlans, FiniteSetTheorems, SequenceTheorems, WellFoundedInduction, TLAPS

-----------------------------------------------------------------------------
(* Induction, and lists. *)

\* Induction over the naturals, with a set for the property: a least number outside it
\* has no predecessor.
LEMMA NatSetInduction ==
  ASSUME NEW S, 0 \in S, \A n \in Nat : n \in S => n + 1 \in S
  PROVE  Nat \subseteq S
<1> DEFINE T == {n \in Nat : n \notin S}
           R == {p \in Nat \X Nat : p[1] < p[2]}
<1> SUFFICES ASSUME T # {} PROVE FALSE
  OBVIOUS
<1>1. IsWellFoundedOn(R, Nat)
  BY NatLessThanWellFounded DEF OpToRel
<1>2. PICK x \in T : \A y \in T : ~ (<<y, x>> \in R)
  BY <1>1, WFMin
<1>3. x \in Nat /\ x # 0 /\ x - 1 \in Nat
  OBVIOUS
<1>4. <<x - 1, x>> \in R
  BY <1>3
<1>5. x - 1 \in S
  BY <1>2, <1>3, <1>4
<1>6. (x - 1) + 1 = x
  BY <1>3
<1>7. QED
  BY <1>3, <1>5, <1>6

\* What an insertion into a list gives at each position.
LEMMA InsertAtPositions ==
  ASSUME NEW S, NEW s \in Seq(S), NEW i \in 1..Len(s) + 1, NEW e \in S
  PROVE  InsertAt(s, i, e) = [k \in 1..Len(s) + 1 |-> IF k < i THEN s[k]
                                                      ELSE IF k = i THEN e ELSE s[k - 1]]
<1> DEFINE before == SubSeq(s, 1, i - 1)
           after == SubSeq(s, i, Len(s))
<1>1. before \in Seq(S) /\ Len(before) = i - 1 /\ \A k \in 1..i - 1 : before[k] = s[k]
  OBVIOUS
<1>2. /\ after \in Seq(S) /\ Len(after) = Len(s) - i + 1
      /\ \A k \in 1..Len(s) - i + 1 : after[k] = s[k + i - 1]
  OBVIOUS
<1> HIDE DEF before, after
<1>3. (before \o <<e>>) \in Seq(S) /\ Len(before \o <<e>>) = i
      /\ \A k \in 1..i : (before \o <<e>>)[k] = IF k < i THEN s[k] ELSE e
  BY <1>1
<1> DEFINE front == before \o <<e>>
           t == front \o after
<1> HIDE DEF front
<1>4. /\ t \in Seq(S) /\ Len(t) = Len(s) + 1
      /\ \A k \in 1..i : t[k] = front[k]
      /\ \A k \in 1..Len(s) + 1 : k > i => t[k] = after[k - i]
  <2>1. front \in Seq(S) /\ Len(front) = i
    BY <1>3 DEF front
  <2>2. t \in Seq(S) /\ Len(t) = Len(front) + Len(after)
    BY <1>2, <2>1
  <2>3. \A k \in 1..Len(front) + Len(after) :
          t[k] = IF k <= Len(front) THEN front[k] ELSE after[k - Len(front)]
    BY <1>2, <2>1
  <2> HIDE DEF t
  <2>4. QED
    BY <1>2, <2>1, <2>2, <2>3
<1>9. i \in Int /\ Len(s) \in Int
  OBVIOUS
<1> HIDE DEF t
<1>5. ASSUME NEW k \in 1..Len(s) + 1
      PROVE  t[k] = IF k < i THEN s[k] ELSE IF k = i THEN e ELSE s[k - 1]
  <2>1. CASE k <= i
    BY <1>3, <1>4, <2>1 DEF front
  <2>2. CASE k > i
    <3>1. t[k] = after[k - i] /\ k - i \in 1..Len(s) - i + 1
      BY <1>4, <2>2
    <3>2. after[k - i] = s[(k - i) + i - 1]
      BY <1>2, <3>1
    <3>3. (k - i) + i - 1 = k - 1
      OBVIOUS
    <3>4. QED
      BY <2>2, <3>1, <3>2, <3>3
  <2>3. QED
    BY <1>9, <2>1, <2>2
<1>6. t = [k \in 1..Len(s) + 1 |-> IF k < i THEN s[k] ELSE IF k = i THEN e ELSE s[k - 1]]
  <2>1. t = [k \in 1..Len(s) + 1 |-> t[k]]
    BY <1>4
  <2>2. QED
    BY <1>5, <2>1
<1>7. InsertAt(s, i, e) = t
  BY DEF InsertAt, t, front, before, after
<1>8. QED
  BY <1>6, <1>7

\* What a removal from a list leaves at each position.
LEMMA RemoveAtPositions ==
  ASSUME NEW S, NEW s \in Seq(S), NEW i \in 1..Len(s)
  PROVE  RemoveAt(s, i) = [k \in 1..Len(s) - 1 |-> IF k < i THEN s[k] ELSE s[k + 1]]
<1> DEFINE before == SubSeq(s, 1, i - 1)
           after == SubSeq(s, i + 1, Len(s))
<1>1. before \in Seq(S) /\ Len(before) = i - 1 /\ \A k \in 1..i - 1 : before[k] = s[k]
  OBVIOUS
<1>2. /\ after \in Seq(S) /\ Len(after) = Len(s) - i
      /\ \A k \in 1..Len(s) - i : after[k] = s[k + i]
  OBVIOUS
<1> HIDE DEF before, after
<1> DEFINE t == before \o after
<1>3. /\ t \in Seq(S) /\ Len(t) = Len(s) - 1
      /\ \A k \in 1..i - 1 : t[k] = before[k]
      /\ \A k \in 1..Len(s) - 1 : k >= i => t[k] = after[k - (i - 1)]
  <2>0. before \in Seq(S) /\ after \in Seq(S)
    BY <1>1, <1>2
  <2>1. t \in Seq(S) /\ Len(t) = Len(before) + Len(after)
    BY ONLY <2>0, ConcatProperties
  <2>2. \A k \in 1..Len(before) + Len(after) :
          t[k] = IF k <= Len(before) THEN before[k] ELSE after[k - Len(before)]
    BY ONLY <2>0, ConcatProperties
  <2> HIDE DEF t
  <2>3. \A k \in 1..i - 1 : t[k] = before[k]
    <3>1. \A k \in 1..i - 1 : k \in 1..Len(before) + Len(after) /\ k <= Len(before)
      BY <1>1, <1>2
    <3>2. QED
      BY <2>2, <3>1
  <2>4. \A k \in 1..Len(s) - 1 : k >= i => t[k] = after[k - (i - 1)]
    BY <1>1, <1>2, <2>2
  <2>5. QED
    BY <1>1, <1>2, <2>1, <2>3, <2>4
<1>8. i \in Int /\ Len(s) \in Int
  OBVIOUS
<1> HIDE DEF t
<1>4. ASSUME NEW k \in 1..Len(s) - 1
      PROVE  t[k] = IF k < i THEN s[k] ELSE s[k + 1]
  <2>1. CASE k < i
    BY <1>1, <1>3, <2>1
  <2>2. CASE k >= i
    <3>1. t[k] = after[k - (i - 1)] /\ k - (i - 1) \in 1..Len(s) - i
      BY <1>3, <2>2
    <3>2. after[k - (i - 1)] = s[(k - (i - 1)) + i]
      BY <1>2, <3>1
    <3>3. (k - (i - 1)) + i = k + 1
      OBVIOUS
    <3>4. QED
      BY <2>2, <3>1, <3>2, <3>3
  <2>3. QED
    BY <1>8, <2>1, <2>2
<1>5. t = [k \in 1..Len(s) - 1 |-> IF k < i THEN s[k] ELSE s[k + 1]]
  <2>1. t = [k \in 1..Len(s) - 1 |-> t[k]]
    BY <1>3
  <2>2. QED
    BY <1>4, <2>1
<1>6. RemoveAt(s, i) = t
  BY DEF RemoveAt, t, before, after
<1>7. QED
  BY <1>5, <1>6

IsInserted(list, s, S, i, e) ==
  /\ list \in Seq(S) /\ Len(list) = Len(s) + 1
  /\ \A k \in 1..Len(s) + 1 :
       list[k] = IF k < i THEN s[k] ELSE IF k = i THEN e ELSE s[k - 1]

LEMMA InsertAtItems ==
  ASSUME NEW S, NEW s \in Seq(S), NEW i \in 1..Len(s) + 1, NEW e \in S
  PROVE  IsInserted(InsertAt(s, i, e), s, S, i, e)
<1> DEFINE t == InsertAt(s, i, e)
<1>1. t = [k \in 1..Len(s) + 1 |-> IF k < i THEN s[k] ELSE IF k = i THEN e ELSE s[k - 1]]
  BY InsertAtPositions
<1> HIDE DEF t
<1>2. t \in Seq(S) /\ Len(t) = Len(s) + 1
  BY <1>1
<1>3. IsInserted(t, s, S, i, e)
  BY <1>1, <1>2 DEF IsInserted
<1>4. QED
  BY <1>3 DEF t

\* Inserted and removed, a list stays a list of the same things.
LEMMA InsertAtType ==
  ASSUME NEW S, NEW s \in Seq(S), NEW i \in 1..Len(s) + 1, NEW e \in S
  PROVE  /\ InsertAt(s, i, e) \in Seq(S)
         /\ Len(InsertAt(s, i, e)) = Len(s) + 1
         /\ Range(InsertAt(s, i, e)) = Range(s) \cup {e}
         /\ IsInjective(s) /\ e \notin Range(s) => IsInjective(InsertAt(s, i, e))
<1> DEFINE t == InsertAt(s, i, e)
<1>1. t = [k \in 1..Len(s) + 1 |-> IF k < i THEN s[k] ELSE IF k = i THEN e ELSE s[k - 1]]
  BY InsertAtPositions
<1> HIDE DEF t
<1>2. t \in Seq(S) /\ Len(t) = Len(s) + 1
  BY <1>1
<1>3. Range(t) \subseteq Range(s) \cup {e}
  BY <1>1 DEF Range
<1>4. Range(s) \cup {e} \subseteq Range(t)
  <2>1. e \in Range(t)
    BY <1>1 DEF Range
  <2>2. ASSUME NEW k \in 1..Len(s)
        PROVE  s[k] \in Range(t)
    <3>1. CASE k < i
      <4>1. t[k] = s[k] /\ k \in DOMAIN t
        BY <1>1, <3>1
      <4>2. QED
        BY <4>1 DEF Range
    <3>2. CASE ~(k < i)
      <4>1. t[k + 1] = s[k] /\ k + 1 \in DOMAIN t
        <5>1. k + 1 \in 1..Len(s) + 1 /\ ~(k + 1 < i) /\ k + 1 # i /\ (k + 1) - 1 = k
          BY <3>2
        <5>2. QED
          BY <1>1, <5>1
      <4>2. QED
        BY <4>1 DEF Range
    <3>3. QED
      BY <3>1, <3>2
  <2>3. QED
    BY <2>1, <2>2 DEF Range
<1>5. ASSUME IsInjective(s), e \notin Range(s)
      PROVE  IsInjective(t)
  <2> SUFFICES ASSUME NEW a \in 1..Len(s) + 1, NEW b \in 1..Len(s) + 1, a < b
               PROVE  t[a] # t[b]
    BY <1>1 DEF IsInjective
  <2>1. \A k, l \in 1..Len(s) : s[k] = s[l] => k = l
    BY <1>5 DEF IsInjective
  <2>2. \A k \in 1..Len(s) : s[k] # e
    BY <1>5 DEF Range
  <2>3. CASE b < i
    BY <1>1, <2>1, <2>3
  <2>4. CASE b = i
    <3>1. t[b] = e /\ t[a] = s[a] /\ a \in 1..Len(s)
      BY <1>1, <2>4
    <3>2. QED
      BY <2>2, <3>1
  <2>5. CASE b > i /\ a < i
    <3>1. t[b] = s[b - 1] /\ t[a] = s[a] /\ a \in 1..Len(s) /\ b - 1 \in 1..Len(s) /\ a # b - 1
      BY <1>1, <2>5
    <3>2. QED
      BY <2>1, <3>1
  <2>6. CASE b > i /\ a = i
    <3>1. t[b] = s[b - 1] /\ t[a] = e /\ b - 1 \in 1..Len(s)
      BY <1>1, <2>6
    <3>2. QED
      BY <2>2, <3>1
  <2>7. CASE b > i /\ a > i
    <3>1. t[b] = s[b - 1] /\ t[a] = s[a - 1] /\ a - 1 \in 1..Len(s) /\ b - 1 \in 1..Len(s)
          /\ a - 1 # b - 1
      BY <1>1, <2>7
    <3>2. QED
      BY <2>1, <3>1
  <2>8. QED
    BY <2>3, <2>4, <2>5, <2>6, <2>7
<1>6. QED
  BY <1>1, <1>2, <1>3, <1>4, <1>5 DEF t

LEMMA RemoveAtType ==
  ASSUME NEW S, NEW s \in Seq(S), NEW i \in 1..Len(s)
  PROVE  /\ RemoveAt(s, i) \in Seq(S)
         /\ Len(RemoveAt(s, i)) = Len(s) - 1
         /\ \A k \in 1..Len(s) - 1 : RemoveAt(s, i)[k] = IF k < i THEN s[k] ELSE s[k + 1]
         /\ Range(RemoveAt(s, i)) \subseteq Range(s)
         /\ Range(s) \subseteq Range(RemoveAt(s, i)) \cup {s[i]}
         /\ IsInjective(s) => IsInjective(RemoveAt(s, i)) /\ s[i] \notin Range(RemoveAt(s, i))
<1> DEFINE t == RemoveAt(s, i)
<1>1. t = [k \in 1..Len(s) - 1 |-> IF k < i THEN s[k] ELSE s[k + 1]]
  BY RemoveAtPositions
<1> HIDE DEF t
<1>2. t \in Seq(S) /\ Len(t) = Len(s) - 1
  BY <1>1
<1>3. Range(t) \subseteq Range(s)
  BY <1>1 DEF Range
<1>4. Range(s) \subseteq Range(t) \cup {s[i]}
  <2>1. ASSUME NEW k \in 1..Len(s)
        PROVE  s[k] \in Range(t) \cup {s[i]}
    <3>1. CASE k < i
      BY <1>1, <3>1 DEF Range
    <3>2. CASE k > i
      <4>1. t[k - 1] = s[k] /\ k - 1 \in DOMAIN t
        BY <1>1, <3>2
      <4>2. QED
        BY <4>1 DEF Range
    <3>3. QED
      BY <3>1, <3>2
  <2>2. QED
    BY <2>1 DEF Range
<1>5. ASSUME IsInjective(s)
      PROVE  IsInjective(t) /\ s[i] \notin Range(t)
  <2> DEFINE old(k) == IF k < i THEN k ELSE k + 1
  <2>1. \A k, l \in 1..Len(s) : s[k] = s[l] => k = l
    BY <1>5 DEF IsInjective
  <2>2. ASSUME NEW k \in 1..Len(s) - 1
        PROVE  t[k] = s[old(k)] /\ old(k) \in 1..Len(s) /\ old(k) # i
    BY <1>1
  <2>3. \A k, l \in 1..Len(s) - 1 : old(k) = old(l) => k = l
    OBVIOUS
  <2> HIDE DEF old
  <2>4. IsInjective(t)
    BY <1>1, <2>1, <2>2, <2>3 DEF IsInjective
  <2>5. s[i] \notin Range(t)
    BY <1>1, <2>1, <2>2 DEF Range
  <2>6. QED
    BY <2>4, <2>5
<1>6. QED
  BY <1>1, <1>2, <1>3, <1>4, <1>5 DEF t

-----------------------------------------------------------------------------
(* Hosts after a change of one node. *)

LEMMA NodeFacts ==
  ASSUME NEW h, Typed(h), NEW id \in DOMAIN h.nodes
  PROVE  /\ id \in NodeId
         /\ h.nodes[id] \in Node
         /\ Parent(h, id) \in NodeId \cup {Nobody}
         /\ Children(h, id) \in Seq(NodeId)
         /\ h.nodes[id].properties \in PropertySets
BY DEF Typed, Node, Parent, Children

\* A host with the nodes of another, but for one of them.
LEMMA ChangedNode ==
  ASSUME NEW h, Typed(h), NEW id \in DOMAIN h.nodes, NEW node \in Node
  PROVE  LET g == [h EXCEPT !.nodes = [h.nodes EXCEPT ![id] = node]]
         IN  /\ Typed(g)
             /\ DOMAIN g.nodes = DOMAIN h.nodes /\ g.root = h.root
             /\ g.nodes[id] = node
             /\ \A x \in DOMAIN h.nodes : x # id => g.nodes[x] = h.nodes[x]
<1> DEFINE nodes == [h.nodes EXCEPT ![id] = node]
           g == [h EXCEPT !.nodes = nodes]
<1>1. nodes \in [DOMAIN h.nodes -> Node] /\ DOMAIN nodes = DOMAIN h.nodes
  BY DEF Typed
<1>2. nodes[id] = node /\ \A x \in DOMAIN h.nodes : x # id => nodes[x] = h.nodes[x]
  BY DEF Typed
<1> HIDE DEF nodes
<1>3. g.nodes = nodes /\ g.root = h.root /\ g.revision = h.revision
      /\ g = [revision |-> g.revision, root |-> g.root, nodes |-> g.nodes]
  BY DEF Typed
<1>4. Typed(g)
  BY <1>1, <1>3 DEF Typed
<1>5. QED
  BY <1>1, <1>2, <1>3, <1>4 DEF nodes

LEMMA ChangedChildren ==
  ASSUME NEW h, Typed(h), NEW id \in DOMAIN h.nodes, NEW list \in Seq(NodeId)
  PROVE  LET g == [h EXCEPT !.nodes[id].children = list]
         IN  /\ Typed(g)
             /\ DOMAIN g.nodes = DOMAIN h.nodes /\ g.root = h.root
             /\ \A x \in DOMAIN h.nodes :
                  /\ Parent(g, x) = Parent(h, x)
                  /\ Children(g, x) = IF x = id THEN list ELSE Children(h, x)
                  /\ g.nodes[x].properties = h.nodes[x].properties
<1> DEFINE node == [h.nodes[id] EXCEPT !.children = list]
           g == [h EXCEPT !.nodes = [h.nodes EXCEPT ![id] = node]]
<1>1. h.nodes[id] \in Node
  BY NodeFacts
<1>2. /\ node \in Node /\ node.parent = h.nodes[id].parent /\ node.children = list
      /\ node.properties = h.nodes[id].properties
  BY <1>1 DEF Node
<1>3. [h EXCEPT !.nodes[id].children = list] = g
  BY DEF Typed
<1> HIDE DEF node
<1>4. /\ Typed(g) /\ DOMAIN g.nodes = DOMAIN h.nodes /\ g.root = h.root
      /\ g.nodes[id] = node
      /\ \A x \in DOMAIN h.nodes : x # id => g.nodes[x] = h.nodes[x]
  BY <1>2, ChangedNode
<1> HIDE DEF g
<1>5. QED
  BY <1>2, <1>3, <1>4 DEF Parent, Children

LEMMA ChangedParent ==
  ASSUME NEW h, Typed(h), NEW id \in DOMAIN h.nodes, NEW parent \in NodeId \cup {Nobody}
  PROVE  LET g == [h EXCEPT !.nodes[id].parent = parent]
         IN  /\ Typed(g)
             /\ DOMAIN g.nodes = DOMAIN h.nodes /\ g.root = h.root
             /\ \A x \in DOMAIN h.nodes :
                  /\ Parent(g, x) = IF x = id THEN parent ELSE Parent(h, x)
                  /\ Children(g, x) = Children(h, x)
                  /\ g.nodes[x].properties = h.nodes[x].properties
<1> DEFINE node == [h.nodes[id] EXCEPT !.parent = parent]
           g == [h EXCEPT !.nodes = [h.nodes EXCEPT ![id] = node]]
<1>1. h.nodes[id] \in Node
  BY NodeFacts
<1>2. /\ node \in Node /\ node.parent = parent /\ node.children = h.nodes[id].children
      /\ node.properties = h.nodes[id].properties
  BY <1>1 DEF Node
<1>3. [h EXCEPT !.nodes[id].parent = parent] = g
  BY DEF Typed
<1> HIDE DEF node
<1>4. /\ Typed(g) /\ DOMAIN g.nodes = DOMAIN h.nodes /\ g.root = h.root
      /\ g.nodes[id] = node
      /\ \A x \in DOMAIN h.nodes : x # id => g.nodes[x] = h.nodes[x]
  BY <1>2, ChangedNode
<1> HIDE DEF g
<1>5. QED
  BY <1>2, <1>3, <1>4 DEF Parent, Children

LEMMA ChangedProperties ==
  ASSUME NEW h, Typed(h), NEW id \in DOMAIN h.nodes, NEW properties \in PropertySets
  PROVE  LET g == [h EXCEPT !.nodes[id].properties = properties]
         IN  /\ Typed(g)
             /\ DOMAIN g.nodes = DOMAIN h.nodes /\ g.root = h.root
             /\ \A x \in DOMAIN h.nodes :
                  /\ Parent(g, x) = Parent(h, x)
                  /\ Children(g, x) = Children(h, x)
                  /\ g.nodes[x].properties = IF x = id THEN properties ELSE h.nodes[x].properties
<1> DEFINE node == [h.nodes[id] EXCEPT !.properties = properties]
           g == [h EXCEPT !.nodes = [h.nodes EXCEPT ![id] = node]]
<1>1. h.nodes[id] \in Node
  BY NodeFacts
<1>2. /\ node \in Node /\ node.parent = h.nodes[id].parent
      /\ node.children = h.nodes[id].children /\ node.properties = properties
  BY <1>1 DEF Node
<1>3. [h EXCEPT !.nodes[id].properties = properties] = g
  BY DEF Typed
<1> HIDE DEF node
<1>4. /\ Typed(g) /\ DOMAIN g.nodes = DOMAIN h.nodes /\ g.root = h.root
      /\ g.nodes[id] = node
      /\ \A x \in DOMAIN h.nodes : x # id => g.nodes[x] = h.nodes[x]
  BY <1>2, ChangedNode
<1> HIDE DEF g
<1>5. QED
  BY <1>2, <1>3, <1>4 DEF Parent, Children

-----------------------------------------------------------------------------
(* Forests stay forests. *)

LEMMA NobodyIsNoNode ==
  ASSUME NEW h, Typed(h)
  PROVE  Nobody \notin DOMAIN h.nodes
BY IdentityAssumption DEF Typed, Nobody

\* The same nodes below one another, in any order.
LEMMA ReorderedForest ==
  ASSUME NEW h, NEW g, Forest(h),
         DOMAIN g.nodes = DOMAIN h.nodes, g.root = h.root,
         \A x \in DOMAIN h.nodes :
           /\ Parent(g, x) = Parent(h, x)
           /\ Range(Children(g, x)) = Range(Children(h, x))
           /\ IsInjective(Children(g, x))
  PROVE  Forest(g)
<1>1. Rooted(g)
  BY DEF Forest, Rooted, Live
<1>2. ParentsList(g)
  BY DEF Forest, ParentsList, Live
<1>3. ListedByParent(g)
  BY DEF Forest, ListedByParent, Live
<1>4. Acyclic(g)
  BY DEF Forest, Acyclic
<1>5. QED
  BY <1>1, <1>2, <1>3, <1>4 DEF Forest

\* A loose node put below one that it is not above.  Nodes that form a cycle afterwards
\* include that parent; those of them that are above the parent formed one before.
LEMMA AttachedForest ==
  ASSUME NEW h, NEW g, Typed(h), Forest(h), NEW p \in DOMAIN h.nodes, NEW c \in DOMAIN h.nodes,
         Parent(h, c) = Nobody, h.root # c, ~HasAncestor(h, p, c),
         DOMAIN g.nodes = DOMAIN h.nodes, g.root = h.root,
         \A x \in DOMAIN h.nodes :
           /\ Parent(g, x) = IF x = c THEN p ELSE Parent(h, x)
           /\ Range(Children(g, x)) =
                IF x = p THEN Range(Children(h, x)) \cup {c} ELSE Range(Children(h, x))
           /\ IsInjective(Children(g, x))
  PROVE  Forest(g)
<1>0. Nobody \notin DOMAIN h.nodes
  BY NobodyIsNoNode
<1>1. Rooted(g)
  BY DEF Forest, Rooted, Live
<1>2. ParentsList(g)
  BY DEF Forest, ParentsList, Live
<1>3. ListedByParent(g)
  <2> SUFFICES ASSUME NEW x \in DOMAIN h.nodes, NEW y \in Range(Children(g, x))
               PROVE  y \in DOMAIN h.nodes /\ Parent(g, y) = x
    BY DEF ListedByParent, Live
  <2>1. CASE x = p /\ y = c
    BY <2>1
  <2>2. CASE ~(x = p /\ y = c)
    <3>1. y \in Range(Children(h, x))
      BY <2>2
    <3>2. y \in DOMAIN h.nodes /\ Parent(h, y) = x
      BY <3>1 DEF Forest, ListedByParent, Live
    <3>3. y # c
      BY <1>0, <3>2
    <3>4. QED
      BY <3>2, <3>3
  <2>3. QED
    BY <2>1, <2>2
<1>4. Acyclic(g)
  <2> SUFFICES ASSUME NEW ids \in SUBSET DOMAIN h.nodes, ids # {},
                      \A x \in ids : Parent(g, x) \in ids
               PROVE  FALSE
    BY DEF Acyclic
  <2>1. PICK above \in SUBSET (DOMAIN h.nodes \cup {p}) :
          p \in above /\ HasParents(h, above) /\ c \notin above
    BY DEF HasAncestor
  <2>2. CASE c \notin ids
    <3>1. \A x \in ids : Parent(h, x) \in ids
      BY <2>2
    <3>2. QED
      BY <3>1 DEF Forest, Acyclic
  <2>3. CASE c \in ids
    <3>1. p \in ids \cap above
      BY <2>1, <2>3
    <3>2. \A x \in ids \cap above : Parent(h, x) \in ids \cap above
      <4> SUFFICES ASSUME NEW x \in ids \cap above
                   PROVE  Parent(h, x) \in ids \cap above
        OBVIOUS
      <4>1. Parent(h, x) \in ids
        BY <2>1
      <4>2. Parent(h, x) # Nobody
        BY <1>0, <4>1
      <4>3. QED
        BY <2>1, <4>1, <4>2 DEF HasParents, Live
    <3>3. QED
      BY <3>1, <3>2 DEF Forest, Acyclic
  <2>4. QED
    BY <2>2, <2>3
<1>5. QED
  BY <1>1, <1>2, <1>3, <1>4 DEF Forest

\* A child taken off its parent's list.
LEMMA DetachedForest ==
  ASSUME NEW h, NEW g, Typed(h), Forest(h), NEW p \in DOMAIN h.nodes, NEW c \in DOMAIN h.nodes,
         Parent(h, c) = p,
         DOMAIN g.nodes = DOMAIN h.nodes, g.root = h.root,
         \A x \in DOMAIN h.nodes :
           /\ Parent(g, x) = IF x = c THEN Nobody ELSE Parent(h, x)
           /\ Range(Children(g, x)) =
                IF x = p THEN Range(Children(h, x)) \ {c} ELSE Range(Children(h, x))
           /\ IsInjective(Children(g, x))
  PROVE  Forest(g)
<1>0. Nobody \notin DOMAIN h.nodes
  BY NobodyIsNoNode
<1>1. Rooted(g)
  BY DEF Forest, Rooted, Live
<1>2. ParentsList(g)
  BY DEF Forest, ParentsList, Live
<1>3. ListedByParent(g)
  BY DEF Forest, ListedByParent, Live
<1>4. Acyclic(g)
  <2> SUFFICES ASSUME NEW ids \in SUBSET DOMAIN h.nodes, ids # {},
                      \A x \in ids : Parent(g, x) \in ids
               PROVE  FALSE
    BY DEF Acyclic
  <2>1. \A x \in ids : Parent(h, x) \in ids
    BY <1>0
  <2>2. QED
    BY <2>1 DEF Forest, Acyclic
<1>5. QED
  BY <1>1, <1>2, <1>3, <1>4 DEF Forest

\* One more node, attached nowhere.
LEMMA GrownForest ==
  ASSUME NEW h, NEW g, Typed(h), Forest(h), NEW id, id \notin DOMAIN h.nodes, id # Nobody,
         DOMAIN g.nodes = DOMAIN h.nodes \cup {id},
         g.root = IF DOMAIN h.nodes = {} THEN id ELSE h.root,
         Parent(g, id) = Nobody, Children(g, id) = <<>>,
         \A x \in DOMAIN h.nodes : Parent(g, x) = Parent(h, x) /\ Children(g, x) = Children(h, x)
  PROVE  Forest(g)
<1>0. Nobody \notin DOMAIN h.nodes
  BY NobodyIsNoNode
<1>1. Rooted(g)
  BY DEF Forest, Rooted, Live
<1>2. ParentsList(g)
  BY DEF Forest, ParentsList, Live
<1>3. ListedByParent(g)
  BY DEF Forest, ListedByParent, Live, Range, IsInjective
<1>4. Acyclic(g)
  <2> SUFFICES ASSUME NEW ids \in SUBSET (DOMAIN h.nodes \cup {id}), ids # {},
                      \A x \in ids : Parent(g, x) \in ids
               PROVE  FALSE
    BY DEF Acyclic
  <2>1. id \notin ids
    BY <1>0
  <2>2. \A x \in ids : Parent(h, x) \in ids
    BY <2>1
  <2>3. QED
    BY <2>1, <2>2 DEF Forest, Acyclic
<1>5. QED
  BY <1>1, <1>2, <1>3, <1>4 DEF Forest

\* One node less, which is attached nowhere and has no children.
LEMMA ShrunkForest ==
  ASSUME NEW h, NEW g, Typed(h), Forest(h), NEW id \in DOMAIN h.nodes,
         h.root # id, Parent(h, id) = Nobody, Children(h, id) = <<>>,
         DOMAIN g.nodes = DOMAIN h.nodes \ {id}, g.root = h.root,
         \A x \in DOMAIN h.nodes \ {id} :
           Parent(g, x) = Parent(h, x) /\ Children(g, x) = Children(h, x)
  PROVE  Forest(g)
<1>0. Nobody \notin DOMAIN h.nodes
  BY NobodyIsNoNode
<1>1. Rooted(g)
  BY DEF Forest, Rooted, Live
<1>2. ParentsList(g)
  BY DEF Forest, ParentsList, Live, Range
<1>3. ListedByParent(g)
  BY <1>0 DEF Forest, ListedByParent, Live
<1>4. Acyclic(g)
  BY DEF Forest, Acyclic
<1>5. QED
  BY <1>1, <1>2, <1>3, <1>4 DEF Forest

-----------------------------------------------------------------------------
(* What each mutation keeps. *)

\* A host again, the same one after an error.
Kept(h, r) ==
  /\ r = [host |-> r.host, error |-> r.error]
  /\ Typed(r.host) /\ Forest(r.host)
  /\ r.error \in Errors
  /\ r.error # "none" => r.host = h

LEMMA RejectedKept ==
  ASSUME NEW h, Typed(h), Forest(h), NEW error \in Errors
  PROVE  Kept(h, Rejected(h, error))
BY DEF Kept, Rejected

LEMMA DoneKept ==
  ASSUME NEW h, NEW g, Typed(g), Forest(g)
  PROVE  Kept(h, Done(g))
BY DEF Kept, Done, Errors

LEMMA CreateKept ==
  ASSUME NEW h, Typed(h), Forest(h), NEW m \in Mutation, m.op = "Create"
  PROVE  Kept(h, HostCreate(h, m))
<1> DEFINE id == m.node_id
           new == HostNode(m.kind, <<>>, Nobody, <<>>)
           nodes == [x \in DOMAIN h.nodes \cup {id} |-> IF x = id THEN new ELSE h.nodes[x]]
           root == IF DOMAIN h.nodes = {} THEN id ELSE h.root
           g == [h EXCEPT !.root = root, !.nodes = nodes]
<1>1. id \in NodeId /\ m.kind \in Kind
  BY DEF Mutation
<1>2. CASE id \in DOMAIN h.nodes
  BY <1>2, RejectedKept DEF HostCreate, Live, Errors
<1>3. CASE id \notin DOMAIN h.nodes
  <2>1. HostCreate(h, m) = Done(g)
    <3>1. h.root = h.root /\ [h EXCEPT !.root = IF DOMAIN h.nodes = {} THEN id ELSE @] =
            [h EXCEPT !.root = root]
      OBVIOUS
    <3>2. QED
      BY <1>3, <3>1 DEF HostCreate, Live
  <2>2. <<>> \in PropertySets
    <3>1. <<>> \in [{} -> Value]
      OBVIOUS
    <3>2. QED
      BY <3>1 DEF PropertySets
  <2>3. new \in Node /\ new.parent = Nobody /\ new.children = <<>>
    BY <1>1, <2>2 DEF HostNode, Node
  <2> HIDE DEF new
  <2>4. /\ nodes \in [DOMAIN h.nodes \cup {id} -> Node]
        /\ DOMAIN nodes = DOMAIN h.nodes \cup {id}
        /\ nodes[id] = new
        /\ \A x \in DOMAIN h.nodes : nodes[x] = h.nodes[x]
    BY <1>3, <2>3 DEF Typed
  <2>6. root \in DOMAIN nodes \cup {Nobody}
    BY <2>4 DEF Typed
  <2> HIDE DEF nodes, root
  <2>5. /\ g.nodes = nodes /\ g.root = root /\ g.revision = h.revision
        /\ g = [revision |-> g.revision, root |-> g.root, nodes |-> g.nodes]
    <3>1. h \in [revision : {h.revision}, root : {h.root}, nodes : {h.nodes}]
      BY DEF Typed
    <3>2. g \in [revision : {h.revision}, root : {root}, nodes : {nodes}]
      BY <3>1
    <3> HIDE DEF g
    <3>3. QED
      BY <3>2
  <2> HIDE DEF g
  <2>7. Typed(g)
    BY <1>1, <2>4, <2>5, <2>6 DEF Typed
  <2>8. Forest(g)
    <3>1. id # Nobody
      BY <1>1, IdentityAssumption DEF Nobody
    <3>2. /\ Parent(g, id) = Nobody /\ Children(g, id) = <<>>
          /\ \A x \in DOMAIN h.nodes : Parent(g, x) = Parent(h, x) /\ Children(g, x) = Children(h, x)
      BY <2>3, <2>4, <2>5 DEF Parent, Children
    <3>3. QED
      BY <1>3, <2>4, <2>5, <3>1, <3>2, GrownForest DEF root
  <2>9. QED
    BY <2>1, <2>7, <2>8, DoneKept
<1>4. QED
  BY <1>2, <1>3

\* An update of properties gives properties.
LEMMA UpdatedType ==
  ASSUME NEW old \in PropertySets, NEW set \in PropertySets, NEW remove
  PROVE  Updated(old, set, remove) \in PropertySets
<1>1. PICK ids \in SUBSET PropertyId : old \in [ids -> Value]
  BY DEF PropertySets
<1>2. PICK more \in SUBSET PropertyId : set \in [more -> Value]
  BY DEF PropertySets
<1>3. Updated(old, set, remove) \in [(ids \ remove) \cup more -> Value]
  BY <1>1, <1>2 DEF Updated
<1>4. (ids \ remove) \cup more \in SUBSET PropertyId
  OBVIOUS
<1>5. QED
  BY <1>3, <1>4 DEF PropertySets

LEMMA UpdateKept ==
  ASSUME NEW h, Typed(h), Forest(h), NEW m \in Mutation, m.op = "UpdateProperties"
  PROVE  Kept(h, HostUpdateProperties(h, m))
<1> DEFINE id == m.node_id
           new == Updated(h.nodes[id].properties, m.set, m.remove)
           g == [h EXCEPT !.nodes[id].properties = new]
<1>1. id \in NodeId /\ m.set \in PropertySets
  BY DEF Mutation
<1>2. CASE id \notin DOMAIN h.nodes
  BY <1>2, RejectedKept DEF HostUpdateProperties, Live, Errors
<1>3. CASE id \in DOMAIN h.nodes /\ ~(m.remove \subseteq DOMAIN h.nodes[id].properties)
  BY <1>3, RejectedKept DEF HostUpdateProperties, Live, Errors
<1>4. CASE id \in DOMAIN h.nodes /\ m.remove \subseteq DOMAIN h.nodes[id].properties
  <2>1. HostUpdateProperties(h, m) = Done(g)
    BY <1>4 DEF HostUpdateProperties, Live
  <2>2. new \in PropertySets
    BY <1>1, <1>4, NodeFacts, UpdatedType
  <2> HIDE DEF new
  <2>3. /\ Typed(g) /\ DOMAIN g.nodes = DOMAIN h.nodes /\ g.root = h.root
        /\ \A x \in DOMAIN h.nodes : Parent(g, x) = Parent(h, x) /\ Children(g, x) = Children(h, x)
    BY <1>4, <2>2, ChangedProperties
  <2> HIDE DEF g
  <2>4. Forest(g)
    <3>1. \A x \in DOMAIN h.nodes : IsInjective(Children(g, x))
      BY <2>3 DEF Forest, ListedByParent
    <3>2. QED
      BY <2>3, <3>1, ReorderedForest
  <2>5. QED
    BY <2>1, <2>3, <2>4, DoneKept
<1>5. QED
  BY <1>2, <1>3, <1>4

LEMMA InsertKept ==
  ASSUME NEW h, Typed(h), Forest(h), NEW m \in Mutation, m.op = "InsertChild"
  PROVE  Kept(h, HostInsertChild(h, m))
<1> DEFINE p == m.parent_id
           c == m.child_id
           list == InsertAt(Children(h, p), m.index + 1, c)
           listed == [h EXCEPT !.nodes[p].children = list]
           g == [listed EXCEPT !.nodes[c].parent = p]
<1>1. p \in NodeId /\ c \in NodeId /\ m.index \in Nat
  BY IndexAssumption DEF Mutation
<1>2. CASE c \notin DOMAIN h.nodes
  BY <1>2, RejectedKept DEF HostInsertChild, Live, Errors
<1>3. CASE c \in DOMAIN h.nodes /\ ~MayBeInserted(h, m)
  BY <1>3, RejectedKept DEF HostInsertChild, Live, Errors
<1>4. CASE c \in DOMAIN h.nodes /\ MayBeInserted(h, m) /\ p \notin DOMAIN h.nodes
  BY <1>4, RejectedKept DEF HostInsertChild, Live, Errors
<1>5. CASE /\ c \in DOMAIN h.nodes /\ MayBeInserted(h, m) /\ p \in DOMAIN h.nodes
           /\ m.index > Len(Children(h, p))
  BY <1>5, RejectedKept DEF HostInsertChild, Live, Errors
<1>6. CASE /\ c \in DOMAIN h.nodes /\ MayBeInserted(h, m) /\ p \in DOMAIN h.nodes
           /\ ~(m.index > Len(Children(h, p)))
  <2>1. HostInsertChild(h, m) = Done(g)
    BY <1>6 DEF HostInsertChild, Live, Children
  <2>2. Children(h, p) \in Seq(NodeId) /\ m.index + 1 \in 1..Len(Children(h, p)) + 1
    BY <1>1, <1>6, NodeFacts
  <2>3. IsInjective(Children(h, p)) /\ c \notin Range(Children(h, p))
    <3>1. Parent(h, c) = Nobody
      BY <1>6 DEF MayBeInserted
    <3>2. Nobody \notin DOMAIN h.nodes
      BY NobodyIsNoNode
    <3>3. QED
      BY <1>6, <3>1, <3>2 DEF Forest, ListedByParent
  <2>4. /\ list \in Seq(NodeId) /\ IsInjective(list)
        /\ Range(list) = Range(Children(h, p)) \cup {c}
    BY <1>1, <2>2, <2>3, InsertAtType
  <2> HIDE DEF list
  <2>5. /\ Typed(listed) /\ DOMAIN listed.nodes = DOMAIN h.nodes /\ listed.root = h.root
        /\ \A x \in DOMAIN h.nodes :
             /\ Parent(listed, x) = Parent(h, x)
             /\ Children(listed, x) = IF x = p THEN list ELSE Children(h, x)
    <3>1. p \in DOMAIN h.nodes /\ list \in Seq(NodeId)
      BY <1>6, <2>4
    <3> HIDE DEF p
    <3>2. QED
      BY <3>1, ChangedChildren
  <2> HIDE DEF listed
  <2>6. /\ Typed(g) /\ DOMAIN g.nodes = DOMAIN h.nodes /\ g.root = h.root
        /\ \A x \in DOMAIN h.nodes :
             /\ Parent(g, x) = IF x = c THEN p ELSE Parent(h, x)
             /\ Children(g, x) = IF x = p THEN list ELSE Children(h, x)
    <3>1. /\ Typed(g) /\ DOMAIN g.nodes = DOMAIN listed.nodes /\ g.root = listed.root
          /\ \A x \in DOMAIN listed.nodes :
               /\ Parent(g, x) = IF x = c THEN p ELSE Parent(listed, x)
               /\ Children(g, x) = Children(listed, x)
      <4>1. Typed(listed) /\ c \in DOMAIN listed.nodes /\ p \in NodeId \cup {Nobody}
        BY <1>1, <1>6, <2>5
      <4> HIDE DEF p, c
      <4>2. QED
        BY <4>1, ChangedParent
    <3> HIDE DEF g
    <3>2. QED
      BY <2>5, <3>1
  <2> HIDE DEF g
  <2>7. Forest(g)
    <3>1. \A x \in DOMAIN h.nodes :
            /\ IsInjective(Children(g, x))
            /\ Range(Children(g, x)) =
                 IF x = p THEN Range(Children(h, x)) \cup {c} ELSE Range(Children(h, x))
      BY <2>4, <2>6 DEF Forest, ListedByParent
    <3>2. Parent(h, c) = Nobody /\ h.root # c /\ ~HasAncestor(h, p, c)
      BY <1>6 DEF MayBeInserted
    <3>3. QED
      BY <1>6, <2>6, <3>1, <3>2, AttachedForest
  <2>8. QED
    BY <2>1, <2>6, <2>7, DoneKept
<1>7. QED
  BY <1>2, <1>3, <1>4, <1>5, <1>6

LEMMA MoveKept ==
  ASSUME NEW h, Typed(h), Forest(h), NEW m \in Mutation, m.op = "MoveChild"
  PROVE  Kept(h, HostMoveChild(h, m))
<1> DEFINE p == m.parent_id
           old == Children(h, p)
           list == InsertAt(RemoveAt(old, m.from + 1), m.to + 1, m.child_id)
           g == [h EXCEPT !.nodes[p].children = list]
           allowed == ChildAt(h, p, m.from, m.child_id) /\ m.to < Len(old)
<1>1. p \in NodeId /\ m.child_id \in NodeId /\ m.from \in Nat /\ m.to \in Nat
  BY IndexAssumption DEF Mutation
<1>2. CASE p \notin DOMAIN h.nodes
  BY <1>2, RejectedKept DEF HostMoveChild, Live, Errors
<1>3. CASE p \in DOMAIN h.nodes /\ ~allowed
  <2>1. old \in Seq(NodeId)
    BY <1>3, NodeFacts
  <2>2. ~ChildAt(h, p, m.from, m.child_id) \/ m.to >= Len(old)
    BY <1>1, <1>3, <2>1
  <2>3. HostMoveChild(h, m) = Rejected(h, "InvalidChildRelation")
    BY <1>3, <2>2 DEF HostMoveChild, Live
  <2>4. QED
    BY <2>3, RejectedKept DEF Errors
<1>4. CASE p \in DOMAIN h.nodes /\ allowed
  <2>1. old \in Seq(NodeId) /\ IsInjective(old)
    BY <1>4, NodeFacts DEF Forest, ListedByParent
  <2>2. m.from + 1 \in 1..Len(old) /\ old[m.from + 1] = m.child_id /\ m.to + 1 \in 1..Len(old)
    BY <1>1, <1>4, <2>1 DEF ChildAt
  <2>3. HostMoveChild(h, m) = Done(g)
    <3>1. ~(~ChildAt(h, p, m.from, m.child_id) \/ m.to >= Len(old))
      BY <1>1, <1>4, <2>1
    <3>2. QED
      BY <1>4, <3>1 DEF HostMoveChild, Live, Children
  <2> DEFINE rest == RemoveAt(old, m.from + 1)
  <2>4. /\ rest \in Seq(NodeId) /\ Len(rest) = Len(old) - 1 /\ IsInjective(rest)
        /\ m.child_id \notin Range(rest)
        /\ Range(rest) \subseteq Range(old) /\ Range(old) \subseteq Range(rest) \cup {m.child_id}
    BY <2>1, <2>2, RemoveAtType
  <2>5. list = InsertAt(rest, m.to + 1, m.child_id) /\ m.to + 1 \in 1..Len(rest) + 1
    BY <2>1, <2>2, <2>4
  <2> HIDE DEF rest, list
  <2>6. /\ list \in Seq(NodeId) /\ IsInjective(list)
        /\ Range(list) = Range(rest) \cup {m.child_id}
    BY <1>1, <2>4, <2>5, InsertAtType
  <2>7. Range(list) = Range(old)
    <3>1. m.child_id \in Range(old)
      BY <2>1, <2>2 DEF Range
    <3>2. QED
      BY <2>4, <2>6, <3>1
  <2>8. /\ Typed(g) /\ DOMAIN g.nodes = DOMAIN h.nodes /\ g.root = h.root
        /\ \A x \in DOMAIN h.nodes :
             /\ Parent(g, x) = Parent(h, x)
             /\ Children(g, x) = IF x = p THEN list ELSE Children(h, x)
    BY <1>4, <2>6, ChangedChildren
  <2> HIDE DEF g
  <2>9. Forest(g)
    <3>1. \A x \in DOMAIN h.nodes :
            IsInjective(Children(g, x)) /\ Range(Children(g, x)) = Range(Children(h, x))
      BY <2>6, <2>7, <2>8 DEF Forest, ListedByParent
    <3>2. QED
      BY <2>8, <3>1, ReorderedForest
  <2>10. QED
    BY <2>3, <2>8, <2>9, DoneKept
<1>5. QED
  BY <1>2, <1>3, <1>4

LEMMA RemoveKept ==
  ASSUME NEW h, Typed(h), Forest(h), NEW m \in Mutation, m.op = "RemoveChild"
  PROVE  Kept(h, HostRemoveChild(h, m))
<1> DEFINE p == m.parent_id
           c == m.child_id
           old == Children(h, p)
           list == RemoveAt(old, m.index + 1)
           unlisted == [h EXCEPT !.nodes[p].children = list]
           g == [unlisted EXCEPT !.nodes[c].parent = Nobody]
<1>1. p \in NodeId /\ c \in NodeId /\ m.index \in Nat
  BY IndexAssumption DEF Mutation
<1>2. CASE p \notin DOMAIN h.nodes
  BY <1>2, RejectedKept DEF HostRemoveChild, Live, Errors
<1>3. CASE p \in DOMAIN h.nodes /\ ~ChildAt(h, p, m.index, c)
  BY <1>3, RejectedKept DEF HostRemoveChild, Live, Errors
<1>4. CASE p \in DOMAIN h.nodes /\ ChildAt(h, p, m.index, c)
  <2>1. old \in Seq(NodeId) /\ IsInjective(old)
    BY <1>4, NodeFacts DEF Forest, ListedByParent
  <2>2. m.index + 1 \in 1..Len(old) /\ old[m.index + 1] = c
    BY <1>1, <1>4, <2>1 DEF ChildAt
  \* The two checks after the removal from the list.
  <2>3. c \in DOMAIN h.nodes /\ Parent(h, c) = p
    <3>1. c \in Range(old)
      BY <2>1, <2>2 DEF Range
    <3>2. QED
      BY <1>4, <3>1 DEF Forest, ListedByParent, Live
  <2>4. HostRemoveChild(h, m) = Done(g)
    BY <1>4, <2>3 DEF HostRemoveChild, Live, Children
  <2>5. /\ list \in Seq(NodeId) /\ IsInjective(list)
        /\ Range(list) = Range(old) \ {c}
    <3>1. /\ list \in Seq(NodeId) /\ IsInjective(list)
          /\ Range(list) \subseteq Range(old) /\ Range(old) \subseteq Range(list) \cup {c}
          /\ c \notin Range(list)
      BY <2>1, <2>2, RemoveAtType
    <3>2. QED
      BY <3>1
  <2> HIDE DEF list
  <2>6. /\ Typed(unlisted) /\ DOMAIN unlisted.nodes = DOMAIN h.nodes /\ unlisted.root = h.root
        /\ \A x \in DOMAIN h.nodes :
             /\ Parent(unlisted, x) = Parent(h, x)
             /\ Children(unlisted, x) = IF x = p THEN list ELSE Children(h, x)
    <3>1. p \in DOMAIN h.nodes /\ list \in Seq(NodeId)
      BY <1>4, <2>5
    <3> HIDE DEF p
    <3>2. QED
      BY <3>1, ChangedChildren
  <2> HIDE DEF unlisted
  <2>7. /\ Typed(g) /\ DOMAIN g.nodes = DOMAIN h.nodes /\ g.root = h.root
        /\ \A x \in DOMAIN h.nodes :
             /\ Parent(g, x) = IF x = c THEN Nobody ELSE Parent(h, x)
             /\ Children(g, x) = IF x = p THEN list ELSE Children(h, x)
    <3>1. /\ Typed(g) /\ DOMAIN g.nodes = DOMAIN unlisted.nodes /\ g.root = unlisted.root
          /\ \A x \in DOMAIN unlisted.nodes :
               /\ Parent(g, x) = IF x = c THEN Nobody ELSE Parent(unlisted, x)
               /\ Children(g, x) = Children(unlisted, x)
      <4>1. Typed(unlisted) /\ c \in DOMAIN unlisted.nodes /\ Nobody \in NodeId \cup {Nobody}
        BY <2>3, <2>6
      <4> HIDE DEF p, c
      <4>2. QED
        BY <4>1, ChangedParent
    <3> HIDE DEF g
    <3>2. QED
      BY <2>6, <3>1
  <2> HIDE DEF g
  <2>8. Forest(g)
    <3>1. \A x \in DOMAIN h.nodes :
            /\ IsInjective(Children(g, x))
            /\ Range(Children(g, x)) =
                 IF x = p THEN Range(Children(h, x)) \ {c} ELSE Range(Children(h, x))
      BY <2>5, <2>7 DEF Forest, ListedByParent
    <3>2. QED
      BY <1>4, <2>3, <2>7, <3>1, DetachedForest
  <2>9. QED
    BY <2>4, <2>7, <2>8, DoneKept
<1>5. QED
  BY <1>2, <1>3, <1>4

LEMMA DeleteKept ==
  ASSUME NEW h, Typed(h), Forest(h), NEW m \in Mutation, m.op = "Delete"
  PROVE  Kept(h, HostDelete(h, m))
<1> DEFINE id == m.node_id
           nodes == [x \in DOMAIN h.nodes \ {id} |-> h.nodes[x]]
           g == [h EXCEPT !.nodes = nodes]
<1>2. CASE id \notin DOMAIN h.nodes
  BY <1>2, RejectedKept DEF HostDelete, Live, Errors
<1>3. CASE id \in DOMAIN h.nodes /\ ~Deletable(h, id)
  BY <1>3, RejectedKept DEF HostDelete, Live, Errors
<1>4. CASE id \in DOMAIN h.nodes /\ Deletable(h, id)
  <2>1. HostDelete(h, m) = Done(g)
    BY <1>4 DEF HostDelete, Live
  <2>2. /\ nodes \in [DOMAIN h.nodes \ {id} -> Node] /\ DOMAIN nodes = DOMAIN h.nodes \ {id}
        /\ \A x \in DOMAIN h.nodes \ {id} : nodes[x] = h.nodes[x]
    BY DEF Typed
  <2> HIDE DEF nodes
  <2>3. /\ g.nodes = nodes /\ g.root = h.root /\ g.revision = h.revision
        /\ g = [revision |-> g.revision, root |-> g.root, nodes |-> g.nodes]
    BY DEF Typed
  <2> HIDE DEF g
  <2>4. Typed(g)
    BY <1>4, <2>2, <2>3 DEF Typed, Deletable
  <2>5. Forest(g)
    <3>1. \A x \in DOMAIN h.nodes \ {id} :
            Parent(g, x) = Parent(h, x) /\ Children(g, x) = Children(h, x)
      BY <2>2, <2>3 DEF Parent, Children
    <3>2. QED
      BY <1>4, <2>2, <2>3, <3>1, ShrunkForest DEF Deletable
  <2>6. QED
    BY <2>1, <2>4, <2>5, DoneKept
<1>5. QED
  BY <1>2, <1>3, <1>4

\* Any mutation of any host that is a forest.
LEMMA MutationKept ==
  ASSUME NEW h, Typed(h), Forest(h), NEW m \in Mutation
  PROVE  Kept(h, ApplyMutation(h, m))
<1>1. CASE m.op = "Create"
  BY <1>1, CreateKept DEF ApplyMutation
<1>2. CASE m.op = "UpdateProperties"
  BY <1>2, UpdateKept DEF ApplyMutation
<1>3. CASE m.op = "InsertChild"
  BY <1>3, InsertKept DEF ApplyMutation
<1>4. CASE m.op = "MoveChild"
  BY <1>4, MoveKept DEF ApplyMutation
<1>5. CASE m.op = "RemoveChild"
  BY <1>5, RemoveKept DEF ApplyMutation
<1>6. CASE m.op = "Delete"
  BY <1>6, DeleteKept DEF ApplyMutation
<1>7. m.op \in {"Create", "UpdateProperties", "InsertChild", "MoveChild", "RemoveChild", "Delete"}
  BY DEF Mutation
<1>8. QED
  BY <1>1, <1>2, <1>3, <1>4, <1>5, <1>6, <1>7

-----------------------------------------------------------------------------
(* validate_graph. *)

\* In a forest, the walk down from the root reaches all nodes if none is loose: of those
\* that it misses, one would have a parent that it reaches.
LEMMA GraphCheck ==
  ASSUME NEW h, Typed(h), Forest(h)
  PROVE  ValidGraph(h) <=> Loose(h) = {}
<1>0. Nobody \notin DOMAIN h.nodes
  BY NobodyIsNoNode
<1>1. CASE h.root = Nobody
  BY <1>1 DEF ValidGraph, Loose, Forest, Rooted
<1>2. CASE h.root # Nobody
  <2>1. Live(h, h.root) /\ Parent(h, h.root) = Nobody
    BY <1>2 DEF Forest, Rooted
  <2>2. ASSUME Loose(h) = {}
        PROVE  ValidGraph(h)
    <3>1. ASSUME NEW ids \in SUBSET DOMAIN h.nodes, h.root \in ids, HasChildren(h, ids)
          PROVE  ids = DOMAIN h.nodes
      <4> SUFFICES ASSUME DOMAIN h.nodes \ ids # {} PROVE FALSE
        OBVIOUS
      <4>1. PICK x \in DOMAIN h.nodes \ ids : Parent(h, x) \notin DOMAIN h.nodes \ ids
        BY DEF Forest, Acyclic
      <4>2. Parent(h, x) # Nobody
        BY <2>2, <3>1 DEF Loose
      <4>3. Parent(h, x) \in ids /\ x \in Range(Children(h, Parent(h, x)))
        BY <4>1, <4>2 DEF Forest, ParentsList, Live
      <4>4. QED
        BY <3>1, <4>3 DEF HasChildren, Range
    <3>2. ASSUME NEW id \in DOMAIN h.nodes
          PROVE  /\ IsInjective(Children(h, id))
                 /\ \A k \in DOMAIN Children(h, id) :
                      Live(h, Children(h, id)[k]) /\ Parent(h, Children(h, id)[k]) = id
      BY DEF Forest, ListedByParent, Range
    <3>3. QED
      BY <1>2, <2>1, <3>1, <3>2 DEF ValidGraph
  <2>3. ASSUME ValidGraph(h), NEW x \in Loose(h)
        PROVE  FALSE
    <3> DEFINE ids == DOMAIN h.nodes \ {x}
    <3>1. h.root \in ids /\ x \in DOMAIN h.nodes /\ Parent(h, x) = Nobody
      BY <2>1, <2>3 DEF Loose, Live
    <3>2. HasChildren(h, ids)
      <4> SUFFICES ASSUME NEW id \in ids, NEW k \in DOMAIN Children(h, id)
                   PROVE  Children(h, id)[k] \in ids
        BY DEF HasChildren
      <4>1. /\ Children(h, id)[k] \in DOMAIN h.nodes
            /\ Parent(h, Children(h, id)[k]) = id
        BY DEF Forest, ListedByParent, Range, Live
      <4>2. id # Nobody
        BY <1>0
      <4>3. QED
        BY <3>1, <4>1, <4>2
    <3>3. ids = DOMAIN h.nodes
      BY <1>2, <2>3, <3>1, <3>2 DEF ValidGraph
    <3>4. QED
      BY <3>1, <3>3
  <2>4. QED
    BY <2>2, <2>3
<1>3. QED
  BY <1>1, <1>2

\* Without loose nodes every way up ends at the root.
LEMMA AllBelowRoot ==
  ASSUME NEW h, Typed(h), Forest(h), Loose(h) = {}, NEW id \in DOMAIN h.nodes
  PROVE  HasAncestor(h, id, h.root)
<1> SUFFICES ASSUME NEW ids \in SUBSET (DOMAIN h.nodes \cup {id}), id \in ids, HasParents(h, ids)
             PROVE  h.root \in ids
  BY DEF HasAncestor
<1>1. PICK x \in ids : Parent(h, x) \notin ids
  BY DEF Forest, Acyclic
<1>2. x \in DOMAIN h.nodes /\ Parent(h, x) = Nobody
  BY <1>1 DEF HasParents, Live
<1>3. QED
  BY <1>2 DEF Loose

-----------------------------------------------------------------------------
(* The specification. *)

TreePublished == Loose(published) = {}

LEMMA InitiallyEmpty == Init => TypeOK /\ HostIsForest /\ TreePublished
<1> SUFFICES ASSUME Init PROVE TypeOK /\ HostIsForest /\ TreePublished
  OBVIOUS
<1>1. /\ DOMAIN EmptyHost.nodes = {} /\ EmptyHost.root = Nobody /\ EmptyHost.revision = 0
      /\ EmptyHost.nodes = <<>>
  BY DEF EmptyHost
<1>2. EmptyHost.nodes \in [DOMAIN EmptyHost.nodes -> Node]
  BY <1>1
<1>3. Typed(EmptyHost)
  BY <1>1, <1>2, RevisionAssumption DEF Typed, EmptyHost
<1>4. Forest(EmptyHost) /\ Loose(EmptyHost) = {}
  BY <1>1 DEF Forest, Rooted, ParentsList, ListedByParent, Acyclic, Loose
<1>5. QED
  BY <1>3, <1>4 DEF Init, TypeOK, HostIsForest, TreePublished, Hosts

\* Every step keeps hosts hosts and forests, and publishes trees; a refused mutation leaves
\* the copy alone.
LEMMA HostStep ==
  ASSUME TypeOK, HostIsForest, TreePublished, [Next]_vars
  PROVE  /\ TypeOK' /\ HostIsForest' /\ TreePublished'
         /\ \A i \in DOMAIN copy \cap DOMAIN copy' :
              copy' # copy /\ copy'[i].error # "none" => copy'[i].host = copy[i].host
<1>1. Typed(published) /\ Forest(published) /\ Loose(published) = {}
  BY DEF TypeOK, HostIsForest, TreePublished, Hosts
<1>2. copy # <<>> => /\ copy = <<[host |-> copy[1].host, error |-> copy[1].error]>>
                     /\ Typed(copy[1].host) /\ Forest(copy[1].host) /\ copy[1].error \in Errors
  BY DEF TypeOK, HostIsForest, Hosts
<1>3. CASE BeginBatch
  <2>1. copy = <<>> /\ published' = published /\ copy' = <<Done(published)>>
    BY <1>3 DEF BeginBatch
  <2>2. Done(published) = [host |-> published, error |-> "none"]
    BY DEF Done
  <2>3. QED
    BY <1>1, <2>1, <2>2 DEF TypeOK, HostIsForest, TreePublished, Hosts, Errors
<1>4. ASSUME NEW m \in Mutation, Mutate(m)
      PROVE  /\ TypeOK' /\ HostIsForest' /\ TreePublished'
             /\ copy'[1].error # "none" => copy'[1].host = copy[1].host
             /\ DOMAIN copy' = {1}
  <2> DEFINE r == ApplyMutation(copy[1].host, m)
  <2>1. copy # <<>> /\ published' = published /\ copy' = <<r>>
    BY <1>4 DEF Mutate
  <2>2. Kept(copy[1].host, r)
    BY <1>2, <2>1, MutationKept
  <2> HIDE DEF r
  <2>3. QED
    BY <1>1, <2>1, <2>2 DEF Kept, TypeOK, HostIsForest, TreePublished, Hosts
<1>5. CASE Discard
  BY <1>1, <1>5 DEF Discard, TypeOK, HostIsForest, TreePublished, Hosts
<1>6. CASE Publish
  <2> DEFINE h == copy[1].host
             g == [h EXCEPT !.revision = published.revision + 1]
  <2>1. copy # <<>> /\ ValidGraph(h) /\ published.revision < MaxRevision
        /\ published' = g /\ copy' = <<>>
    BY <1>6 DEF Publish
  <2>2. Typed(h) /\ Forest(h) /\ Loose(h) = {}
    BY <1>2, <2>1, GraphCheck
  <2> HIDE DEF h
  <2>3. published.revision + 1 \in 0..MaxRevision
    BY <1>1, <2>1, RevisionAssumption DEF Typed
  <2>4. /\ g.nodes = h.nodes /\ g.root = h.root /\ g.revision = published.revision + 1
        /\ g \in [revision : {g.revision}, root : {g.root}, nodes : {g.nodes}]
    BY <2>2 DEF Typed
  <2> HIDE DEF g
  <2>5. Typed(g)
    BY <2>2, <2>3, <2>4 DEF Typed
  <2>6. Forest(g) /\ Loose(g) = {}
    BY <2>2, <2>4 DEF Forest, Rooted, ParentsList, ListedByParent, Acyclic, Loose, Live, Parent, Children
  <2>7. QED
    BY <2>1, <2>5, <2>6 DEF TypeOK, HostIsForest, TreePublished, Hosts
<1>7. ASSUME NEW s \in Snapshots, Remount(s)
      PROVE  TypeOK' /\ HostIsForest' /\ TreePublished' /\ DOMAIN copy \cap DOMAIN copy' = {}
  BY <1>1, <1>7, SnapshotAssumption DEF Remount, TypeOK, HostIsForest, TreePublished, Hosts
<1>8. CASE UNCHANGED vars
  BY <1>8 DEF vars, TypeOK, HostIsForest, TreePublished, Hosts
<1>9. TypeOK' /\ HostIsForest' /\ TreePublished'
  BY <1>3, <1>4, <1>5, <1>6, <1>7, <1>8 DEF Next
<1>10. ASSUME NEW i \in DOMAIN copy \cap DOMAIN copy', copy' # copy, copy'[i].error # "none"
       PROVE  copy'[i].host = copy[i].host
  <2>1. CASE BeginBatch
    BY <1>10, <2>1 DEF BeginBatch
  <2>2. CASE \E m \in Mutation : Mutate(m)
    BY <1>4, <1>10, <2>2
  <2>3. CASE Discard \/ Publish
    BY <1>10, <2>3 DEF Discard, Publish
  <2>4. CASE \E s \in Snapshots : Remount(s)
    BY <1>7, <1>10, <2>4
  <2>5. QED
    BY <1>10, <2>1, <2>2, <2>3, <2>4 DEF Next, vars
<1>11. QED
  BY <1>9, <1>10

LEMMA HostInvariant == Spec => [](TypeOK /\ HostIsForest /\ TreePublished)
<1>1. TypeOK /\ HostIsForest /\ TreePublished /\ [Next]_vars
        => (TypeOK /\ HostIsForest /\ TreePublished)'
  BY HostStep
<1>2. QED
  BY InitiallyEmpty, <1>1, PTL DEF Spec

\* The published host and the copy of a batch are hosts at every mutation of every batch,
\* and the errors are those of apply().
THEOREM HostTypeCorrect == Spec => []TypeOK
BY HostInvariant, PTL

\* No mutation, in whatever batch, makes a node its own ancestor, lists one twice or lets a
\* list of children and a parent disagree: has_ancestor ends on every copy.
THEOREM HostsAreForests == Spec => []HostIsForest
BY HostInvariant, PTL

\* What is published hangs below its root as a whole, and validate_graph refuses a copy
\* exactly when a node was left loose.
THEOREM PublishedTrees == Spec => []PublishedIsTree
<1>1. ASSUME TypeOK, HostIsForest, TreePublished
      PROVE  \A id \in DOMAIN published.nodes : HasAncestor(published, id, published.root)
  BY <1>1, AllBelowRoot DEF TypeOK, HostIsForest, TreePublished, Hosts
<1>2. ASSUME TypeOK, HostIsForest
      PROVE  \A i \in DOMAIN copy : ValidGraph(copy[i].host) <=> Loose(copy[i].host) = {}
  BY <1>2, GraphCheck DEF TypeOK, HostIsForest, Hosts
<1>3. TypeOK /\ HostIsForest /\ TreePublished => PublishedIsTree
  BY <1>1, <1>2 DEF PublishedIsTree
<1>4. QED
  BY HostInvariant, <1>3, PTL

\* The late checks of remove_child never fail: a refused mutation changes nothing.
THEOREM RefusedMutationsLeaveNoTrace == Spec => RefusalsLeaveNoTrace
<1>1. TypeOK /\ HostIsForest /\ TreePublished /\ [Next]_vars =>
        [\A i \in DOMAIN copy \cap DOMAIN copy' :
           copy'[i].error # "none" => copy'[i].host = copy[i].host]_vars
  BY HostStep DEF vars
<1>2. QED
  BY HostInvariant, <1>1, PTL DEF Spec, RefusalsLeaveNoTrace

-----------------------------------------------------------------------------
(* Whole batches. *)

\* The host after each mutation is made of the one before it: a function with these values
\* exists for every length.
LEMMA AfterEachValues ==
  ASSUME NEW M, NEW h, NEW operations \in Seq(M)
  PROVE  LET after == AfterEach(h, operations)
         IN  /\ after[0] = Done(h)
             /\ \A n \in 1..Len(operations) :
                  after[n] = IF after[n - 1].error = "none"
                             THEN ApplyMutation(after[n - 1].host, operations[n])
                             ELSE after[n - 1]
<1> DEFINE After(r, n) == IF r.error = "none" THEN ApplyMutation(r.host, operations[n]) ELSE r
           Is(f, last) == f = [n \in 0..last |-> IF n = 0 THEN Done(h) ELSE After(f[n - 1], n)]
           S == {last \in Nat : \E f : Is(f, last)}
<1>1. AfterEach(h, operations) = CHOOSE f : Is(f, Len(operations))
  BY DEF AfterEach
<1> HIDE DEF After
<1>2. 0 \in S
  <2>1. Is([n \in 0..0 |-> Done(h)], 0)
    OBVIOUS
  <2>2. QED
    BY <2>1
<1>3. ASSUME NEW last \in Nat, last \in S
      PROVE  last + 1 \in S
  <2>1. PICK f : Is(f, last)
    BY <1>3
  <2> DEFINE g == [n \in 0..last + 1 |-> IF n = last + 1 THEN After(f[last], last + 1) ELSE f[n]]
  <2>2. ASSUME NEW n \in 0..last + 1
        PROVE  g[n] = IF n = 0 THEN Done(h) ELSE After(g[n - 1], n)
    <3>1. CASE n = 0
      BY <2>1, <3>1
    <3>2. CASE n \in 1..last
      <4>1. g[n] = f[n] /\ g[n - 1] = f[n - 1]
        BY <3>2
      <4>2. f[n] = After(f[n - 1], n)
        BY <2>1, <3>2
      <4>3. QED
        BY <3>2, <4>1, <4>2
    <3>3. CASE n = last + 1
      <4>1. g[n] = After(f[last], n) /\ g[n - 1] = f[last]
        BY <3>3
      <4>2. QED
        BY <3>3, <4>1
    <3>4. QED
      BY <3>1, <3>2, <3>3
  <2>3. Is(g, last + 1)
    <3>1. g = [n \in 0..last + 1 |-> g[n]]
      OBVIOUS
    <3> HIDE DEF g
    <3>2. QED
      BY <2>2, <3>1
  <2> HIDE DEF g
  <2>4. QED
    BY <2>3
<1>4. Nat \subseteq S
  <2> HIDE DEF S
  <2>1. QED
    BY <1>2, <1>3, NatSetInduction
<1>5. Len(operations) \in S
  BY <1>4
<1>6. Is(AfterEach(h, operations), Len(operations))
  <2> HIDE DEF Is
  <2>1. QED
    BY <1>1, <1>5
<1>7. QED
  BY <1>6 DEF After

\* Every prefix of every batch keeps the host a forest.
LEMMA AfterEachKept ==
  ASSUME NEW h, Typed(h), Forest(h), NEW operations \in Seq(Mutation),
         NEW n \in 0..Len(operations)
  PROVE  LET r == AfterEach(h, operations)[n]
         IN  /\ r = [host |-> r.host, error |-> r.error]
             /\ Typed(r.host) /\ Forest(r.host) /\ r.error \in Errors
<1> DEFINE after == AfterEach(h, operations)
           Good(r) == /\ r = [host |-> r.host, error |-> r.error]
                      /\ Typed(r.host) /\ Forest(r.host) /\ r.error \in Errors
           S == {k \in Nat : k <= Len(operations) => Good(after[k])}
<1>1. /\ after[0] = Done(h)
      /\ \A k \in 1..Len(operations) :
           after[k] = IF after[k - 1].error = "none"
                      THEN ApplyMutation(after[k - 1].host, operations[k])
                      ELSE after[k - 1]
  BY AfterEachValues
<1> HIDE DEF after
<1>2. 0 \in S
  <2>1. Kept(h, Done(h))
    BY DoneKept
  <2>2. QED
    BY <1>1, <2>1 DEF Kept
<1>3. ASSUME NEW k \in Nat, k \in S
      PROVE  k + 1 \in S
  <2> SUFFICES ASSUME k + 1 <= Len(operations)
               PROVE  Good(after[k + 1])
    OBVIOUS
  <2>1. Good(after[k])
    BY <1>3
  <2>2. after[k + 1] = IF after[k].error = "none"
                       THEN ApplyMutation(after[k].host, operations[k + 1])
                       ELSE after[k]
    <3>1. k + 1 \in 1..Len(operations) /\ (k + 1) - 1 = k
      OBVIOUS
    <3>2. QED
      BY <1>1, <3>1
  <2>3. operations[k + 1] \in Mutation
    OBVIOUS
  <2>4. Kept(after[k].host, ApplyMutation(after[k].host, operations[k + 1]))
    BY <2>1, <2>3, MutationKept
  <2>5. QED
    BY <2>1, <2>2, <2>4 DEF Kept
<1>4. Nat \subseteq S
  <2> HIDE DEF S
  <2>1. QED
    BY <1>2, <1>3, NatSetInduction
<1>5. QED
  BY <1>4 DEF after

\* A tree is a tree again after any batch of any length: apply_batch publishes a whole tree
\* of the next revision, or refuses the batch and leaves the host as it was.
THEOREM BatchesKeepTrees ==
  ASSUME NEW h, Typed(h), Forest(h), Loose(h) = {}, h.revision < MaxRevision,
         NEW batch, batch.operations \in Seq(Mutation)
  PROVE  LET r == ApplyBatch(h, batch)
         IN  /\ Typed(r.host) /\ Forest(r.host) /\ Loose(r.host) = {}
             /\ \/ r.error # "none" /\ r.host = h
                \/ r.error = "none" /\ r.host.revision = h.revision + 1
<1> DEFINE last == ApplyAll(h, batch.operations)
           g == last.host
           new == [g EXCEPT !.revision = batch.base + 1]
<1>1. /\ Typed(g) /\ Forest(g) /\ last.error \in Errors
  <2>1. Len(batch.operations) \in 0..Len(batch.operations)
    OBVIOUS
  <2>2. LET r == AfterEach(h, batch.operations)[Len(batch.operations)]
        IN  Typed(r.host) /\ Forest(r.host) /\ r.error \in Errors
    BY <2>1, AfterEachKept
  <2>3. QED
    BY <2>2 DEF ApplyAll
<1> HIDE DEF last
<1>2. CASE batch.base # h.revision
  BY <1>2 DEF ApplyBatch, Rejected
<1>3. CASE batch.base = h.revision /\ last.error # "none"
  BY <1>3 DEF ApplyBatch, Rejected, last
<1>4. CASE batch.base = h.revision /\ last.error = "none" /\ ~ValidGraph(g)
  BY <1>4 DEF ApplyBatch, Rejected, last
<1>5. CASE batch.base = h.revision /\ last.error = "none" /\ ValidGraph(g)
  <2>1. ApplyBatch(h, batch) = Done(new)
    BY <1>5 DEF ApplyBatch, last
  <2>2. Loose(g) = {}
    BY <1>1, <1>5, GraphCheck
  <2>3. batch.base + 1 \in 0..MaxRevision
    BY <1>5, RevisionAssumption DEF Typed
  <2> HIDE DEF g
  <2>4. /\ new.nodes = g.nodes /\ new.root = g.root /\ new.revision = batch.base + 1
        /\ new \in [revision : {new.revision}, root : {new.root}, nodes : {new.nodes}]
    BY <1>1 DEF Typed
  <2> HIDE DEF new
  <2>5. Typed(new)
    BY <1>1, <2>3, <2>4 DEF Typed
  <2>6. Forest(new) /\ Loose(new) = {}
    BY <1>1, <2>2, <2>4
       DEF Forest, Rooted, ParentsList, ListedByParent, Acyclic, Loose, Live, Parent, Children
  <2>7. QED
    BY <1>5, <2>1, <2>4, <2>5, <2>6 DEF Done
<1>6. QED
  BY <1>2, <1>3, <1>4, <1>5

-----------------------------------------------------------------------------
(* Moves of children. *)

\* A move of a list is SingleMove::previous_index at each position.
LEMMA MovedPositions ==
  ASSUME NEW S, NEW s \in Seq(S), NEW from \in 1..Len(s), NEW to \in 1..Len(s)
  PROVE  LET list == InsertAt(RemoveAt(s, from), to, s[from])
         IN  /\ list \in Seq(S) /\ Len(list) = Len(s)
             /\ \A k \in 1..Len(s) : list[k] = s[MovedFrom(from, to, k)]
<1> DEFINE rest == RemoveAt(s, from)
           list == InsertAt(rest, to, s[from])
<1>1. /\ rest \in Seq(S) /\ Len(rest) = Len(s) - 1
      /\ \A k \in 1..Len(s) - 1 : rest[k] = IF k < from THEN s[k] ELSE s[k + 1]
  BY RemoveAtType
<1> HIDE DEF rest
<1>2. /\ list \in Seq(S) /\ Len(list) = Len(s)
      /\ \A k \in 1..Len(s) :
           list[k] = IF k < to THEN rest[k] ELSE IF k = to THEN s[from] ELSE rest[k - 1]
  <2>1. to \in 1..Len(rest) + 1 /\ s[from] \in S /\ Len(rest) + 1 = Len(s)
    BY <1>1
  <2>2. /\ list \in Seq(S) /\ Len(list) = Len(rest) + 1
        /\ \A k \in 1..Len(rest) + 1 :
             list[k] = IF k < to THEN rest[k] ELSE IF k = to THEN s[from] ELSE rest[k - 1]
    <3> DEFINE e == s[from]
    <3>1. rest \in Seq(S) /\ to \in 1..Len(rest) + 1 /\ e \in S
      BY <1>1, <2>1
    <3> HIDE DEF e
    <3>2. IsInserted(InsertAt(rest, to, e), rest, S, to, e)
      BY ONLY <3>1, InsertAtItems
    <3>3. QED
      BY <3>2 DEF e, IsInserted
  <2> HIDE DEF list
  <2>3. QED
    BY <2>1, <2>2
<1> HIDE DEF list
<1>3. ASSUME NEW k \in 1..Len(s)
      PROVE  list[k] = s[MovedFrom(from, to, k)]
  <2>1. CASE k < to
    <3>1. k \in 1..Len(s) - 1 /\ list[k] = rest[k]
      BY <1>2, <2>1
    <3>2. MovedFrom(from, to, k) = IF k < from THEN k ELSE k + 1
      BY <2>1 DEF MovedFrom
    <3>3. QED
      BY <1>1, <3>1, <3>2
  <2>2. CASE k = to
    BY <1>2, <2>2 DEF MovedFrom
  <2>3. CASE k > to
    <3>1. k - 1 \in 1..Len(s) - 1 /\ list[k] = rest[k - 1] /\ (k - 1) + 1 = k
      BY <1>2, <2>3
    <3>2. MovedFrom(from, to, k) = IF k - 1 < from THEN k - 1 ELSE k
      BY <2>3 DEF MovedFrom
    <3>3. QED
      BY <1>1, <3>1, <3>2
  <2>4. QED
    BY <2>1, <2>2, <2>3
<1>4. QED
  BY <1>2, <1>3 DEF rest, list

\* A host with another list of children below one node.
WithChildren(h, p, list) == [h EXCEPT !.nodes[p].children = list]

LEMMA WithChildrenNodes ==
  ASSUME NEW h, Typed(h), NEW p \in DOMAIN h.nodes, NEW list \in Seq(NodeId)
  PROVE  LET g == WithChildren(h, p, list)
         IN  Typed(g) /\ p \in DOMAIN g.nodes /\ Children(g, p) = list
<1> DEFINE g == [h EXCEPT !.nodes[p].children = list]
<1>1. /\ Typed(g) /\ DOMAIN g.nodes = DOMAIN h.nodes
      /\ \A x \in DOMAIN h.nodes : Children(g, x) = IF x = p THEN list ELSE Children(h, x)
  BY ChangedChildren
<1> HIDE DEF g
<1>2. Typed(g) /\ p \in DOMAIN g.nodes /\ Children(g, p) = list
  BY <1>1
<1>3. QED
  BY <1>2 DEF WithChildren, g

LEMMA WithSameChildren ==
  ASSUME NEW h, Typed(h), NEW p \in DOMAIN h.nodes
  PROVE  WithChildren(h, p, Children(h, p)) = h
<1>1. h = [revision |-> h.revision, root |-> h.root, nodes |-> h.nodes]
  BY DEF Typed
<1>2. h.nodes = [x \in DOMAIN h.nodes |-> h.nodes[x]]
  BY DEF Typed
<1>3. [h.nodes[p] EXCEPT !.children = Children(h, p)] = h.nodes[p]
  <2>1. h.nodes[p] \in Node
    BY NodeFacts
  <2>2. QED
    BY <2>1 DEF Node, Children
<1>4. [h.nodes EXCEPT ![p].children = Children(h, p)] = h.nodes
  BY <1>2, <1>3
<1>5. QED
  BY <1>1, <1>4 DEF WithChildren

LEMMA WithChildrenTwice ==
  ASSUME NEW h, Typed(h), NEW p \in DOMAIN h.nodes, NEW one, NEW two
  PROVE  WithChildren(WithChildren(h, p, one), p, two) = WithChildren(h, p, two)
<1>1. h = [revision |-> h.revision, root |-> h.root, nodes |-> h.nodes]
  BY DEF Typed
<1>2. h.nodes = [x \in DOMAIN h.nodes |-> h.nodes[x]]
  BY DEF Typed
<1>3. h.nodes[p] \in Node
  BY NodeFacts
<1>4. QED
  BY <1>1, <1>2, <1>3 DEF WithChildren, Node

\* MoveChild of the child at a position, to a position: nothing else changes.
LEMMA MoveDone ==
  ASSUME NEW h, Typed(h), NEW p \in DOMAIN h.nodes,
         NEW from \in 1..Len(Children(h, p)), NEW to \in 1..Len(Children(h, p)),
         NEW list \in Seq(NodeId), Len(list) = Len(Children(h, p)),
         \A k \in 1..Len(list) : list[k] = Children(h, p)[MovedFrom(from, to, k)]
  PROVE  ApplyMutation(h, MoveChild(p, Children(h, p)[from], from - 1, to - 1)) =
           Done(WithChildren(h, p, list))
<1> DEFINE old == Children(h, p)
           m == MoveChild(p, old[from], from - 1, to - 1)
           new == InsertAt(RemoveAt(old, m.from + 1), m.to + 1, m.child_id)
<1>1. old \in Seq(NodeId)
  BY NodeFacts
<1>2. /\ m.op = "MoveChild" /\ m.parent_id = p /\ m.child_id = old[from]
      /\ m.from = from - 1 /\ m.to = to - 1 /\ m.from + 1 = from /\ m.to + 1 = to
  BY DEF MoveChild
<1>3. ApplyMutation(h, m) = HostMoveChild(h, m)
  BY <1>2 DEF ApplyMutation
<1> HIDE DEF m
<1>4. ChildAt(h, p, m.from, m.child_id) /\ ~(m.to >= Len(old))
  BY <1>1, <1>2 DEF ChildAt
<1>5. HostMoveChild(h, m) = Done(WithChildren(h, p, new))
  BY <1>2, <1>4 DEF HostMoveChild, Live, WithChildren, Children
<1>6. new \in Seq(NodeId) /\ Len(new) = Len(old)
      /\ \A k \in 1..Len(old) : new[k] = old[MovedFrom(from, to, k)]
  <2>1. /\ old \in Seq(NodeId) /\ from \in 1..Len(old) /\ to \in 1..Len(old)
        /\ new = InsertAt(RemoveAt(old, from), to, old[from])
    BY <1>1, <1>2
  <2> HIDE DEF new, old
  <2>2. QED
    BY ONLY <2>1, MovedPositions, ZenonT(30)
<1> HIDE DEF new
<1>7. new = list
  BY <1>1, <1>6, SeqEqual
<1>8. QED
  BY <1>3, <1>5, <1>7 DEF m

\* Two lists of the same length with different keys differ at a first position.
LEMMA FirstMismatch ==
  ASSUME NEW S, NEW T, NEW prev \in Seq(S), NEW cand \in Seq(T), Len(prev) = Len(cand),
         Keys(prev) # Keys(cand)
  PROVE  \E i \in DOMAIN prev :
           prev[i].key # cand[i].key /\ \A j \in 1..i - 1 : prev[j].key = cand[j].key
<1> DEFINE U == {n \in Nat : \A j \in 1..n : j <= Len(prev) => prev[j].key = cand[j].key}
<1> SUFFICES ASSUME \A i \in DOMAIN prev :
                      prev[i].key = cand[i].key \/ \E j \in 1..i - 1 : prev[j].key # cand[j].key
             PROVE  FALSE
  OBVIOUS
<1>1. 0 \in U
  OBVIOUS
<1>2. ASSUME NEW n \in Nat, n \in U
      PROVE  n + 1 \in U
  <2>1. \A j \in 1..n : j <= Len(prev) => prev[j].key = cand[j].key
    BY <1>2
  <2>2. n + 1 <= Len(prev) => prev[n + 1].key = cand[n + 1].key
    <3> SUFFICES ASSUME n + 1 <= Len(prev) PROVE prev[n + 1].key = cand[n + 1].key
      OBVIOUS
    <3>1. n + 1 \in DOMAIN prev /\ \A j \in 1..(n + 1) - 1 : j \in 1..n /\ j <= Len(prev)
      OBVIOUS
    <3>2. QED
      BY <2>1, <3>1
  <2>3. \A j \in 1..n + 1 : j \in 1..n \/ j = n + 1
    OBVIOUS
  <2>4. QED
    BY <2>1, <2>2, <2>3
<1>3. Nat \subseteq U
  <2> HIDE DEF U
  <2>1. QED
    BY <1>1, <1>2, NatSetInduction
<1>4. \A j \in 1..Len(prev) : prev[j].key = cand[j].key
  <2>1. Len(prev) \in U
    <3> HIDE DEF U
    <3>1. QED
      BY <1>3
  <2>2. QED
    BY <2>1
<1>5. Keys(prev) = Keys(cand)
  BY <1>4 DEF Keys
<1>6. QED
  BY <1>5

\* The move that detect_single_keyed_move finds puts every previous child at the position of
\* the candidate that has its key, and changes nothing else in the host.
THEOREM SingleMoveRealised ==
  ASSUME NEW S, NEW T, NEW prev \in Seq(S), NEW cand \in Seq(T), Len(prev) = Len(cand),
         Keys(prev) # Keys(cand), NEW move \in SingleMoves(prev, cand),
         NEW h, Typed(h), NEW p \in DOMAIN h.nodes,
         Children(h, p) = [k \in 1..Len(prev) |-> prev[k].node_id]
  PROVE  LET old(k) == MovedFrom(move[1], move[2], k)
         IN  /\ ApplyMutation(h, MoveChild(p, prev[move[1]].node_id, move[1] - 1, move[2] - 1)) =
                  Done(WithChildren(h, p, [k \in 1..Len(prev) |-> prev[old(k)].node_id]))
             /\ \A k \in 1..Len(prev) : prev[old(k)].key = cand[k].key
<1>0. \E i \in DOMAIN prev :
        prev[i].key # cand[i].key /\ \A j \in 1..i - 1 : prev[j].key = cand[j].key
  <2>1. /\ prev \in Seq(S) /\ cand \in Seq(T) /\ Len(prev) = Len(cand)
        /\ Keys(prev) # Keys(cand)
    OBVIOUS
  <2>2. QED
    BY ONLY <2>1, FirstMismatch
<1> DEFINE first == CHOOSE i \in DOMAIN prev :
                      /\ prev[i].key # cand[i].key
                      /\ \A j \in 1..i - 1 : prev[j].key = cand[j].key
           later == first + 1..Len(prev)
<1>1. first \in 1..Len(prev)
  BY <1>0
<1> HIDE DEF first
<1>2. /\ \/ \E i \in later : move = <<i, first>>
         \/ \E i \in later : move = <<first, i>>
      /\ IsMove(prev, cand, move[1], move[2])
  <2> DEFINE toFirst == {<<from, first>> : from \in {i \in later : IsMove(prev, cand, i, first)}}
             fromFirst == {<<first, to>> : to \in {i \in later : IsMove(prev, cand, first, i)}}
  <2>1. SingleMoves(prev, cand) = IF toFirst # {} THEN toFirst ELSE fromFirst
    BY DEF SingleMoves, first
  <2>2. CASE move \in toFirst
    BY <2>2
  <2>3. CASE move \in fromFirst
    BY <2>3
  <2>4. QED
    BY <2>1, <2>2, <2>3
<1>3. move[1] \in 1..Len(prev) /\ move[2] \in 1..Len(prev)
  BY <1>1, <1>2
<1>4. Len(Children(h, p)) = Len(prev) /\ \A k \in 1..Len(prev) : Children(h, p)[k] = prev[k].node_id
  <2>1. Children(h, p) \in Seq(NodeId) /\ DOMAIN Children(h, p) = 1..Len(prev)
    BY NodeFacts
  <2>2. QED
    BY <2>1
<1>5. \A k \in 1..Len(prev) : MovedFrom(move[1], move[2], k) \in 1..Len(prev)
  BY <1>3 DEF MovedFrom
<1> DEFINE list == [k \in 1..Len(prev) |-> prev[MovedFrom(move[1], move[2], k)].node_id]
<1>6. ApplyMutation(h, MoveChild(p, prev[move[1]].node_id, move[1] - 1, move[2] - 1)) =
        Done(WithChildren(h, p, list))
  <2>1. \A k \in 1..Len(prev) : list[k] = Children(h, p)[MovedFrom(move[1], move[2], k)]
    BY <1>4, <1>5
  <2>2. \A k \in 1..Len(prev) : list[k] \in NodeId
    <3>1. Children(h, p) \in Seq(NodeId)
      BY NodeFacts
    <3>2. QED
      BY <1>4, <1>5, <2>1, <3>1
  <2>3. list \in Seq(NodeId) /\ Len(list) = Len(prev)
    BY <2>2
  <2> HIDE DEF list
  <2>4. /\ move[1] \in 1..Len(Children(h, p)) /\ move[2] \in 1..Len(Children(h, p))
        /\ Children(h, p)[move[1]] = prev[move[1]].node_id
    BY <1>3, <1>4
  <2>5. /\ Typed(h) /\ p \in DOMAIN h.nodes /\ list \in Seq(NodeId)
        /\ Len(list) = Len(Children(h, p))
        /\ \A k \in 1..Len(list) : list[k] = Children(h, p)[MovedFrom(move[1], move[2], k)]
    BY <1>4, <2>1, <2>3
  <2>6. ApplyMutation(h, MoveChild(p, Children(h, p)[move[1]], move[1] - 1, move[2] - 1)) =
          Done(WithChildren(h, p, list))
    BY ONLY <2>4, <2>5, MoveDone
  <2>7. QED
    BY <2>4, <2>6
<1>8. ASSUME NEW k \in 1..Len(prev)
      PROVE  prev[MovedFrom(move[1], move[2], k)].key = cand[k].key
  <2>1. k \in DOMAIN cand
    OBVIOUS
  <2>2. QED
    BY <1>2, <2>1 DEF IsMove
<1>9. QED
  BY <1>6, <1>8

-----------------------------------------------------------------------------
(* Reorders: the children whose positions in the list are those of `places`, after the   *)
(* first `i` targets were served. Target `k` takes the child that was at `target[k]`.   *)

Permutes(n, target) ==
  target \in [1..n -> 1..n] /\ \A k, l \in 1..n : target[k] = target[l] => k = l

Placed(n, target, i, places) ==
  /\ places \in [1..n -> 1..n]
  /\ \A k, l \in 1..n : places[k] = places[l] => k = l
  /\ \A x \in 1..n : \E k \in 1..n : places[k] = x
  /\ \A k \in 1..i : places[k] = target[k]
  /\ \A k, l \in i + 1..n : k < l => places[k] < places[l]

\* The child of the next target stands at the target, or behind it.
LEMMA NextNotPlaced ==
  ASSUME NEW n \in Nat, NEW target, Permutes(n, target),
         NEW i \in 0..n - 1, NEW places, Placed(n, target, i, places),
         NEW q \in 1..n, places[q] = target[i + 1]
  PROVE  q >= i + 1
<1> SUFFICES ASSUME q <= i PROVE FALSE
  OBVIOUS
<1>1. i + 1 \in 1..n /\ q \in 1..i /\ q # i + 1
  OBVIOUS
<1>2. places[q] = target[q]
  BY <1>1 DEF Placed
<1>3. QED
  BY <1>1, <1>2 DEF Permutes

\* LivePosition: the children that wait before the next one are the ones between.
LEMMA WaitingBefore ==
  ASSUME NEW n \in Nat, NEW target, Permutes(n, target),
         NEW i \in 0..n - 1, NEW places, Placed(n, target, i, places),
         NEW q \in 1..n, places[q] = target[i + 1]
  PROVE  Cardinality((1..target[i + 1] - 1) \ {target[k] : k \in 1..i}) = q - (i + 1)
<1> DEFINE waiting == (1..target[i + 1] - 1) \ {target[k] : k \in 1..i}
           between == [k \in i + 1..q - 1 |-> places[k]]
<1>0. /\ target \in [1..n -> 1..n]
      /\ \A k, l \in 1..n : target[k] = target[l] => k = l
      /\ places \in [1..n -> 1..n]
      /\ \A k, l \in 1..n : places[k] = places[l] => k = l
      /\ \A x \in 1..n : \E k \in 1..n : places[k] = x
      /\ \A k \in 1..i : places[k] = target[k]
      /\ \A k, l \in i + 1..n : k < l => places[k] < places[l]
  BY DEF Placed, Permutes
<1>1. q >= i + 1
  BY NextNotPlaced
<1>2. i + 1 \in 1..n /\ target[i + 1] \in 1..n
  BY <1>0
<1>3. ASSUME NEW k \in i + 1..q - 1
      PROVE  places[k] \in waiting
  <2>1. k \in 1..n /\ k \in i + 1..n /\ q \in i + 1..n /\ k < q
    BY <1>1
  <2>2. places[k] \in 1..n /\ places[k] < target[i + 1]
    BY <1>0, <2>1
  <2>3. ASSUME NEW l \in 1..i
        PROVE  places[k] # target[l]
    <3>1. places[l] = target[l]
      BY <1>0
    <3>2. l \in 1..n /\ l # k
      BY <2>1
    <3>3. QED
      BY <1>0, <2>1, <3>1, <3>2
  <2>4. places[k] \in 1..target[i + 1] - 1
    BY <1>2, <2>2
  <2>5. places[k] \notin {target[l] : l \in 1..i}
    BY <2>3
  <2>6. QED
    BY <2>4, <2>5
<1>4. ASSUME NEW x \in waiting
      PROVE  \E k \in i + 1..q - 1 : places[k] = x
  <2>1. x \in 1..n /\ x < target[i + 1] /\ x \notin {target[k] : k \in 1..i}
    BY <1>2
  <2>2. PICK k \in 1..n : places[k] = x
    BY <1>0, <2>1
  <2>3. ~(k <= i)
    BY <1>0, <2>1, <2>2
  <2>4. ~(q < k)
    <3> SUFFICES ASSUME q < k PROVE FALSE
      OBVIOUS
    <3>1. k \in i + 1..n /\ q \in i + 1..n
      BY <1>1, <2>3
    <3>2. places[q] < places[k]
      BY <1>0, <3>1
    <3>3. QED
      BY <1>2, <2>1, <2>2, <3>2
  <2>5. k # q
    BY <1>2, <2>1, <2>2
  <2>6. k \in i + 1..q - 1
    BY <2>3, <2>4, <2>5
  <2>7. QED
    BY <2>2, <2>6
<1>5. \A k, l \in i + 1..q - 1 : places[k] = places[l] => k = l
  <2>1. \A k \in i + 1..q - 1 : k \in 1..n
    OBVIOUS
  <2>2. QED
    BY <1>0, <2>1
<1> HIDE DEF waiting
<1>6. between \in Bijection(i + 1..q - 1, waiting)
  <2>1. between \in [i + 1..q - 1 -> waiting]
    BY <1>3
  <2>2. between \in Injection(i + 1..q - 1, waiting)
    BY <1>5, <2>1 DEF Injection, IsInjective
  <2>3. between \in Surjection(i + 1..q - 1, waiting)
    BY <1>4, <2>1 DEF Surjection
  <2>4. QED
    BY <2>2, <2>3 DEF Bijection
<1>7. ExistsBijection(i + 1..q - 1, waiting)
  BY <1>6 DEF ExistsBijection
<1>8. IsFiniteSet(i + 1..q - 1) /\ Cardinality(i + 1..q - 1) = q - (i + 1)
  <2>1. i + 1 \in Int /\ q - 1 \in Int
    OBVIOUS
  <2>2. IsFiniteSet(i + 1..q - 1)
        /\ Cardinality(i + 1..q - 1) = IF i + 1 > q - 1 THEN 0 ELSE q - 1 - (i + 1) + 1
    BY ONLY <2>1, FS_Interval
  <2>3. QED
    BY <1>1, <2>2
<1>9. Cardinality(waiting) = q - (i + 1)
  BY <1>7, <1>8, FS_Bijection
<1>10. QED
  BY <1>9 DEF waiting

\* The move puts the next child at its target and keeps the order of the others.
LEMMA NextPlaced ==
  ASSUME NEW n \in Nat, NEW target, Permutes(n, target),
         NEW i \in 0..n - 1, NEW places, Placed(n, target, i, places),
         NEW q \in 1..n, places[q] = target[i + 1]
  PROVE  Placed(n, target, i + 1, [k \in 1..n |-> places[MovedFrom(q, i + 1, k)]])
<1> DEFINE from(k) == MovedFrom(q, i + 1, k)
           back(k) == MovedFrom(i + 1, q, k)
           moved == [k \in 1..n |-> places[from(k)]]
<1>0. /\ target \in [1..n -> 1..n]
      /\ \A k, l \in 1..n : target[k] = target[l] => k = l
      /\ places \in [1..n -> 1..n]
      /\ \A k, l \in 1..n : places[k] = places[l] => k = l
      /\ \A x \in 1..n : \E k \in 1..n : places[k] = x
      /\ \A k \in 1..i : places[k] = target[k]
      /\ \A k, l \in i + 1..n : k < l => places[k] < places[l]
  BY DEF Placed, Permutes
<1>1. q >= i + 1
  BY NextNotPlaced
<1>2. ASSUME NEW k \in 1..n
      PROVE  from(k) = IF k = i + 1 THEN q ELSE IF i + 1 < k /\ k <= q THEN k - 1 ELSE k
  BY <1>1 DEF MovedFrom
<1>3. ASSUME NEW k \in 1..n
      PROVE  back(k) \in 1..n /\ from(back(k)) = k
  <2>1. back(k) = IF k = q THEN i + 1 ELSE IF i + 1 <= k /\ k < q THEN k + 1 ELSE k
    BY <1>1 DEF MovedFrom
  <2> HIDE DEF back, from
  <2>2. back(k) \in 1..n
    BY <1>1, <2>1
  <2>3. QED
    BY <1>1, <1>2, <2>1, <2>2
<1> HIDE DEF from, back
<1>4. \A k \in 1..n : from(k) \in 1..n
  BY <1>1, <1>2
<1>5. moved \in [1..n -> 1..n]
  BY <1>0, <1>4
<1>6. \A k, l \in 1..n : moved[k] = moved[l] => k = l
  <2>1. \A k, l \in 1..n : from(k) = from(l) => k = l
    BY <1>1, <1>2
  <2> SUFFICES ASSUME NEW k \in 1..n, NEW l \in 1..n, moved[k] = moved[l]
               PROVE  k = l
    OBVIOUS
  <2>2. places[from(k)] = places[from(l)] /\ from(k) \in 1..n /\ from(l) \in 1..n
    BY <1>4
  <2>3. QED
    BY <1>0, <2>1, <2>2
<1>7. \A x \in 1..n : \E k \in 1..n : moved[k] = x
  <2> SUFFICES ASSUME NEW x \in 1..n
               PROVE  \E k \in 1..n : moved[k] = x
    OBVIOUS
  <2>1. PICK k \in 1..n : places[k] = x
    BY <1>0
  <2>2. back(k) \in 1..n /\ moved[back(k)] = x
    BY <1>3, <2>1
  <2>3. QED
    BY <2>2
<1>8. \A k \in 1..i + 1 : moved[k] = target[k]
  <2> SUFFICES ASSUME NEW k \in 1..i + 1
               PROVE  moved[k] = target[k]
    OBVIOUS
  <2>1. k \in 1..n
    OBVIOUS
  <2>2. CASE k = i + 1
    BY <1>2, <2>1, <2>2
  <2>3. CASE k # i + 1
    <3>1. k \in 1..i /\ from(k) = k
      BY <1>2, <2>1, <2>3
    <3>2. QED
      BY <1>0, <2>1, <3>1
  <2>4. QED
    BY <2>2, <2>3
<1>9. \A k, l \in (i + 1) + 1..n : k < l => moved[k] < moved[l]
  <2> SUFFICES ASSUME NEW k \in (i + 1) + 1..n, NEW l \in (i + 1) + 1..n, k < l
               PROVE  moved[k] < moved[l]
    OBVIOUS
  <2>1. k \in 1..n /\ l \in 1..n
    OBVIOUS
  <2>2. from(k) \in i + 1..n /\ from(l) \in i + 1..n /\ from(k) < from(l)
    BY <1>1, <1>2, <2>1
  <2>3. places[from(k)] < places[from(l)]
    BY <1>0, <2>2
  <2>4. QED
    BY <2>1, <2>3
<1> HIDE DEF moved
<1>10. Placed(n, target, i + 1, moved)
  BY <1>5, <1>6, <1>7, <1>8, <1>9 DEF Placed
<1>11. QED
  BY <1>10 DEF moved, from

\* A batch with one more mutation does what the batch does, and then the mutation.
LEMMA OneMoreMutation ==
  ASSUME NEW M, NEW h, NEW s \in Seq(M), NEW m \in M, ApplyAll(h, s).error = "none"
  PROVE  ApplyAll(h, s \o <<m>>) = ApplyMutation(ApplyAll(h, s).host, m)
<1> DEFINE t == s \o <<m>>
           f == AfterEach(h, s)
           g == AfterEach(h, t)
           S == {k \in Nat : k <= Len(s) => g[k] = f[k]}
           After(r, x) == IF r.error = "none" THEN ApplyMutation(r.host, x) ELSE r
<1>1. t \in Seq(M) /\ Len(t) = Len(s) + 1 /\ t[Len(s) + 1] = m
  OBVIOUS
<1>2. \A k \in 1..Len(s) : t[k] = s[k]
  OBVIOUS
<1> HIDE DEF t
<1>3. f[0] = Done(h) /\ \A k \in 1..Len(s) : f[k] = After(f[k - 1], s[k])
  BY AfterEachValues
<1>4. g[0] = Done(h) /\ \A k \in 1..Len(t) : g[k] = After(g[k - 1], t[k])
  BY <1>1, AfterEachValues
<1> HIDE DEF f, g, After
<1>5. 0 \in S
  BY <1>3, <1>4
<1>6. ASSUME NEW k \in Nat, k \in S
      PROVE  k + 1 \in S
  <2> SUFFICES ASSUME k + 1 <= Len(s)
               PROVE  g[k + 1] = f[k + 1]
    OBVIOUS
  <2>1. g[k] = f[k]
    BY <1>6
  <2>2. k + 1 \in 1..Len(s) /\ k + 1 \in 1..Len(t) /\ (k + 1) - 1 = k
    BY <1>1
  <2>3. f[k + 1] = After(f[k], s[k + 1]) /\ g[k + 1] = After(g[k], t[k + 1])
    BY <1>3, <1>4, <2>2
  <2>4. QED
    BY <1>2, <2>1, <2>2, <2>3
<1>7. Nat \subseteq S
  <2> HIDE DEF S
  <2>1. QED
    BY <1>5, <1>6, NatSetInduction
<1>8. g[Len(s)] = f[Len(s)]
  <2>1. Len(s) \in S
    <3> HIDE DEF S
    <3>1. QED
      BY <1>7
  <2>2. QED
    BY <2>1
<1>9. g[Len(t)] = After(g[Len(s)], m)
  <2>1. Len(t) \in 1..Len(t) /\ Len(t) - 1 = Len(s) /\ t[Len(t)] = m
    BY <1>1
  <2>2. QED
    BY <1>4, <2>1
<1>10. QED
  BY <1>8, <1>9 DEF After, ApplyAll, f, g, t

\* The movement that plan_keyed_reorder adds for a target: none if the child is there.
Movement(p, prev, cand, i) ==
  LET live == LivePosition(prev, cand, i)
  IN IF live = i THEN <<>>
     ELSE <<MoveChild(p, prev[PreviousIndex(prev, cand[i])].node_id, live - 1, i - 1)>>

LEMMA ReorderMovesValues ==
  ASSUME NEW p, NEW prev, NEW cand, Len(cand) \in Nat
  PROVE  LET moves == ReorderMoves(p, prev, cand)
         IN  /\ moves[0] = <<>>
             /\ \A n \in 1..Len(cand) : moves[n] = moves[n - 1] \o Movement(p, prev, cand, n)
<1> DEFINE With(moves, n) == moves \o Movement(p, prev, cand, n)
           Is(f, last) == f = [n \in 0..last |-> IF n = 0 THEN <<>> ELSE With(f[n - 1], n)]
           S == {last \in Nat : \E f : Is(f, last)}
<1>1. ReorderMoves(p, prev, cand) = CHOOSE f : Is(f, Len(cand))
  BY DEF ReorderMoves, Movement
<1> HIDE DEF With
<1>2. 0 \in S
  <2>1. Is([n \in 0..0 |-> <<>>], 0)
    OBVIOUS
  <2>2. QED
    BY <2>1
<1>3. ASSUME NEW last \in Nat, last \in S
      PROVE  last + 1 \in S
  <2>1. PICK f : Is(f, last)
    BY <1>3
  <2> DEFINE g == [n \in 0..last + 1 |-> IF n = last + 1 THEN With(f[last], last + 1) ELSE f[n]]
  <2>2. ASSUME NEW n \in 0..last + 1
        PROVE  g[n] = IF n = 0 THEN <<>> ELSE With(g[n - 1], n)
    <3>1. CASE n = 0
      BY <2>1, <3>1
    <3>2. CASE n \in 1..last
      <4>1. g[n] = f[n] /\ g[n - 1] = f[n - 1]
        BY <3>2
      <4>2. f[n] = With(f[n - 1], n)
        BY <2>1, <3>2
      <4>3. QED
        BY <3>2, <4>1, <4>2
    <3>3. CASE n = last + 1
      <4>1. g[n] = With(f[last], n) /\ g[n - 1] = f[last]
        BY <3>3
      <4>2. QED
        BY <3>3, <4>1
    <3>4. QED
      BY <3>1, <3>2, <3>3
  <2>3. Is(g, last + 1)
    <3>1. g = [n \in 0..last + 1 |-> g[n]]
      OBVIOUS
    <3> HIDE DEF g
    <3>2. QED
      BY <2>2, <3>1
  <2> HIDE DEF g
  <2>4. QED
    BY <2>3
<1>4. Nat \subseteq S
  <2> HIDE DEF S
  <2>1. QED
    BY <1>2, <1>3, NatSetInduction
<1>5. Len(cand) \in S
  BY <1>4
<1>6. Is(ReorderMoves(p, prev, cand), Len(cand))
  <2> HIDE DEF Is
  <2>1. QED
    BY <1>1, <1>5
<1> DEFINE moves == ReorderMoves(p, prev, cand)
<1>7. moves[0] = <<>> /\ \A n \in 1..Len(cand) : moves[n] = With(moves[n - 1], n)
  <2> HIDE DEF moves
  <2>1. Is(moves, Len(cand))
    BY <1>6 DEF moves
  <2>2. QED
    BY <2>1
<1>8. QED
  BY <1>7 DEF With

\* A host that takes the movement of the next target has the children of the next places.
ServesNext(h, p, n, target, i, id, live) ==
  \E next :
    /\ Placed(n, target, i + 1, next)
    /\ live = i + 1 => Children(h, p) = [k \in 1..n |-> id[next[k]]]
    /\ live # i + 1 =>
         ApplyMutation(h, MoveChild(p, id[target[i + 1]], live - 1, i)) =
           Done(WithChildren(h, p, [k \in 1..n |-> id[next[k]]]))

\* One target of a reorder: the planned movement, if any, is what the host takes.
LEMMA NextTargetServed ==
  ASSUME NEW n \in Nat, NEW target, Permutes(n, target), NEW i \in 0..n - 1,
         NEW places, Placed(n, target, i, places),
         NEW h, Typed(h), NEW p \in DOMAIN h.nodes,
         NEW id, Len(Children(h, p)) = n, \A k \in 1..n : Children(h, p)[k] = id[places[k]],
         NEW live, live = i + 1 + Cardinality((1..target[i + 1] - 1) \ {target[k] : k \in 1..i})
  PROVE  ServesNext(h, p, n, target, i, id, live)
<1>1. places \in [1..n -> 1..n] /\ \A x \in 1..n : \E k \in 1..n : places[k] = x
  BY DEF Placed
<1>2. target[i + 1] \in 1..n
  <2>1. i + 1 \in 1..n
    OBVIOUS
  <2>2. QED
    BY <2>1 DEF Permutes
<1>3. PICK q \in 1..n : places[q] = target[i + 1]
  BY <1>1, <1>2
<1>4. /\ n \in Nat /\ Permutes(n, target) /\ i \in 0..n - 1 /\ Placed(n, target, i, places)
      /\ q \in 1..n /\ places[q] = target[i + 1]
  BY <1>3
<1>5. Cardinality((1..target[i + 1] - 1) \ {target[k] : k \in 1..i}) = q - (i + 1)
  BY ONLY <1>4, WaitingBefore
<1>6. live = q
  BY <1>5
<1> DEFINE next == [k \in 1..n |-> places[MovedFrom(q, i + 1, k)]]
           list == [k \in 1..n |-> id[next[k]]]
<1>7. Placed(n, target, i + 1, next)
  BY ONLY <1>4, NextPlaced
<1>8. i + 1 \in 1..n /\ \A k \in 1..n : MovedFrom(q, i + 1, k) \in 1..n
  BY DEF MovedFrom
<1>9. \A k \in 1..n : list[k] = Children(h, p)[MovedFrom(q, i + 1, k)]
  BY <1>8
<1>10. live = i + 1 => Children(h, p) = list
  <2> SUFFICES ASSUME live = i + 1
               PROVE  Children(h, p) = list
    OBVIOUS
  <2>1. \A k \in 1..n : MovedFrom(q, i + 1, k) = k
    BY <1>6 DEF MovedFrom
  <2>2. Children(h, p) \in Seq(NodeId)
    BY NodeFacts
  <2>3. Children(h, p) = [k \in 1..n |-> Children(h, p)[k]]
    BY <2>2
  <2>4. \A k \in 1..n : Children(h, p)[k] = list[k]
    BY <2>1
  <2>5. QED
    BY <2>3, <2>4
<1>11. ApplyMutation(h, MoveChild(p, id[target[i + 1]], live - 1, i)) =
         Done(WithChildren(h, p, list))
  <2>1. Children(h, p) \in Seq(NodeId)
    BY NodeFacts
  <2>2. Len(Children(h, p)) = n
    OBVIOUS
  <2>3. \A k \in 1..n : list[k] \in NodeId
    BY <1>8, <1>9, <2>1, <2>2
  <2>4. list \in Seq(NodeId) /\ Len(list) = n
    BY <2>3
  <2>5. Children(h, p)[q] = id[target[i + 1]] /\ (i + 1) - 1 = i
    BY <1>3
  <2> HIDE DEF list
  <2>6. /\ Typed(h) /\ p \in DOMAIN h.nodes
        /\ q \in 1..Len(Children(h, p)) /\ i + 1 \in 1..Len(Children(h, p))
        /\ list \in Seq(NodeId) /\ Len(list) = Len(Children(h, p))
        /\ \A k \in 1..Len(list) : list[k] = Children(h, p)[MovedFrom(q, i + 1, k)]
    BY <1>8, <1>9, <2>2, <2>4
  <2>7. ApplyMutation(h, MoveChild(p, Children(h, p)[q], q - 1, (i + 1) - 1)) =
          Done(WithChildren(h, p, list))
    BY ONLY <2>6, MoveDone
  <2>8. QED
    BY <1>6, <2>5, <2>7
<1> HIDE DEF next
<1>12. QED
  BY <1>7, <1>10, <1>11 DEF ServesNext

\* Every candidate child continues one previous child, and no two the same.
LEMMA ReorderPermutes ==
  ASSUME NEW S, NEW T, NEW prev \in Seq(S), NEW cand \in Seq(T), Len(prev) = Len(cand),
         IsReorder(prev, cand)
  PROVE  /\ Permutes(Len(cand), [k \in 1..Len(cand) |-> PreviousIndex(prev, cand[k])])
         /\ \A k \in 1..Len(cand) : Compatible(prev[PreviousIndex(prev, cand[k])], cand[k])
<1> DEFINE old(k) == PreviousIndex(prev, cand[k])
<1>1. ASSUME NEW k \in 1..Len(cand)
      PROVE  old(k) \in 1..Len(cand) /\ Compatible(prev[old(k)], cand[k])
  <2>1. PICK j \in 1..Len(cand) : Compatible(prev[j], cand[k])
    BY DEF IsReorder
  <2>2. \E x \in DOMAIN prev : prev[x].key = cand[k].key
    BY <2>1 DEF Compatible
  <2>3. old(k) \in 1..Len(cand) /\ prev[old(k)].key = cand[k].key
    BY <2>2 DEF PreviousIndex
  <2>4. \A x, y \in 1..Len(cand) : prev[x].key = prev[y].key => x = y
    <3>1. IsInjective(Keys(prev)) /\ DOMAIN Keys(prev) = 1..Len(cand)
          /\ \A x \in 1..Len(cand) : Keys(prev)[x] = prev[x].key
      BY DEF IsReorder, Keys
    <3> QED
      BY <3>1 DEF IsInjective
  <2>5. old(k) = j
    BY <2>1, <2>3, <2>4 DEF Compatible
  <2>6. QED
    BY <2>1, <2>5
<1>2. \A x, y \in 1..Len(cand) : cand[x].key = cand[y].key => x = y
  <2>1. IsInjective(Keys(cand)) /\ DOMAIN Keys(cand) = 1..Len(cand)
        /\ \A x \in 1..Len(cand) : Keys(cand)[x] = cand[x].key
    BY DEF IsReorder, Keys
  <2> QED
    BY <2>1 DEF IsInjective
<1> HIDE DEF old
<1>3. ASSUME NEW x \in 1..Len(cand), NEW y \in 1..Len(cand), old(x) = old(y)
      PROVE  x = y
  BY <1>1, <1>2, <1>3 DEF Compatible
<1> DEFINE target == [k \in 1..Len(cand) |-> old(k)]
<1>4. target \in [1..Len(cand) -> 1..Len(cand)]
  BY <1>1
<1>5. \A x, y \in 1..Len(cand) : target[x] = target[y] => x = y
  BY <1>3
<1> HIDE DEF target
<1>6. Permutes(Len(cand), target)
  BY <1>4, <1>5 DEF Permutes
<1>7. QED
  BY <1>1, <1>6 DEF target, old

\* The movements up to target `i` leave the children where those targets are served.
TargetsServed(h, p, n, target, id, i, moves) ==
  \E places :
    /\ Placed(n, target, i, places)
    /\ ApplyAll(h, moves) = Done(WithChildren(h, p, [k \in 1..n |-> id[places[k]]]))

\* The movements for one more target.
LEMMA OneMoreTarget ==
  ASSUME NEW S, NEW T, NEW prev \in Seq(S), NEW cand \in Seq(T), Len(prev) = Len(cand),
         NEW n, n = Len(cand),
         NEW target, target = [k \in 1..n |-> PreviousIndex(prev, cand[k])],
         Permutes(n, target),
         NEW id, id = [k \in 1..n |-> prev[k].node_id],
         NEW h, Typed(h), NEW p \in DOMAIN h.nodes,
         Children(h, p) = id,
         NEW i \in 0..n - 1, NEW M, NEW moves \in Seq(M),
         Movement(p, prev, cand, i + 1) \in Seq(M),
         TargetsServed(h, p, n, target, id, i, moves)
  PROVE  TargetsServed(h, p, n, target, id, i + 1, moves \o Movement(p, prev, cand, i + 1))
<1>0. PICK places :
        /\ Placed(n, target, i, places)
        /\ ApplyAll(h, moves) = Done(WithChildren(h, p, [k \in 1..n |-> id[places[k]]]))
  BY DEF TargetsServed
<1> DEFINE t == i + 1
           live == LivePosition(prev, cand, t)
           list == [k \in 1..n |-> id[places[k]]]
           g == WithChildren(h, p, list)
           m == MoveChild(p, id[target[t]], live - 1, i)
<1>1. n \in Nat /\ t \in 1..n /\ t - 1 = i
  OBVIOUS
<1>2. live = t + Cardinality((1..target[t] - 1) \ {target[k] : k \in 1..i})
  <2>1. target[t] = PreviousIndex(prev, cand[t])
    BY <1>1
  <2>2. {target[k] : k \in 1..i} = {PreviousIndex(prev, cand[k]) : k \in 1..t - 1}
    <3>1. \A k \in 1..i : target[k] = PreviousIndex(prev, cand[k])
      BY <1>1
    <3>2. 1..t - 1 = 1..i
      BY <1>1
    <3>3. QED
      BY ONLY <3>1, <3>2
  <2>3. QED
    BY <2>1, <2>2 DEF LivePosition
<1>3. Movement(p, prev, cand, t) = IF live = t THEN <<>> ELSE <<m>>
  <2>1. target[t] = PreviousIndex(prev, cand[t]) /\ target[t] \in 1..n
    BY <1>1 DEF Permutes
  <2>2. id[target[t]] = prev[PreviousIndex(prev, cand[t])].node_id
    BY <2>1
  <2>3. QED
    BY <1>1, <2>2 DEF Movement
<1>4. list \in Seq(NodeId)
  <2>1. \A k \in 1..n : places[k] \in 1..n
    BY <1>0 DEF Placed
  <2>2. id \in Seq(NodeId) /\ Len(id) = n
    <3>1. id \in Seq(NodeId)
      BY NodeFacts
    <3>2. DOMAIN id = 1..n
      OBVIOUS
    <3>3. QED
      BY ONLY <1>1, <3>1, <3>2
  <2>3. \A k \in 1..n : list[k] \in NodeId
    BY <2>1, <2>2
  <2>4. QED
    BY <1>1, <2>3
<1> HIDE DEF live
<1>5. Typed(g) /\ p \in DOMAIN g.nodes /\ Children(g, p) = list
  <2> HIDE DEF list
  <2>1. Typed(h) /\ p \in DOMAIN h.nodes /\ list \in Seq(NodeId)
    BY <1>4
  <2>2. QED
    BY ONLY <2>1, WithChildrenNodes DEF g
<1>6. \A one : WithChildren(g, p, one) = WithChildren(h, p, one)
  BY WithChildrenTwice
<1> HIDE DEF g
<1>7. PICK next :
        /\ Placed(n, target, i + 1, next)
        /\ live = i + 1 => Children(g, p) = [k \in 1..n |-> id[next[k]]]
        /\ live # i + 1 =>
             ApplyMutation(g, MoveChild(p, id[target[i + 1]], live - 1, i)) =
               Done(WithChildren(g, p, [k \in 1..n |-> id[next[k]]]))
  <2>1. /\ n \in Nat /\ Permutes(n, target) /\ i \in 0..n - 1 /\ Placed(n, target, i, places)
        /\ Typed(g) /\ p \in DOMAIN g.nodes /\ Len(Children(g, p)) = n
        /\ \A k \in 1..n : Children(g, p)[k] = id[places[k]]
        /\ live = i + 1 + Cardinality((1..target[i + 1] - 1) \ {target[k] : k \in 1..i})
    BY <1>0, <1>1, <1>2, <1>5
  <2>2. ServesNext(g, p, n, target, i, id, live)
    BY ONLY <2>1, NextTargetServed
  <2>3. QED
    BY <2>2 DEF ServesNext
<1> DEFINE after == [k \in 1..n |-> id[next[k]]]
<1>8. ApplyAll(h, moves) = Done(g)
  BY <1>0 DEF g
<1>9. CASE live = t
  <2>1. after = list
    BY <1>5, <1>7, <1>9
  <2>2. moves \o Movement(p, prev, cand, t) = moves
    <3>1. Movement(p, prev, cand, t) = <<>>
      BY <1>3, <1>9
    <3>2. moves \o <<>> = moves
      OBVIOUS
    <3>3. QED
      BY <3>1, <3>2
  <2>3. ApplyAll(h, moves \o Movement(p, prev, cand, i + 1)) = Done(WithChildren(h, p, after))
    BY <1>8, <2>1, <2>2 DEF g
  <2>4. QED
    BY <1>7, <2>3 DEF TargetsServed
<1>10. CASE live # t
  <2>1. Movement(p, prev, cand, t) = <<m>> /\ m \in M
    <3>1. Movement(p, prev, cand, t) = <<m>>
      BY <1>3, <1>10
    <3> HIDE DEF m
    <3>2. <<m>> \in Seq(M)
      BY <3>1
    <3>3. <<m>>[1] \in M
      BY ONLY <3>2
    <3>4. QED
      BY <3>1, <3>3
  <2>2. ApplyAll(h, moves).error = "none" /\ ApplyAll(h, moves).host = g
    BY <1>8 DEF Done
  <2>3. ApplyMutation(g, m) = Done(WithChildren(g, p, after))
    BY <1>7, <1>10
  <2> HIDE DEF m, after
  <2>4. ApplyAll(h, moves \o <<m>>) = ApplyMutation(ApplyAll(h, moves).host, m)
    BY <2>1, <2>2, OneMoreMutation
  <2>5. ApplyAll(h, moves \o Movement(p, prev, cand, i + 1)) = Done(WithChildren(h, p, after))
    BY <1>6, <2>1, <2>2, <2>3, <2>4
  <2>6. QED
    BY <1>7, <2>5 DEF after, TargetsServed
<1>11. QED
  BY <1>9, <1>10

\* A keyed reorder, of however many children: the movements that plan_keyed_reorder counts out
\* with its FenwickTree are each accepted where the host then is, and together give the
\* children in the order of the candidate; nothing else in the host changes.
THEOREM ReorderRealised ==
  ASSUME NEW S, NEW T, NEW prev \in Seq(S), NEW cand \in Seq(T), Len(prev) = Len(cand),
         IsReorder(prev, cand),
         NEW h, Typed(h), NEW p \in DOMAIN h.nodes,
         Children(h, p) = [k \in 1..Len(prev) |-> prev[k].node_id]
  PROVE  LET old(k) == PreviousIndex(prev, cand[k])
         IN  /\ ApplyAll(h, ReorderMoves(p, prev, cand)[Len(cand)]) =
                  Done(WithChildren(h, p, [k \in 1..Len(prev) |-> prev[old(k)].node_id]))
             /\ \A k \in 1..Len(prev) : Compatible(prev[old(k)], cand[k])
<1> DEFINE n == Len(cand)
           target == [k \in 1..n |-> PreviousIndex(prev, cand[k])]
           id == [k \in 1..n |-> prev[k].node_id]
           moves == ReorderMoves(p, prev, cand)
           M == UNION {Range(Movement(p, prev, cand, k)) : k \in 1..n}
           Host(places) == WithChildren(h, p, [k \in 1..n |-> id[places[k]]])
           Reached(i) == moves[i] \in Seq(M) /\ TargetsServed(h, p, n, target, id, i, moves[i])
           U == {i \in Nat : i <= n => Reached(i)}
<1>1. /\ Permutes(n, target)
      /\ \A k \in 1..n : Compatible(prev[PreviousIndex(prev, cand[k])], cand[k])
  BY ReorderPermutes
<1>2. /\ moves[0] = <<>>
      /\ \A k \in 1..n : moves[k] = moves[k - 1] \o Movement(p, prev, cand, k)
  BY ReorderMovesValues
<1>3. \A k \in 1..n : Movement(p, prev, cand, k) \in Seq(M)
  <2> SUFFICES ASSUME NEW k \in 1..n
               PROVE  Movement(p, prev, cand, k) \in Seq(M)
    OBVIOUS
  <2>1. Range(Movement(p, prev, cand, k)) \subseteq M
    OBVIOUS
  <2> HIDE DEF M
  <2>2. \/ Movement(p, prev, cand, k) = <<>>
        \/ \E m : Movement(p, prev, cand, k) = <<m>>
    BY DEF Movement
  <2>3. CASE Movement(p, prev, cand, k) = <<>>
    BY <2>3
  <2>4. ASSUME NEW m, Movement(p, prev, cand, k) = <<m>>
        PROVE  Movement(p, prev, cand, k) \in Seq(M)
    <3>1. m \in M
      BY <2>1, <2>4 DEF Range
    <3>2. <<m>> \in Seq(M)
      BY <3>1
    <3>3. QED
      BY <2>4, <3>2
  <2>5. QED
    BY <2>2, <2>3, <2>4
<1>4. n \in Nat /\ Len(prev) = n /\ Children(h, p) = id
  OBVIOUS
<1> HIDE DEF n, moves, M
<1>5. 0 \in U
  <2> DEFINE places == [k \in 1..n |-> k]
  <2>1. Placed(n, target, 0, places)
    <3>1. places \in [1..n -> 1..n] /\ \A k \in 1..n : places[k] = k
      OBVIOUS
    <3> HIDE DEF places
    <3>2. QED
      BY <1>4, <3>1 DEF Placed
  <2>2. [k \in 1..n |-> id[places[k]]] = id
    OBVIOUS
  <2>3. Host(places) = h
    <3>1. WithChildren(h, p, Children(h, p)) = h
      BY WithSameChildren
    <3>2. QED
      BY <1>4, <2>2, <3>1
  <2>4. moves[0] \in Seq(M) /\ Len(moves[0]) = 0
    BY <1>2
  <2>5. ApplyAll(h, moves[0]) = Done(h)
    BY <2>4, AfterEachValues DEF ApplyAll
  <2>6. TargetsServed(h, p, n, target, id, 0, moves[0])
    <3>1. ApplyAll(h, moves[0]) = Done(Host(places))
      BY <2>3, <2>5
    <3> HIDE DEF places
    <3>2. QED
      BY <2>1, <3>1 DEF TargetsServed
  <2>7. QED
    BY <2>4, <2>6
<1>6. ASSUME NEW i \in Nat, i \in U
      PROVE  i + 1 \in U
  <2> HIDE DEF Reached
  <2> SUFFICES ASSUME i + 1 <= n
               PROVE  Reached(i + 1)
    OBVIOUS
  <2>1. Reached(i)
    BY <1>4, <1>6
  <2>2. moves[i] \in Seq(M) /\ TargetsServed(h, p, n, target, id, i, moves[i])
    BY <2>1 DEF Reached
  <2>3. i \in 0..n - 1 /\ i + 1 \in 1..n /\ (i + 1) - 1 = i
    BY <1>4
  <2>4. moves[i + 1] = moves[i] \o Movement(p, prev, cand, i + 1)
    BY <1>2, <2>3
  <2>5. Movement(p, prev, cand, i + 1) \in Seq(M)
    BY <1>3, <2>3
  <2>6. moves[i + 1] \in Seq(M)
    BY <2>2, <2>4, <2>5
  <2>7. /\ prev \in Seq(S) /\ cand \in Seq(T) /\ Len(prev) = Len(cand) /\ n = Len(cand)
        /\ target = [k \in 1..n |-> PreviousIndex(prev, cand[k])] /\ Permutes(n, target)
        /\ id = [k \in 1..n |-> prev[k].node_id]
        /\ Typed(h) /\ p \in DOMAIN h.nodes /\ Children(h, p) = id
    BY <1>1, <1>4 DEF n
  <2> HIDE DEF target, id
  <2>8. TargetsServed(h, p, n, target, id, i + 1, moves[i] \o Movement(p, prev, cand, i + 1))
    BY ONLY <2>2, <2>3, <2>5, <2>7, OneMoreTarget
  <2>9. QED
    BY <2>4, <2>6, <2>8 DEF Reached
<1>7. Nat \subseteq U
  <2> HIDE DEF U
  <2>1. QED
    BY <1>5, <1>6, NatSetInduction
<1>8. Reached(n)
  <2> HIDE DEF Reached
  <2>1. n \in U
    <3> HIDE DEF U
    <3>1. QED
      BY <1>4, <1>7
  <2>2. QED
    BY <1>4, <2>1
<1>9. PICK places : Placed(n, target, n, places) /\ ApplyAll(h, moves[n]) = Done(Host(places))
  BY <1>8 DEF TargetsServed
<1>10. \A k \in 1..n : places[k] = target[k] /\ target[k] \in 1..n
  BY <1>1, <1>9 DEF Placed, Permutes
<1>11. [k \in 1..n |-> id[places[k]]] =
         [k \in 1..n |-> prev[PreviousIndex(prev, cand[k])].node_id]
  <2>1. \A k \in 1..n : id[places[k]] = prev[PreviousIndex(prev, cand[k])].node_id
    BY <1>10
  <2>2. QED
    BY <2>1
<1>12. QED
  BY <1>1, <1>4, <1>9, <1>11 DEF n, moves

-----------------------------------------------------------------------------
(* Insertions and removals: the greedy match of the longer list. *)

LEMMA GreedyUseValues ==
  ASSUME NEW longer, NEW shorter, Len(longer) \in Nat
  PROVE  LET used == GreedyUse(longer, shorter)
         IN  /\ used[0] = 0
             /\ \A i \in 1..Len(longer) :
                  used[i] = IF /\ used[i - 1] < Len(shorter)
                               /\ Compatible(shorter[used[i - 1] + 1], longer[i])
                            THEN used[i - 1] + 1 ELSE used[i - 1]
<1> DEFINE With(before, i) ==
             IF before < Len(shorter) /\ Compatible(shorter[before + 1], longer[i])
             THEN before + 1 ELSE before
           Is(f, last) == f = [i \in 0..last |-> IF i = 0 THEN 0 ELSE With(f[i - 1], i)]
           S == {last \in Nat : \E f : Is(f, last)}
<1>1. GreedyUse(longer, shorter) = CHOOSE f : Is(f, Len(longer))
  BY DEF GreedyUse
<1> HIDE DEF With
<1>2. 0 \in S
  <2>1. Is([i \in 0..0 |-> 0], 0)
    OBVIOUS
  <2>2. QED
    BY <2>1
<1>3. ASSUME NEW last \in Nat, last \in S
      PROVE  last + 1 \in S
  <2>1. PICK f : Is(f, last)
    BY <1>3
  <2> DEFINE g == [i \in 0..last + 1 |-> IF i = last + 1 THEN With(f[last], last + 1) ELSE f[i]]
  <2>2. ASSUME NEW i \in 0..last + 1
        PROVE  g[i] = IF i = 0 THEN 0 ELSE With(g[i - 1], i)
    <3>1. CASE i = 0
      BY <2>1, <3>1
    <3>2. CASE i \in 1..last
      <4>1. g[i] = f[i] /\ g[i - 1] = f[i - 1]
        BY <3>2
      <4>2. f[i] = With(f[i - 1], i)
        BY <2>1, <3>2
      <4>3. QED
        BY <3>2, <4>1, <4>2
    <3>3. CASE i = last + 1
      <4>1. g[i] = With(f[last], i) /\ g[i - 1] = f[last]
        BY <3>3
      <4>2. QED
        BY <3>3, <4>1
    <3>4. QED
      BY <3>1, <3>2, <3>3
  <2>3. Is(g, last + 1)
    <3>1. g = [i \in 0..last + 1 |-> g[i]]
      OBVIOUS
    <3> HIDE DEF g
    <3>2. QED
      BY <2>2, <3>1
  <2> HIDE DEF g
  <2>4. QED
    BY <2>3
<1>4. Nat \subseteq S
  <2> HIDE DEF S
  <2>1. QED
    BY <1>2, <1>3, NatSetInduction
<1>5. Len(longer) \in S
  BY <1>4
<1>6. Is(GreedyUse(longer, shorter), Len(longer))
  <2> HIDE DEF Is
  <2>1. QED
    BY <1>1, <1>5
<1> DEFINE used == GreedyUse(longer, shorter)
<1>7. used[0] = 0 /\ \A i \in 1..Len(longer) : used[i] = With(used[i - 1], i)
  <2> HIDE DEF used
  <2>1. Is(used, Len(longer))
    BY <1>6 DEF used
  <2>2. QED
    BY <2>1
<1>8. QED
  BY <1>7 DEF With

\* How much is used only grows, by one node at a time.
LEMMA GreedyUseGrows ==
  ASSUME NEW S, NEW T, NEW longer \in Seq(S), NEW shorter \in Seq(T)
  PROVE  LET used == GreedyUse(longer, shorter)
         IN  /\ \A i \in 0..Len(longer) : used[i] \in 0..Len(shorter)
             /\ \A i, j \in 0..Len(longer) : i <= j => used[i] <= used[j]
<1> DEFINE used == GreedyUse(longer, shorter)
           n == Len(longer)
           m == Len(shorter)
           U == {j \in Nat : j <= n => /\ used[j] \in 0..m
                                       /\ \A i \in 0..j : used[i] \in 0..m /\ used[i] <= used[j]}
<1>1. n \in Nat /\ m \in Nat
  OBVIOUS
<1>2. /\ used[0] = 0
      /\ \A i \in 1..n :
           used[i] = IF used[i - 1] < m /\ Compatible(shorter[used[i - 1] + 1], longer[i])
                     THEN used[i - 1] + 1 ELSE used[i - 1]
  BY GreedyUseValues
<1> HIDE DEF used, n, m
<1>3. 0 \in U
  BY <1>1, <1>2
<1>4. ASSUME NEW j \in Nat, j \in U
      PROVE  j + 1 \in U
  <2> SUFFICES ASSUME j + 1 <= n
               PROVE  /\ used[j + 1] \in 0..m
                      /\ \A i \in 0..j + 1 : used[i] \in 0..m /\ used[i] <= used[j + 1]
    OBVIOUS
  <2>1. used[j] \in 0..m /\ \A i \in 0..j : used[i] \in 0..m /\ used[i] <= used[j]
    BY <1>1, <1>4
  <2>2. j + 1 \in 1..n /\ (j + 1) - 1 = j
    BY <1>1
  <2>3. used[j + 1] = used[j] \/ (used[j] < m /\ used[j + 1] = used[j] + 1)
    <3>1. used[j + 1] =
            IF used[(j + 1) - 1] < m /\ Compatible(shorter[used[(j + 1) - 1] + 1], longer[j + 1])
            THEN used[(j + 1) - 1] + 1 ELSE used[(j + 1) - 1]
      BY <1>2, <2>2
    <3>2. QED
      BY <2>2, <3>1
  <2>4. used[j + 1] \in 0..m /\ used[j] <= used[j + 1]
    BY <1>1, <2>1, <2>3
  <2>5. \A i \in 0..j + 1 : i \in 0..j \/ i = j + 1
    OBVIOUS
  <2>6. QED
    BY <1>1, <2>1, <2>4, <2>5
<1>5. Nat \subseteq U
  <2> HIDE DEF U
  <2>1. QED
    BY <1>3, <1>4, NatSetInduction
<1>6. \A j \in 0..n : used[j] \in 0..m /\ \A i \in 0..j : used[i] <= used[j]
  <2> SUFFICES ASSUME NEW j \in 0..n
               PROVE  used[j] \in 0..m /\ \A i \in 0..j : used[i] <= used[j]
    OBVIOUS
  <2>1. j \in Nat /\ j <= n
    BY <1>1
  <2>2. j \in U
    BY <1>5, <2>1
  <2>3. QED
    BY <2>1, <2>2
<1>7. \A i, j \in 0..n : i <= j => i \in 0..j
  BY <1>1
<1>8. QED
  BY <1>6, <1>7 DEF used, n, m

\* An embedding of the shorter list in the longer one, which keeps the order.
Embeds(e, longer, shorter) ==
  /\ e \in [1..Len(shorter) -> 1..Len(longer)]
  /\ \A j, k \in 1..Len(shorter) : j < k => e[j] < e[k]
  /\ \A j \in 1..Len(shorter) : Compatible(shorter[j], longer[e[j]])

\* Being greedy misses nothing: what can be embedded is used up.
LEMMA GreedyUseComplete ==
  ASSUME NEW S, NEW T, NEW longer \in Seq(S), NEW shorter \in Seq(T),
         NEW e, Embeds(e, longer, shorter)
  PROVE  GreedyUse(longer, shorter)[Len(longer)] = Len(shorter)
<1> DEFINE used == GreedyUse(longer, shorter)
           n == Len(longer)
           m == Len(shorter)
           U == {i \in Nat : i <= n => \A j \in 1..m : e[j] <= i => used[i] >= j}
<1>1. n \in Nat /\ m \in Nat
  OBVIOUS
<1>2. /\ used[0] = 0
      /\ \A i \in 1..n :
           used[i] = IF used[i - 1] < m /\ Compatible(shorter[used[i - 1] + 1], longer[i])
                     THEN used[i - 1] + 1 ELSE used[i - 1]
  BY GreedyUseValues
<1>3. /\ \A i \in 0..n : used[i] \in 0..m
      /\ \A i, j \in 0..n : i <= j => used[i] <= used[j]
  BY GreedyUseGrows
<1>4. /\ \A j \in 1..m : e[j] \in 1..n
      /\ \A j, k \in 1..m : j < k => e[j] < e[k]
      /\ \A j \in 1..m : Compatible(shorter[j], longer[e[j]])
  BY DEF Embeds
<1> HIDE DEF used, n, m
<1>5. 0 \in U
  BY <1>1, <1>4
<1>6. ASSUME NEW i \in Nat, i \in U
      PROVE  i + 1 \in U
  <2> SUFFICES ASSUME i + 1 <= n, NEW j \in 1..m, e[j] <= i + 1
               PROVE  used[i + 1] >= j
    OBVIOUS
  <2>1. \A k \in 1..m : e[k] <= i => used[i] >= k
    BY <1>1, <1>6
  <2>2. i \in 0..n /\ i + 1 \in 0..n /\ i + 1 \in 1..n /\ (i + 1) - 1 = i
    BY <1>1
  <2>3. used[i] \in 0..m /\ used[i + 1] \in 0..m /\ used[i] <= used[i + 1]
    BY <1>3, <2>2
  <2>4. CASE e[j] <= i
    BY <1>1, <2>1, <2>3, <2>4
  <2>5. CASE e[j] = i + 1
    <3>1. used[i] >= j - 1
      <4>1. CASE j = 1
        BY <2>3, <4>1
      <4>2. CASE j # 1
        <5>1. j - 1 \in 1..m /\ j - 1 < j
          BY <1>1, <4>2
        <5>2. e[j - 1] < e[j] /\ e[j - 1] \in 1..n
          BY <1>4, <5>1
        <5>3. e[j - 1] <= i
          BY <2>5, <5>2
        <5>4. QED
          BY <2>1, <5>1, <5>3
      <4>3. QED
        BY <4>1, <4>2
    <3>2. CASE used[i] >= j
      BY <1>1, <2>3, <3>2
    <3>3. CASE used[i] = j - 1
      <4>1. used[i] < m /\ used[i] + 1 = j
        BY <1>1, <3>3
      <4>2. Compatible(shorter[j], longer[i + 1])
        BY <1>4, <2>5
      <4>3. used[i + 1] = used[i] + 1
        BY <1>2, <2>2, <4>1, <4>2
      <4>4. QED
        BY <1>1, <4>1, <4>3
    <3>4. QED
      BY <1>1, <2>3, <3>1, <3>2, <3>3
  <2>6. QED
    BY <1>4, <2>4, <2>5
<1>7. Nat \subseteq U
  <2> HIDE DEF U
  <2>1. QED
    BY <1>5, <1>6, NatSetInduction
<1>8. \A j \in 1..m : e[j] <= n => used[n] >= j
  <2>1. n \in U
    <3> HIDE DEF U
    <3>1. QED
      BY <1>1, <1>7
  <2>2. QED
    BY <1>1, <2>1
<1>9. used[n] \in 0..m
  BY <1>1, <1>3
<1>10. used[n] = m
  <2>1. CASE m = 0
    BY <1>9, <2>1
  <2>2. CASE m # 0
    <3>1. m \in 1..m
      BY <1>1, <2>2
    <3>2. e[m] <= n
      BY <1>1, <1>4, <3>1
    <3>3. QED
      BY <1>1, <1>8, <1>9, <3>1, <3>2
  <2>3. QED
    BY <2>1, <2>2
<1>11. QED
  BY <1>10 DEF used, n, m

\* What is matched is compatible and in order, and nothing is used without a match.
LEMMA GreedyMatchOrdered ==
  ASSUME NEW S, NEW T, NEW longer \in Seq(S), NEW shorter \in Seq(T)
  PROVE  LET match == GreedyMatch(longer, shorter)
         IN  /\ \A i \in 1..Len(longer) : match[i] # 0 =>
                  match[i] \in 1..Len(shorter) /\ Compatible(shorter[match[i]], longer[i])
             /\ \A i, j \in 1..Len(longer) :
                  i < j /\ match[i] # 0 /\ match[j] # 0 => match[i] < match[j]
             /\ \A j \in 1..GreedyUse(longer, shorter)[Len(longer)] :
                  \E i \in 1..Len(longer) : match[i] = j
<1> DEFINE used == GreedyUse(longer, shorter)
           match == GreedyMatch(longer, shorter)
           n == Len(longer)
           m == Len(shorter)
           U == {i \in Nat : i <= n => \A j \in 1..used[i] : \E k \in 1..i : match[k] = j}
<1>1. n \in Nat /\ m \in Nat
  OBVIOUS
<1>2. /\ used[0] = 0
      /\ \A i \in 1..n :
           used[i] = IF used[i - 1] < m /\ Compatible(shorter[used[i - 1] + 1], longer[i])
                     THEN used[i - 1] + 1 ELSE used[i - 1]
  BY GreedyUseValues
<1>3. /\ \A i \in 0..n : used[i] \in 0..m
      /\ \A i, j \in 0..n : i <= j => used[i] <= used[j]
  BY GreedyUseGrows
<1>4. \A i \in 1..n : match[i] = IF used[i] = used[i - 1] THEN 0 ELSE used[i]
  BY DEF GreedyMatch
<1> HIDE DEF used, match, n, m
<1>5. ASSUME NEW i \in 1..n, match[i] # 0
      PROVE  /\ match[i] = used[i] /\ match[i] = used[i - 1] + 1 /\ match[i] \in 1..m
             /\ Compatible(shorter[match[i]], longer[i])
  <2>1. match[i] = used[i] /\ used[i] # used[i - 1]
    BY <1>4, <1>5
  <2>2. used[i] = used[i - 1] + 1 /\ used[i - 1] < m
        /\ Compatible(shorter[used[i - 1] + 1], longer[i])
    BY <1>2, <2>1
  <2>3. i - 1 \in 0..n
    BY <1>1
  <2>4. used[i - 1] \in 0..m
    BY <1>3, <2>3
  <2>5. used[i - 1] + 1 \in 1..m
    BY <1>1, <2>2, <2>4
  <2>6. QED
    BY <2>1, <2>2, <2>5
<1>6. ASSUME NEW i \in 1..n, NEW j \in 1..n, i < j, match[i] # 0, match[j] # 0
      PROVE  match[i] < match[j]
  <2>1. i \in 0..n /\ j - 1 \in 0..n /\ i <= j - 1
    BY <1>1, <1>6
  <2>2. used[i] <= used[j - 1] /\ used[i] \in 0..m /\ used[j - 1] \in 0..m
    BY <1>3, <2>1
  <2>3. match[i] = used[i] /\ match[j] = used[j - 1] + 1
    BY <1>5, <1>6
  <2>4. QED
    BY <1>1, <2>2, <2>3
<1>7. 0 \in U
  BY <1>2
<1>8. ASSUME NEW i \in Nat, i \in U
      PROVE  i + 1 \in U
  <2> SUFFICES ASSUME i + 1 <= n, NEW j \in 1..used[i + 1]
               PROVE  \E k \in 1..i + 1 : match[k] = j
    OBVIOUS
  <2>1. \A l \in 1..used[i] : \E k \in 1..i : match[k] = l
    BY <1>1, <1>8
  <2>2. i \in 0..n /\ i + 1 \in 1..n /\ (i + 1) - 1 = i
    BY <1>1
  <2>3. used[i] \in 0..m
    BY <1>3, <2>2
  <2>4. CASE j \in 1..used[i]
    <3>1. PICK k \in 1..i : match[k] = j
      BY <2>1, <2>4
    <3>2. k \in 1..i + 1
      OBVIOUS
    <3>3. QED
      BY <3>1, <3>2
  <2>5. CASE j \notin 1..used[i]
    <3>1. match[i + 1] = IF used[i + 1] = used[i] THEN 0 ELSE used[i + 1]
      BY <1>4, <2>2
    <3>2. used[i + 1] = used[i] \/ used[i + 1] = used[i] + 1
      <4>1. used[i + 1] =
              IF used[(i + 1) - 1] < m
                 /\ Compatible(shorter[used[(i + 1) - 1] + 1], longer[i + 1])
              THEN used[(i + 1) - 1] + 1 ELSE used[(i + 1) - 1]
        BY <1>2, <2>2
      <4>2. QED
        BY <2>2, <4>1
    <3>3. used[i + 1] = used[i] + 1 /\ j = used[i + 1]
      BY <1>1, <2>3, <2>5, <3>2
    <3>4. match[i + 1] = j
      BY <1>1, <2>3, <3>1, <3>3
    <3>5. QED
      BY <3>4
  <2>6. QED
    BY <2>4, <2>5
<1>9. Nat \subseteq U
  <2> HIDE DEF U
  <2>1. QED
    BY <1>7, <1>8, NatSetInduction
<1>10. \A j \in 1..used[n] : \E k \in 1..n : match[k] = j
  <2>1. n \in U
    <3> HIDE DEF U
    <3>1. QED
      BY <1>1, <1>9
  <2>2. QED
    BY <1>1, <2>1
<1>11. QED
  BY <1>5, <1>6, <1>10 DEF used, match, n, m

\* plan_keyed_insertions and plan_keyed_removals accept a pair of keyed lists exactly when
\* the shorter one lies in the longer one in order: looking at each node only once, with
\* the next node only, refuses nothing that insertions or removals could have done.
THEOREM GreedyMatchExact ==
  ASSUME NEW S, NEW T, NEW longer \in Seq(S), NEW shorter \in Seq(T), Keyed(longer)
  PROVE  MatchesAll(longer, shorter) <=> \E e : Embeds(e, longer, shorter)
<1> DEFINE used == GreedyUse(longer, shorter)
           match == GreedyMatch(longer, shorter)
           n == Len(longer)
           m == Len(shorter)
<1>1. ASSUME NEW e, Embeds(e, longer, shorter)
      PROVE  MatchesAll(longer, shorter)
  <2>1. longer \in Seq(S) /\ shorter \in Seq(T) /\ Embeds(e, longer, shorter)
    BY <1>1
  <2>2. used[n] = m
    BY ONLY <2>1, GreedyUseComplete
  <2>3. QED
    BY <2>2 DEF MatchesAll
<1>2. ASSUME MatchesAll(longer, shorter)
      PROVE  \E e : Embeds(e, longer, shorter)
  <2>1. used[n] = m
    BY <1>2 DEF MatchesAll
  <2>2. /\ \A i \in 1..n : match[i] # 0 =>
             match[i] \in 1..m /\ Compatible(shorter[match[i]], longer[i])
        /\ \A i, j \in 1..n : i < j /\ match[i] # 0 /\ match[j] # 0 => match[i] < match[j]
        /\ \A j \in 1..used[n] : \E i \in 1..n : match[i] = j
    BY GreedyMatchOrdered
  <2>3. n \in Nat /\ m \in Nat
    OBVIOUS
  <2> HIDE DEF used, match, n, m
  <2> DEFINE e == [j \in 1..m |-> CHOOSE i \in 1..n : match[i] = j]
  <2>4. \A j \in 1..m : e[j] \in 1..n /\ match[e[j]] = j
    BY <2>1, <2>2
  <2>5. e \in [1..m -> 1..n]
    BY <2>4
  <2> HIDE DEF e
  <2>6. ASSUME NEW j \in 1..m, NEW k \in 1..m, j < k
        PROVE  e[j] < e[k]
    <3>1. e[j] \in 1..n /\ e[k] \in 1..n /\ match[e[j]] = j /\ match[e[k]] = k
      BY <2>4
    <3>2. e[j] # e[k]
      BY <2>6, <3>1
    <3>3. ~(e[k] < e[j])
      <4> SUFFICES ASSUME e[k] < e[j] PROVE FALSE
        OBVIOUS
      <4>1. match[e[j]] # 0 /\ match[e[k]] # 0
        BY <2>3, <3>1
      <4>2. \A i, l \in 1..n : i < l /\ match[i] # 0 /\ match[l] # 0 => match[i] < match[l]
        BY <2>2
      <4>3. match[e[k]] < match[e[j]]
        BY <3>1, <4>1, <4>2
      <4>4. QED
        BY <2>3, <2>6, <3>1, <4>3
    <3>4. QED
      BY <2>3, <3>1, <3>2, <3>3
  <2>7. \A j \in 1..m : Compatible(shorter[j], longer[e[j]])
    <3> SUFFICES ASSUME NEW j \in 1..m PROVE Compatible(shorter[j], longer[e[j]])
      OBVIOUS
    <3>1. e[j] \in 1..n /\ match[e[j]] = j /\ j # 0
      BY <2>3, <2>4
    <3>2. QED
      BY <2>2, <3>1
  <2>8. Embeds(e, longer, shorter)
    BY <2>5, <2>6, <2>7 DEF Embeds, n, m
  <2>9. QED
    BY <2>8
<1>3. QED
  BY <1>1, <1>2

-----------------------------------------------------------------------------
(* Properties. *)

\* The update that property_delta gives makes the old properties the new ones, its removals
\* are of properties that are there, it is empty only for equal properties, and the host
\* takes it as it is.
THEOREM PropertyDeltaRealised ==
  ASSUME NEW h, Typed(h), NEW id \in DOMAIN h.nodes, NEW new \in PropertySets
  PROVE  LET old == h.nodes[id].properties
             d == PropertyDelta(old, new)
         IN  /\ ApplyMutation(h, UpdateProperties(id, d.set, d.remove)) =
                  Done([h EXCEPT !.nodes[id].properties = new])
             /\ DOMAIN d.set \cap d.remove = {}
             /\ DOMAIN d.set = {} /\ d.remove = {} <=> old = new
<1> DEFINE old == h.nodes[id].properties
           d == PropertyDelta(old, new)
           changed == {p \in DOMAIN new : p \notin DOMAIN old \/ old[p] # new[p]}
           m == UpdateProperties(id, d.set, d.remove)
<1>1. old \in PropertySets
  BY NodeFacts
<1>2. old = [p \in DOMAIN old |-> old[p]] /\ new = [p \in DOMAIN new |-> new[p]]
  BY <1>1 DEF PropertySets
<1> HIDE DEF old
<1>3. d.set = [p \in changed |-> new[p]] /\ d.remove = DOMAIN old \ DOMAIN new
  BY DEF PropertyDelta
<1> HIDE DEF d
<1>4. Updated(old, d.set, d.remove) = new
  <2>1. DOMAIN d.set = changed /\ \A p \in changed : d.set[p] = new[p]
    BY <1>3
  <2>2. (DOMAIN old \ d.remove) \cup DOMAIN d.set = DOMAIN new
    BY <1>3, <2>1
  <2>3. ASSUME NEW p \in DOMAIN new
        PROVE  (IF p \in DOMAIN d.set THEN d.set[p] ELSE old[p]) = new[p]
    BY <2>1
  <2>4. Updated(old, d.set, d.remove) =
          [p \in DOMAIN new |-> IF p \in DOMAIN d.set THEN d.set[p] ELSE old[p]]
    BY <2>2 DEF Updated
  <2>5. QED
    BY <1>2, <2>3, <2>4
<1>5. /\ m.op = "UpdateProperties" /\ m.node_id = id /\ m.set = d.set /\ m.remove = d.remove
  BY DEF UpdateProperties
<1>6. ApplyMutation(h, m) = HostUpdateProperties(h, m)
  BY <1>5 DEF ApplyMutation
<1> HIDE DEF m
<1>7. HostUpdateProperties(h, m) = Done([h EXCEPT !.nodes[id].properties = new])
  <2>1. Live(h, id) /\ m.remove \subseteq DOMAIN h.nodes[id].properties
    BY <1>3, <1>5 DEF Live, old
  <2>2. HostUpdateProperties(h, m) =
          Done([h EXCEPT !.nodes[m.node_id].properties = Updated(@, m.set, m.remove)])
    BY <1>5, <2>1 DEF HostUpdateProperties
  <2>3. [h EXCEPT !.nodes[id].properties = Updated(@, d.set, d.remove)] =
          [h EXCEPT !.nodes[id].properties = Updated(old, d.set, d.remove)]
    BY DEF old
  <2>4. QED
    BY <1>4, <1>5, <2>2, <2>3
<1>8. DOMAIN d.set \cap d.remove = {}
  BY <1>3
<1>9. DOMAIN d.set = {} /\ d.remove = {} <=> old = new
  <2>1. ASSUME DOMAIN d.set = {}, d.remove = {}
        PROVE  old = new
    <3>1. changed = {} /\ DOMAIN old \subseteq DOMAIN new
      BY <1>3, <2>1
    <3>2. DOMAIN old = DOMAIN new /\ \A p \in DOMAIN new : old[p] = new[p]
      BY <3>1
    <3>3. QED
      BY <1>2, <3>2
  <2>2. ASSUME old = new
        PROVE  DOMAIN d.set = {} /\ d.remove = {}
    BY <1>3, <2>2
  <2>3. QED
    BY <2>1, <2>2
<1>10. QED
  BY <1>6, <1>7, <1>8, <1>9 DEF m, d, old
=============================================================================
