---------------------- MODULE AndroidContainerSystemProofs ----------------------
(***************************************************************************)
(* Proofs about the container registry with the view hierarchy and the     *)
(* attachments under way, for any containers, hosts and roots and any last *)
(* mount id.                                                               *)
(***************************************************************************)
EXTENDS AndroidContainerSystem, AndroidPartsProofs

Identity == [container : ContainerId, host : HostId, mount : Nat]

AttemptRecord ==
  [id : Identity, stage : {"queued", "added", "failed"}, root : Int, again : BOOLEAN]

\* The complete identity that a container is bound by.
Mount(c) ==
  [container |-> c, host |-> registry.bindings[c].host_id, mount |-> registry.bindings[c].mount_id]

ContainerTypes ==
  /\ SoundRegistry(registry)
  /\ attempts \subseteq AttemptRecord
  /\ parent \in [RootId -> ContainerId \cup {None}]
  /\ created \subseteq RootId
  /\ claimed \subseteq Identity
  /\ removal.shown = TRUE

\* A view is in the hierarchy, and a root in the registry, only after its creation.
OnlyCreatedRoots ==
  /\ registry.retired_roots \subseteq created
  /\ \A c \in ContainerId : registry.bindings[c].state = "ATTACHED" => registry.bindings[c].root_id \in created
  /\ \A root \in RootId \ created : parent[root] = None

\* Every attachment is one claim's, and it has a root of its own once its view was added.
AttemptsAreDistinct ==
  /\ \A a \in attempts :
       /\ a.id \in claimed
       /\ a.stage = "queued" => ~a.again
       /\ IF a.stage = "added" THEN a.root \in created ELSE a.root = NoRoot
  /\ \A a, b \in attempts :
       (a.id = b.id \/ (a.stage = "added" /\ b.stage = "added" /\ a.root = b.root)) => a = b

\* Until its result was delivered, the root of an attachment is nobody else's; and once it
\* was, its claim is not waiting any more.
AttemptsAreCurrent ==
  \A a \in attempts :
    /\ a.stage = "added" /\ ~a.again =>
         /\ parent[a.root] = a.id.container
         /\ a.root \notin ActiveRoots(registry) \cup registry.retired_roots
    /\ a.again => ~Reserved(registry, a.id.container, a.id.host, a.id.mount)

\* The inductive invariant.  What ShownRootsAreOwned says of attached bindings would be
\* lost at the next confirmation without AttemptsAreCurrent, which needs the rest.
ContainerInv ==
  /\ ContainerTypes
  /\ MountIdsAreUnique
  /\ \A c \in ContainerId : Bound(registry, c) => Mount(c) \in claimed
  /\ OnlyCreatedRoots
  /\ AttemptsAreDistinct
  /\ AttemptsAreCurrent
  /\ ShownRootsAreOwned

-----------------------------------------------------------------------------

LEMMA InitInv == Init => ContainerInv
<1> SUFFICES ASSUME Init PROVE ContainerInv
  OBVIOUS
<1>1. registry = [NewRegistry EXCEPT !.next_mount_id = 1]
  BY DEF Init, NewRegistry
<1>2. SoundRegistry(registry)
  BY <1>1, NewRegistrySound, MountAssumption
<1>3. registry.retired_roots = {} /\ \A c \in ContainerId : registry.bindings[c].state = "UNBOUND"
  BY DEF Init, NewRegistry, Unbound, Binding
<1>4. QED
  BY <1>2, <1>3 DEF Init, ContainerInv, ContainerTypes, MountIdsAreUnique, OnlyCreatedRoots,
     AttemptsAreDistinct,
     AttemptsAreCurrent, ShownRootsAreOwned, Bound

LEMMA UnchangedInv == ContainerInv /\ UNCHANGED vars => ContainerInv'
  BY DEF vars, ContainerInv, ContainerTypes, MountIdsAreUnique, Mount, OnlyCreatedRoots,
     AttemptsAreDistinct,
         AttemptsAreCurrent, ShownRootsAreOwned

\* The invariant in first-order terms: a container's root is shown by it and by no other.
LEMMA InvFacts ==
  ASSUME ContainerInv
  PROVE  /\ \A c \in ContainerId :
              registry.bindings[c].state = "ATTACHED" =>
                /\ registry.bindings[c].root_id \in RootId
                /\ registry.bindings[c].root_id \in created
                /\ parent[registry.bindings[c].root_id] = c
         /\ \A root : root \in ActiveRoots(registry) <=>
              root # NoRoot /\ \E c \in ContainerId : registry.bindings[c].root_id = root
         /\ \A c \in ContainerId : registry.bindings[c].root_id # NoRoot =>
              registry.bindings[c].state = "ATTACHED"
         /\ NoRoot \notin RootId /\ None \notin ContainerId
<1>1. NoRoot \notin RootId /\ None \notin ContainerId
  BY ContainerAssumption DEF NoRoot, None
<1>2. \A c \in ContainerId : registry.bindings[c].root_id # NoRoot =>
              registry.bindings[c].state = "ATTACHED"
  BY RegistryFacts DEF ContainerInv, ContainerTypes, BindingRecord, Bound
<1>3. QED
  BY <1>1, <1>2 DEF ContainerInv, ContainerTypes, OnlyCreatedRoots, ShownRootsAreOwned,
     ActiveRoots

LEMMA HostClaimsInv ==
  ASSUME ContainerInv, NEW c \in ContainerId, NEW host \in HostId, HostClaims(c, host)
  PROVE  ContainerInv'
<1> DEFINE answer == Claim(registry, c, host)
           mount == registry.next_mount_id
           b == Binding(host, mount, "RESERVED", NoRoot)
           id == [container |-> c, host |-> host, mount |-> mount]
           new == Attempt(id, "queued", NoRoot)
<1>1. SoundRegistry(registry) /\ host \in Nat \ {0}
  BY ContainerAssumption DEF ContainerInv, ContainerTypes
<1>2. CASE answer.effect # "ADD_ROOT"
  <2>1. answer.registry = registry /\ answer.effect \notin {"REMOVE_ROOT", "REMOVE_STALE_ROOT"}
    BY <1>2 DEF Claim, Drops, Emits
  <2>2. UNCHANGED vars
    BY <1>2, <2>1 DEF HostClaims, CarryOut, vars
  <2>3. QED
    BY <2>2, UnchangedInv
<1>3. CASE answer.effect = "ADD_ROOT"
  <2>1. /\ answer.mount_id = mount /\ ~Bound(registry, c) /\ mount \in Nat
        /\ SoundRegistry(answer.registry)
        /\ answer.registry.bindings = [registry.bindings EXCEPT ![c] = b]
        /\ answer.registry.next_mount_id = mount + 1
        /\ answer.registry.retired_roots = registry.retired_roots
    BY <1>1, <1>3, ClaimFacts, MountAssumption
  <2>2. /\ registry' = answer.registry /\ claimed' = claimed \cup {id} /\ attempts' = attempts \cup {new}
        /\ UNCHANGED <<parent, removal, created>>
    BY <1>3, <2>1 DEF HostClaims, CarryOut
  <2> HIDE DEF answer
  <2>3. /\ b.host_id = host /\ b.mount_id = mount /\ b.state = "RESERVED" /\ b.root_id = NoRoot
        /\ new.id = id /\ new.stage = "queued" /\ new.root = NoRoot /\ new.again = FALSE
        /\ id.mount = mount
    BY DEF Binding, Attempt
  <2>4. id \in Identity /\ new \in AttemptRecord
    BY <2>1 DEF Identity, AttemptRecord, Attempt, NoRoot
  <2> HIDE DEF b, new
  <2>5. \A d \in ContainerId : registry'.bindings[d] = IF d = c THEN b ELSE registry.bindings[d]
    BY <1>1, <2>1, <2>2 DEF SoundRegistry, RegistryRecord
  <2>6. \A k \in claimed : k \in Identity /\ k.mount < mount /\ k # id
    BY <2>3 DEF ContainerInv, ContainerTypes, MountIdsAreUnique, Identity
  <2>7. ContainerTypes' /\ OnlyCreatedRoots'
    BY <2>1, <2>2, <2>3, <2>4, <2>5 DEF ContainerInv, ContainerTypes, OnlyCreatedRoots
  <2>8. MountIdsAreUnique'
    BY <2>1, <2>2, <2>3, <2>6 DEF ContainerInv, MountIdsAreUnique, Identity
  <2>9. ASSUME NEW d \in ContainerId, Bound(registry', d) PROVE Mount(d)' \in claimed'
    BY <2>2, <2>3, <2>5, <2>9 DEF ContainerInv, Bound, Mount
  <2>10. AttemptsAreDistinct'
    BY <2>2, <2>3, <2>6 DEF ContainerInv, AttemptsAreDistinct
  <2>11. \A d \in ContainerId : registry.bindings[d].root_id = registry'.bindings[d].root_id
    BY <1>1, <2>1, <2>3, <2>5, RegistryFacts
  <2>12. AttemptsAreCurrent'
    <3>1. ActiveRoots(registry') = ActiveRoots(registry)
      BY <2>11 DEF ActiveRoots
    <3>2. ASSUME NEW a \in attempts, Reserved(registry', a.id.container, a.id.host, a.id.mount)
          PROVE  Reserved(registry, a.id.container, a.id.host, a.id.mount)
      <4>1. a.id \in claimed /\ a.id.mount # mount /\ a.id.container \in ContainerId
        BY <2>6 DEF ContainerInv, AttemptsAreDistinct, Identity
      <4>2. QED
        BY <2>3, <2>5, <3>2, <4>1 DEF Reserved, Current
    <3>3. QED
      BY <2>1, <2>2, <2>3, <3>1, <3>2 DEF ContainerInv, AttemptsAreCurrent
  <2>13. ShownRootsAreOwned'
    BY <2>2, <2>3, <2>5, <2>11, InvFacts DEF ContainerInv, ContainerTypes, ShownRootsAreOwned
  <2>14. QED
    BY <2>7, <2>8, <2>9, <2>10, <2>12, <2>13 DEF ContainerInv
<1>4. QED
  BY <1>2, <1>3

\* A container is unbound: with its reservation cancelled or failed, or with its root
\* taken out of the hierarchy.
LEMMA UnbindInv ==
  ASSUME ContainerInv, NEW c \in ContainerId, SoundRegistry(registry'),
         registry'.next_mount_id = registry.next_mount_id,
         registry'.bindings = [registry.bindings EXCEPT ![c] = Unbound],
         \/ /\ registry.bindings[c].state = "RESERVED"
            /\ registry'.retired_roots = registry.retired_roots /\ parent' = parent
         \/ /\ registry.bindings[c].state = "ATTACHED"
            /\ registry'.retired_roots = registry.retired_roots \cup {registry.bindings[c].root_id}
            /\ parent' = [parent EXCEPT ![registry.bindings[c].root_id] = None],
         UNCHANGED <<created, claimed>>, removal'.shown = TRUE,
         AttemptsAreDistinct', attempts' \subseteq AttemptRecord,
         \A a \in attempts' : a \in attempts \/ (a.stage # "added" /\ a.id.container = c),
         \A a \in attempts : a.stage = "added" /\ ~a.again => a \in attempts'
  PROVE  ContainerInv'
<1> DEFINE root == registry.bindings[c].root_id
<1>1. \A d \in ContainerId : registry'.bindings[d] = IF d = c THEN Unbound ELSE registry.bindings[d]
  BY DEF ContainerInv, ContainerTypes, SoundRegistry, RegistryRecord
<1>2. Unbound.state = "UNBOUND" /\ Unbound.root_id = NoRoot
  BY DEF Unbound, Binding
<1>3. /\ \A d \in ContainerId : d # c /\ registry.bindings[d].root_id = root => root = NoRoot
      /\ registry.bindings[c].state = "RESERVED" => root = NoRoot
      /\ registry.bindings[c].state = "ATTACHED" => root \in RootId /\ root \in created /\ parent[root] = c
  <2>1. SoundRegistry(registry)
    BY DEF ContainerInv, ContainerTypes
  <2>2. \A d \in ContainerId : d # c /\ registry.bindings[d].root_id = root => root = NoRoot
    BY <2>1, RegistryFacts
  <2>3. registry.bindings[c].state = "RESERVED" => root = NoRoot
    BY <2>1, RegistryFacts
  <2>4. QED
    BY <2>2, <2>3, InvFacts
<1>4. ContainerTypes'
  BY <1>3 DEF ContainerInv, ContainerTypes
<1>5. MountIdsAreUnique'
  BY DEF ContainerInv, MountIdsAreUnique
<1>6. ASSUME NEW d \in ContainerId, Bound(registry', d) PROVE Mount(d)' \in claimed'
  BY <1>1, <1>2, <1>6 DEF ContainerInv, Bound, Mount
<1>7. OnlyCreatedRoots'
  BY <1>1, <1>2, <1>3 DEF ContainerInv, ContainerTypes, OnlyCreatedRoots
<1>8. AttemptsAreCurrent'
  <2> SUFFICES ASSUME NEW a \in attempts'
               PROVE  /\ a.stage = "added" /\ ~a.again =>
                           /\ parent'[a.root] = a.id.container
                           /\ a.root \notin ActiveRoots(registry') \cup registry'.retired_roots
                      /\ a.again => ~Reserved(registry', a.id.container, a.id.host, a.id.mount)
    BY DEF AttemptsAreCurrent
  <2>1. a.id.container \in ContainerId
    BY DEF AttemptRecord, Identity
  <2>2. Reserved(registry', a.id.container, a.id.host, a.id.mount) =>
          Reserved(registry, a.id.container, a.id.host, a.id.mount) /\ a.id.container # c
    BY <1>1, <1>2, <2>1 DEF Reserved, Current
  <2>3. ActiveRoots(registry') \subseteq ActiveRoots(registry)
    BY <1>1, <1>2 DEF ActiveRoots
  <2>4. ASSUME a.stage = "added", ~a.again
        PROVE  /\ parent'[a.root] = a.id.container
               /\ a.root \notin ActiveRoots(registry') \cup registry'.retired_roots
    <3>1. /\ a \in attempts /\ a.root \in created /\ a.root \in RootId /\ parent[a.root] = a.id.container
          /\ a.root \notin ActiveRoots(registry) \cup registry.retired_roots
      BY <2>4 DEF ContainerInv, ContainerTypes, AttemptsAreCurrent, AttemptsAreDistinct
    <3>2. a.root # root
      BY <3>1, InvFacts
    <3>3. QED
      BY <2>3, <3>1, <3>2 DEF ContainerInv, ContainerTypes
  <2>5. a.again => ~Reserved(registry', a.id.container, a.id.host, a.id.mount)
    BY <2>2 DEF ContainerInv, AttemptsAreCurrent
  <2>6. QED
    BY <2>4, <2>5
<1>9. ShownRootsAreOwned'
  <2>0. \A v \in RootId : parent'[v] =
          IF registry.bindings[c].state = "ATTACHED" /\ v = root THEN None ELSE parent[v]
    BY DEF ContainerInv, ContainerTypes
  <2>1. ASSUME NEW d \in ContainerId, registry'.bindings[d].state = "ATTACHED"
        PROVE  parent'[registry'.bindings[d].root_id] = d
    <3>1. d # c /\ registry'.bindings[d] = registry.bindings[d]
      BY <1>1, <1>2, <2>1
    <3>2. registry.bindings[d].root_id \in RootId /\ parent[registry.bindings[d].root_id] = d
      BY <2>1, <3>1, InvFacts
    <3>3. registry.bindings[d].root_id # root
      BY <1>3, <3>1, <3>2, InvFacts
    <3>4. QED
      BY <2>0, <3>1, <3>2, <3>3
  <2>2. ASSUME NEW v \in RootId, parent'[v] # None
        PROVE  \/ registry'.bindings[parent'[v]].root_id = v
               \/ \E a \in attempts' : a.root = v /\ ~a.again
    <3>1. parent'[v] = parent[v] /\ parent[v] \in ContainerId /\ v # NoRoot
          /\ (registry.bindings[c].state = "ATTACHED" => v # root)
      <4>1. parent'[v] = parent[v] /\ (registry.bindings[c].state = "ATTACHED" => v # root)
        BY <2>0, <2>2
      <4>2. parent[v] \in ContainerId
        BY <2>2, <4>1 DEF ContainerInv, ContainerTypes
      <4>3. QED
        BY <4>1, <4>2, InvFacts
    <3>2. CASE registry.bindings[parent[v]].root_id = v
      BY <1>1, <1>3, <3>1, <3>2, InvFacts
    <3>3. ASSUME NEW a \in attempts, a.root = v, ~a.again
          PROVE  a \in attempts'
      BY <3>1, <3>3 DEF ContainerInv, AttemptsAreDistinct
    <3>4. QED
      BY <2>2, <3>1, <3>2, <3>3 DEF ContainerInv, ShownRootsAreOwned
  <2>3. QED
    BY <2>1, <2>2 DEF ShownRootsAreOwned
<1>10. QED
  BY <1>4, <1>5, <1>6, <1>7, <1>8, <1>9 DEF ContainerInv

LEMMA HostReleasesInv ==
  ASSUME ContainerInv, NEW id \in claimed, HostReleases(id)
  PROVE  ContainerInv'
<1> DEFINE answer == Release(registry, id.container, id.host, id.mount)
           c == id.container
           g == answer.registry
           queued == Attempt(id, "queued", NoRoot)
<1>1. SoundRegistry(registry) /\ c \in ContainerId
  BY DEF ContainerInv, ContainerTypes, Identity
<1>2. /\ SoundRegistry(g) /\ g.next_mount_id = registry.next_mount_id
      /\ \/ g = registry /\ answer.effect = "DROP_STALE_RELEASE"
         \/ /\ registry.bindings[c].state = "RESERVED" /\ answer.effect = "CANCEL_ATTACH"
            /\ g.bindings = [registry.bindings EXCEPT ![c] = Unbound]
            /\ g.retired_roots = registry.retired_roots
         \/ /\ registry.bindings[c].state = "ATTACHED"
            /\ answer.effect = "REMOVE_ROOT" /\ answer.root_id = registry.bindings[c].root_id
            /\ g.bindings = [registry.bindings EXCEPT ![c] = Unbound]
            /\ g.retired_roots = registry.retired_roots \cup {registry.bindings[c].root_id}
  BY <1>1, ReleaseFacts DEF Reserved
<1>3. /\ CarryOut(answer, FALSE) /\ registry' = g /\ UNCHANGED <<claimed, created>>
      /\ attempts' = attempts \/ (answer.effect = "CANCEL_ATTACH" /\ attempts' = attempts \ {queued})
  BY DEF HostReleases, CarryOut
<1> HIDE DEF answer
<1>4. AttemptsAreDistinct' /\ attempts' \subseteq attempts /\ attempts' \subseteq AttemptRecord
  BY <1>3 DEF ContainerInv, ContainerTypes, AttemptsAreDistinct
<1>5. \A a \in attempts : a.stage = "added" => a \in attempts'
  BY <1>3 DEF Attempt
<1>6. CASE g = registry /\ answer.effect = "DROP_STALE_RELEASE"
  <2>1. UNCHANGED vars
    BY <1>3, <1>6 DEF CarryOut, vars
  <2>2. QED
    BY <2>1, UnchangedInv
<1>7. CASE registry.bindings[c].state = "RESERVED" /\ answer.effect = "CANCEL_ATTACH"
  <2>1. parent' = parent /\ removal'.shown = TRUE
    BY <1>3, <1>7 DEF CarryOut, ContainerInv, ContainerTypes
  <2>2. QED
    BY <1>1, <1>2, <1>3, <1>4, <1>5, <1>7, <2>1, UnbindInv
<1>8. CASE registry.bindings[c].state = "ATTACHED" /\ answer.effect = "REMOVE_ROOT"
  <2>1. /\ parent' = [parent EXCEPT ![registry.bindings[c].root_id] = None]
        /\ removal'.shown = (parent[registry.bindings[c].root_id] # None)
    BY <1>2, <1>3, <1>8 DEF CarryOut
  <2>2. removal'.shown = TRUE
    BY <1>1, <1>8, <2>1, InvFacts
  <2>3. QED
    BY <1>1, <1>2, <1>3, <1>4, <1>5, <1>8, <2>1, <2>2, UnbindInv
<1>9. QED
  BY <1>2, <1>6, <1>7, <1>8

\* An attachment moves on, or ends.
LEMMA AttemptMoves ==
  ASSUME ContainerInv, NEW a \in attempts, NEW n \in AttemptRecord,
         n.id = a.id, n.stage = "queued" => ~n.again,
         IF n.stage = "added"
         THEN n.root \in created' /\ ((a.stage = "added" /\ n.root = a.root) \/ n.root \notin created)
         ELSE n.root = NoRoot,
         created \subseteq created', claimed' = claimed,
         attempts' = attempts \ {a} \/ attempts' = (attempts \ {a}) \cup {n}
  PROVE  AttemptsAreDistinct' /\ attempts' \subseteq AttemptRecord
<1>1. /\ attempts' \subseteq AttemptRecord
      /\ \A b \in attempts' : b = n \/ (b \in attempts /\ b # a)
  BY DEF ContainerInv, ContainerTypes
<1>2. ASSUME NEW b \in attempts'
      PROVE  /\ b.id \in claimed' /\ (b.stage = "queued" => ~b.again)
             /\ IF b.stage = "added" THEN b.root \in created' ELSE b.root = NoRoot
  BY <1>1 DEF ContainerInv, AttemptsAreDistinct
<1>3. ASSUME NEW b \in attempts, b # a
      PROVE  n.id # b.id /\ ~(n.stage = "added" /\ b.stage = "added" /\ n.root = b.root)
  BY <1>3 DEF ContainerInv, AttemptsAreDistinct
<1>4. ASSUME NEW b \in attempts', NEW d \in attempts',
             b.id = d.id \/ (b.stage = "added" /\ d.stage = "added" /\ b.root = d.root)
      PROVE  b = d
  BY <1>1, <1>3, <1>4 DEF ContainerInv, AttemptsAreDistinct
<1>5. QED
  BY <1>1, <1>2, <1>4 DEF AttemptsAreDistinct

LEMMA ViewAddedInv ==
  ASSUME ContainerInv, NEW a \in attempts, NEW root \in RootId, ViewAdded(a, root)
  PROVE  ContainerInv'
<1> DEFINE n == Attempt(a.id, "added", root)
<1>1. /\ a.stage = "queued" /\ root \notin created /\ created' = created \cup {root}
      /\ attempts' = (attempts \ {a}) \cup {n} /\ parent' = [parent EXCEPT ![root] = a.id.container]
      /\ UNCHANGED <<registry, claimed, removal>>
  BY DEF ViewAdded
<1>2. a.id \in Identity /\ root \in Int /\ a.root = NoRoot /\ a.id.container \in ContainerId
  BY <1>1, ContainerAssumption DEF ContainerInv, ContainerTypes, AttemptsAreDistinct,
     AttemptRecord, Identity
<1>3. /\ n \in AttemptRecord /\ n.id = a.id /\ n.stage = "added" /\ n.root = root /\ n.again = FALSE
  BY <1>2 DEF Attempt, AttemptRecord
<1> HIDE DEF n
<1>4. AttemptsAreDistinct' /\ attempts' \subseteq AttemptRecord
  BY <1>1, <1>3, AttemptMoves
<1>5. \A v \in RootId : parent'[v] = IF v = root THEN a.id.container ELSE parent[v]
  BY <1>1 DEF ContainerInv, ContainerTypes
<1>6. ContainerTypes'
  BY <1>1, <1>2, <1>4 DEF ContainerInv, ContainerTypes
<1>7. MountIdsAreUnique' /\ \A c \in ContainerId : Bound(registry', c) => Mount(c)' \in claimed'
  BY <1>1 DEF ContainerInv, MountIdsAreUnique, Mount
<1>8. OnlyCreatedRoots'
  BY <1>1, <1>5 DEF ContainerInv, ContainerTypes, OnlyCreatedRoots
<1>9. root # NoRoot /\ root \notin ActiveRoots(registry) \cup registry.retired_roots
  BY <1>1, InvFacts DEF ContainerInv, OnlyCreatedRoots
<1>10. AttemptsAreCurrent'
  <2>1. ASSUME NEW b \in attempts, b.stage = "added"
        PROVE  b.root \in RootId /\ b.root # root
    BY <1>1, <2>1 DEF ContainerInv, ContainerTypes, AttemptsAreDistinct
  <2>2. QED
    BY <1>1, <1>3, <1>5, <1>9, <2>1 DEF ContainerInv, AttemptsAreCurrent
<1>11. ShownRootsAreOwned'
  <2>1. ASSUME NEW c \in ContainerId, registry'.bindings[c].state = "ATTACHED"
        PROVE  parent'[registry'.bindings[c].root_id] = c
    BY <1>1, <1>5, <2>1, InvFacts
  <2>2. ASSUME NEW v \in RootId, parent'[v] # None
        PROVE  \/ registry'.bindings[parent'[v]].root_id = v
               \/ \E b \in attempts' : b.root = v /\ ~b.again
    <3>1. CASE v = root
      BY <1>1, <1>3, <3>1
    <3>2. CASE v # root
      <4>1. parent'[v] = parent[v] /\ v # NoRoot
        BY <1>5, <3>2, InvFacts
      <4>2. \A b \in attempts : b.root = v => b \in attempts'
        BY <1>1, <1>2, <4>1
      <4>3. QED
        BY <1>1, <2>2, <4>1, <4>2 DEF ContainerInv, ShownRootsAreOwned
    <3>3. QED
      BY <3>1, <3>2
  <2>3. removal'.shown
    BY <1>1 DEF ContainerInv, ShownRootsAreOwned
  <2>4. QED
    BY <2>1, <2>2, <2>3 DEF ShownRootsAreOwned
<1>12. QED
  BY <1>4, <1>6, <1>7, <1>8, <1>10, <1>11 DEF ContainerInv

\* A step of an attachment that has no view, and that changes nothing else.
LEMMA BareAttemptInv ==
  ASSUME ContainerInv, UNCHANGED <<registry, parent, created, claimed>>, removal'.shown = TRUE,
         AttemptsAreDistinct', attempts' \subseteq AttemptRecord,
         \A a \in attempts' : a.again /\ a \notin attempts =>
           ~Reserved(registry, a.id.container, a.id.host, a.id.mount),
         \A a \in attempts' : a.stage = "added" /\ ~a.again => a \in attempts,
         \A a \in attempts : a.stage = "added" /\ ~a.again => a \in attempts'
  PROVE  ContainerInv'
<1>1. ContainerTypes' /\ MountIdsAreUnique' /\ OnlyCreatedRoots'
  BY DEF ContainerInv, ContainerTypes, MountIdsAreUnique, OnlyCreatedRoots
<1>2. \A c \in ContainerId : Bound(registry', c) => Mount(c)' \in claimed'
  BY DEF ContainerInv, Mount
<1>3. AttemptsAreCurrent'
  BY DEF ContainerInv, AttemptsAreCurrent
<1>4. ShownRootsAreOwned'
  <2>1. \A a \in attempts, root \in RootId : a.root = root /\ ~a.again => a \in attempts'
    BY InvFacts DEF ContainerInv, AttemptsAreDistinct
  <2>2. QED
    BY <2>1 DEF ContainerInv, ShownRootsAreOwned
<1>5. QED
  BY <1>1, <1>2, <1>3, <1>4 DEF ContainerInv

LEMMA ViewFailsInv ==
  ASSUME ContainerInv, NEW a \in attempts, ViewFails(a)
  PROVE  ContainerInv'
<1> DEFINE n == Attempt(a.id, "failed", NoRoot)
<1>1. /\ a.stage = "queued" /\ attempts' = (attempts \ {a}) \cup {n}
      /\ UNCHANGED <<registry, parent, created, claimed, removal>>
  BY DEF ViewFails
<1>2. a.id \in Identity
  BY DEF ContainerInv, ContainerTypes, AttemptRecord
<1>3. /\ n \in AttemptRecord /\ n.id = a.id /\ n.stage = "failed" /\ n.root = NoRoot /\ n.again = FALSE
  BY <1>2 DEF Attempt, AttemptRecord, NoRoot
<1> HIDE DEF n
<1>4. AttemptsAreDistinct' /\ attempts' \subseteq AttemptRecord
  BY <1>1, <1>3, AttemptMoves
<1>5. removal'.shown = TRUE
  BY <1>1 DEF ContainerInv, ContainerTypes
<1>6. QED
  BY <1>1, <1>3, <1>4, <1>5, BareAttemptInv

\* What is left of an attachment whose result arrives.
LEMMA ArrivedAttempt ==
  ASSUME ContainerInv, NEW a \in attempts, ResultArrives(a)
  PROVE  /\ AttemptsAreDistinct' /\ attempts' \subseteq AttemptRecord
         /\ \A b \in attempts' : b \notin attempts => b.again /\ b.id = a.id /\ b.stage = a.stage
         /\ \A b \in attempts : b # a => b \in attempts'
         /\ a \notin attempts'
         /\ UNCHANGED <<created, claimed>>
<1> DEFINE n == [a EXCEPT !.again = TRUE]
<1>1. a \in AttemptRecord
  BY DEF ContainerInv, ContainerTypes
<1>2. n \in AttemptRecord /\ n.id = a.id /\ n.stage = a.stage /\ n.root = a.root /\ n.again = TRUE
  BY <1>1 DEF AttemptRecord
<1>3. /\ attempts' = attempts \ {a} \/ (~a.again /\ attempts' = (attempts \ {a}) \cup {n})
      /\ a.stage \in {"added", "failed"} /\ created' = created /\ claimed' = claimed
  BY DEF ResultArrives
<1> HIDE DEF n
<1>4. IF n.stage = "added" THEN n.root \in created /\ a.stage = "added" ELSE n.root = NoRoot
  BY <1>2 DEF ContainerInv, AttemptsAreDistinct
<1>5. AttemptsAreDistinct' /\ attempts' \subseteq AttemptRecord
  BY <1>2, <1>3, <1>4, AttemptMoves
<1>6. QED
  BY <1>2, <1>3, <1>5

LEMMA FailureArrivesInv ==
  ASSUME ContainerInv, NEW a \in attempts, ResultArrives(a), a.stage = "failed"
  PROVE  ContainerInv'
<1> DEFINE c == a.id.container
           answer == AttachFailed(registry, c, a.id.host, a.id.mount)
<1>1. SoundRegistry(registry) /\ c \in ContainerId
  BY DEF ContainerInv, ContainerTypes, AttemptRecord, Identity
<1>2. /\ SoundRegistry(answer.registry) /\ answer.effect \in {"NONE", "DROP_STALE_RESULT"}
      /\ answer.registry.next_mount_id = registry.next_mount_id
      /\ answer.registry.retired_roots = registry.retired_roots
      /\ Reserved(registry, c, a.id.host, a.id.mount) =>
           answer.registry.bindings = [registry.bindings EXCEPT ![c] = Unbound]
      /\ ~Reserved(registry, c, a.id.host, a.id.mount) => answer.registry = registry
  BY <1>1, AttachFailedFacts
<1>3. registry' = answer.registry /\ UNCHANGED <<parent, removal>>
  BY <1>2 DEF ResultArrives, CarryOut
<1>4. removal'.shown = TRUE
  BY <1>3 DEF ContainerInv, ContainerTypes
<1>5. CASE Reserved(registry, c, a.id.host, a.id.mount)
  <2>1. registry.bindings[c].state = "RESERVED"
    BY <1>5 DEF Reserved
  <2> HIDE DEF answer
  <2>2. QED
    BY <1>1, <1>2, <1>3, <1>4, <1>5, <2>1, ArrivedAttempt, UnbindInv
<1>6. CASE ~Reserved(registry, c, a.id.host, a.id.mount)
  <2>1. registry' = registry
    BY <1>2, <1>3, <1>6
  <2>2. QED
    BY <1>3, <1>4, <1>6, <2>1, ArrivedAttempt, BareAttemptInv
<1>7. QED
  BY <1>5, <1>6

\* The confirmation of the reservation attaches the root that the attachment added.
LEMMA ConfirmationInv ==
  ASSUME ContainerInv, NEW a \in attempts, ResultArrives(a), a.stage = "added",
         Reserved(registry, a.id.container, a.id.host, a.id.mount)
  PROVE  ContainerInv'
<1> DEFINE c == a.id.container
           root == a.root
           answer == AttachSucceeded(registry, c, a.id.host, a.id.mount, root)
           b == Binding(a.id.host, a.id.mount, "ATTACHED", root)
<1>1. /\ SoundRegistry(registry) /\ c \in ContainerId /\ a.id \in claimed /\ a.id \in Identity
      /\ root \in created /\ root \in RootId /\ root \in Nat \ {0}
  BY ContainerAssumption DEF ContainerInv, ContainerTypes, AttemptsAreDistinct, AttemptRecord,
     Identity
<1>2. ~a.again /\ root \notin ActiveRoots(registry) \cup registry.retired_roots /\ parent[root] = c
  BY DEF ContainerInv, AttemptsAreCurrent
<1>3. /\ answer.effect = "NONE" /\ SoundRegistry(answer.registry)
      /\ answer.registry.bindings = [registry.bindings EXCEPT ![c] = b]
      /\ answer.registry.next_mount_id = registry.next_mount_id
      /\ answer.registry.retired_roots = registry.retired_roots
  BY <1>1, <1>2, AttachFacts
<1>4. registry' = answer.registry /\ UNCHANGED <<parent, removal>>
  BY <1>3 DEF ResultArrives, CarryOut
<1> HIDE DEF answer
<1>5. b.host_id = a.id.host /\ b.mount_id = a.id.mount /\ b.state = "ATTACHED" /\ b.root_id = root
  BY DEF Binding
<1> HIDE DEF b
<1>6. \A d \in ContainerId : registry'.bindings[d] = IF d = c THEN b ELSE registry.bindings[d]
  BY <1>1, <1>3, <1>4 DEF SoundRegistry, RegistryRecord
<1>7. registry.bindings[c].state = "RESERVED" /\ registry.bindings[c].root_id = NoRoot
  BY <1>1, RegistryFacts DEF Reserved
<1>8. /\ AttemptsAreDistinct' /\ attempts' \subseteq AttemptRecord
      /\ \A d \in attempts' : d \notin attempts => d.again /\ d.id = a.id
      /\ \A d \in attempts : d # a => d \in attempts'
      /\ a \notin attempts' /\ created' = created /\ claimed' = claimed
  BY ArrivedAttempt
<1>9. ContainerTypes' /\ MountIdsAreUnique' /\ OnlyCreatedRoots'
  BY <1>1, <1>3, <1>4, <1>5, <1>6, <1>8
  DEF ContainerInv, ContainerTypes, MountIdsAreUnique, OnlyCreatedRoots
<1>10. ASSUME NEW d \in ContainerId, Bound(registry', d) PROVE Mount(d)' \in claimed'
  <2>1. [container |-> c, host |-> a.id.host, mount |-> a.id.mount] = a.id
    BY <1>1 DEF Identity
  <2>2. QED
    BY <1>1, <1>5, <1>6, <1>8, <1>10, <2>1 DEF ContainerInv, Bound, Mount
<1>11. AttemptsAreCurrent'
  <2> SUFFICES ASSUME NEW d \in attempts'
               PROVE  /\ d.stage = "added" /\ ~d.again =>
                           /\ parent'[d.root] = d.id.container
                           /\ d.root \notin ActiveRoots(registry') \cup registry'.retired_roots
                      /\ d.again => ~Reserved(registry', d.id.container, d.id.host, d.id.mount)
    BY DEF AttemptsAreCurrent
  <2>1. d.id.container \in ContainerId
    BY <1>8 DEF AttemptRecord, Identity
  <2>2. ActiveRoots(registry') \subseteq ActiveRoots(registry) \cup {root}
    BY <1>5, <1>6 DEF ActiveRoots
  <2>3. d.again => ~Reserved(registry', d.id.container, d.id.host, d.id.mount)
    BY <1>5, <1>6, <1>8, <2>1 DEF ContainerInv, AttemptsAreCurrent, Reserved, Current
  <2>4. ASSUME d.stage = "added", ~d.again
        PROVE  /\ parent'[d.root] = d.id.container
               /\ d.root \notin ActiveRoots(registry') \cup registry'.retired_roots
    <3>1. d \in attempts /\ d # a
      BY <1>8, <2>4
    <3>2. d.root # root
      BY <2>4, <3>1 DEF ContainerInv, AttemptsAreDistinct
    <3>3. parent[d.root] = d.id.container /\ d.root \notin ActiveRoots(registry) \cup registry.retired_roots
      BY <2>4, <3>1 DEF ContainerInv, AttemptsAreCurrent
    <3>4. QED
      BY <1>3, <1>4, <2>2, <3>2, <3>3
  <2>5. QED
    BY <2>3, <2>4
<1>12. ShownRootsAreOwned'
  <2>1. ASSUME NEW d \in ContainerId, registry'.bindings[d].state = "ATTACHED"
        PROVE  parent'[registry'.bindings[d].root_id] = d
    BY <1>2, <1>4, <1>5, <1>6, <2>1, InvFacts
  <2>2. ASSUME NEW v \in RootId, parent'[v] # None
        PROVE  \/ registry'.bindings[parent'[v]].root_id = v
               \/ \E d \in attempts' : d.root = v /\ ~d.again
    <3>1. v # NoRoot /\ parent'[v] = parent[v] /\ parent[v] \in ContainerId
      BY <1>4, <2>2, InvFacts DEF ContainerInv, ContainerTypes
    <3>2. CASE v = root
      BY <1>1, <1>2, <1>4, <1>5, <1>6, <3>2
    <3>3. CASE v # root
      <4>1. \A d \in attempts : d.root = v => d \in attempts'
        BY <1>8, <3>3
      <4>2. registry.bindings[parent[v]].root_id = v => registry'.bindings[parent[v]].root_id = v
        BY <1>6, <1>7, <3>1
      <4>3. QED
        BY <2>2, <3>1, <4>1, <4>2 DEF ContainerInv, ShownRootsAreOwned
    <3>4. QED
      BY <3>2, <3>3
  <2>3. removal'.shown
    BY <1>4 DEF ContainerInv, ShownRootsAreOwned
  <2>4. QED
    BY <2>1, <2>2, <2>3 DEF ShownRootsAreOwned
<1>13. QED
  BY <1>8, <1>9, <1>10, <1>11, <1>12 DEF ContainerInv

\* The result for an obsolete mount takes its root out, if no container has it by now.
LEMMA StaleResultInv ==
  ASSUME ContainerInv, NEW a \in attempts, ResultArrives(a), a.stage = "added",
         ~Reserved(registry, a.id.container, a.id.host, a.id.mount)
  PROVE  ContainerInv'
<1> DEFINE c == a.id.container
           root == a.root
           answer == AttachSucceeded(registry, c, a.id.host, a.id.mount, root)
<1>1. /\ SoundRegistry(registry) /\ c \in ContainerId
      /\ root \in created /\ root \in RootId /\ root \in Nat \ {0}
  BY ContainerAssumption DEF ContainerInv, ContainerTypes, AttemptsAreDistinct, AttemptRecord,
     Identity
<1>2. CarryOut(answer, a.again) /\ registry' = answer.registry
  BY DEF ResultArrives, CarryOut
<1>3. ~a.again => root \notin ActiveRoots(registry) /\ parent[root] = c
  BY DEF ContainerInv, AttemptsAreCurrent
<1>4. /\ AttemptsAreDistinct' /\ attempts' \subseteq AttemptRecord
      /\ \A d \in attempts' : d \notin attempts => d.again /\ d.id = a.id
      /\ \A d \in attempts : d # a => d \in attempts'
      /\ a \notin attempts' /\ created' = created /\ claimed' = claimed
  BY ArrivedAttempt
<1>5. CASE root \in ActiveRoots(registry)
  <2>1. answer.registry = registry /\ answer.effect = "DROP_STALE_RESULT"
    BY <1>1, <1>5, StaleResultFacts
  <2>2. registry' = registry /\ UNCHANGED <<parent, removal>>
    BY <1>2, <2>1 DEF CarryOut
  <2>3. removal'.shown = TRUE
    BY <2>2 DEF ContainerInv, ContainerTypes
  <2>4. QED
    BY <1>3, <1>4, <1>5, <2>2, <2>3, BareAttemptInv
<1>6. CASE root \notin ActiveRoots(registry)
  <2>1. /\ answer.effect = "REMOVE_STALE_ROOT" /\ answer.root_id = root
        /\ SoundRegistry(answer.registry) /\ answer.registry.bindings = registry.bindings
        /\ answer.registry.next_mount_id = registry.next_mount_id
        /\ answer.registry.retired_roots = registry.retired_roots \cup {root}
    BY <1>1, <1>6, StaleResultFacts
  <2>2. parent' = [parent EXCEPT ![root] = None] /\ removal'.shown = (a.again \/ parent[root] # None)
    BY <1>2, <2>1 DEF CarryOut
  <2> HIDE DEF answer
  <2>3. removal'.shown = TRUE
    <3>1. a.again \/ parent[root] # None
      BY <1>1, <1>3, InvFacts
    <3>2. QED
      BY <2>2, <3>1
  <2>4. \A v \in RootId : parent'[v] = IF v = root THEN None ELSE parent[v]
    BY <2>2 DEF ContainerInv, ContainerTypes
  <2>5. ContainerTypes' /\ MountIdsAreUnique' /\ OnlyCreatedRoots'
    BY <1>1, <1>2, <1>4, <2>1, <2>2, <2>3, <2>4
    DEF ContainerInv, ContainerTypes, MountIdsAreUnique, OnlyCreatedRoots
  <2>6. \A d \in ContainerId : Bound(registry', d) => Mount(d)' \in claimed'
    BY <1>2, <1>4, <2>1 DEF ContainerInv, Bound, Mount
  <2>7. AttemptsAreCurrent'
    <3> SUFFICES ASSUME NEW d \in attempts'
                 PROVE  /\ d.stage = "added" /\ ~d.again =>
                             /\ parent'[d.root] = d.id.container
                             /\ d.root \notin ActiveRoots(registry') \cup registry'.retired_roots
                        /\ d.again => ~Reserved(registry', d.id.container, d.id.host, d.id.mount)
      BY DEF AttemptsAreCurrent
    <3>1. ActiveRoots(registry') = ActiveRoots(registry)
      BY <1>2, <2>1 DEF ActiveRoots
    <3>2. d.again => ~Reserved(registry', d.id.container, d.id.host, d.id.mount)
      BY <1>2, <1>4, <2>1 DEF ContainerInv, AttemptsAreCurrent, Reserved, Current
    <3>3. ASSUME d.stage = "added", ~d.again
          PROVE  /\ parent'[d.root] = d.id.container
                 /\ d.root \notin ActiveRoots(registry') \cup registry'.retired_roots
      <4>1. d \in attempts /\ d # a
        BY <1>4, <3>3
      <4>2. d.root # root /\ d.root \in RootId
        BY <3>3, <4>1 DEF ContainerInv, ContainerTypes, AttemptsAreDistinct
      <4>3. parent[d.root] = d.id.container /\ d.root \notin ActiveRoots(registry) \cup registry.retired_roots
        BY <3>3, <4>1 DEF ContainerInv, AttemptsAreCurrent
      <4>4. QED
        BY <1>2, <2>1, <2>4, <3>1, <4>2, <4>3
    <3>4. QED
      BY <3>2, <3>3
  <2>8. ShownRootsAreOwned'
    <3>1. ASSUME NEW d \in ContainerId, registry'.bindings[d].state = "ATTACHED"
          PROVE  parent'[registry'.bindings[d].root_id] = d
      BY <1>1, <1>2, <1>6, <2>1, <2>4, <3>1, InvFacts
    <3>2. ASSUME NEW v \in RootId, parent'[v] # None
          PROVE  \/ registry'.bindings[parent'[v]].root_id = v
                 \/ \E d \in attempts' : d.root = v /\ ~d.again
      <4>1. v # root /\ parent'[v] = parent[v]
        BY <2>4, <3>2
      <4>2. \A d \in attempts : d.root = v => d \in attempts'
        BY <1>4, <4>1
      <4>3. QED
        BY <1>2, <2>1, <3>2, <4>1, <4>2 DEF ContainerInv, ShownRootsAreOwned
    <3>3. QED
      BY <2>3, <3>1, <3>2 DEF ShownRootsAreOwned
  <2>9. QED
    BY <1>4, <2>5, <2>6, <2>7, <2>8 DEF ContainerInv
<1>7. QED
  BY <1>5, <1>6

LEMMA NextInv == ContainerInv /\ [Next]_vars => ContainerInv'
<1> SUFFICES ASSUME ContainerInv, [Next]_vars PROVE ContainerInv'
  OBVIOUS
<1>1. CASE UNCHANGED vars
  BY <1>1, UnchangedInv
<1>2. ASSUME NEW a \in attempts, ResultArrives(a) PROVE ContainerInv'
  <2>1. a.stage \in {"added", "failed"}
    BY <1>2 DEF ResultArrives
  <2>2. QED
    BY <1>2, <2>1, FailureArrivesInv, ConfirmationInv, StaleResultInv
<1>3. CASE Next
  BY <1>2, <1>3, HostClaimsInv, HostReleasesInv, ViewAddedInv, ViewFailsInv DEF Next
<1>4. QED
  BY <1>1, <1>3

\* The inductive invariant holds in every reachable state of the container system.
THEOREM ContainerInvariant == Spec => []ContainerInv
  BY InitInv, NextInv, PTL DEF Spec

\* The registry always satisfies validate_state of android_container_invariants.py, and
\* what is under way has the types of the model.
THEOREM ContainersStayValid == Spec => []TypeOK
<1>1. ContainerInv => TypeOK
  BY DEF ContainerInv, ContainerTypes, OnlyCreatedRoots, AttemptsAreDistinct, TypeOK,
     SoundRegistry, AttemptRecord
<1>2. QED
  BY <1>1, ContainerInvariant, PTL

\* claim_container never hands out a mount id twice.
THEOREM MountIdsUnique == Spec => []MountIdsAreUnique
<1>1. ContainerInv => MountIdsAreUnique
  BY DEF ContainerInv
<1>2. QED
  BY <1>1, ContainerInvariant, PTL

\* The view hierarchy and the registry agree, whatever order releases, new claims and late
\* or repeated results reach apply_action in.
THEOREM ShownRootsOwned == Spec => []ShownRootsAreOwned
<1>1. ContainerInv => ShownRootsAreOwned
  BY DEF ContainerInv
<1>2. QED
  BY <1>1, ContainerInvariant, PTL

-----------------------------------------------------------------------------
(* What a step may not do. *)

\* OnlyOwnWork's action, of one container: why its binding may change.
OwnChange(c) ==
  LET old == registry.bindings[c]
      new == registry'.bindings[c]
      done == attempts \ attempts'
  IN /\ new.state = "ATTACHED" => \E a \in done : a.id = Mount(c) /\ a.root = new.root_id
     /\ old.state = "RESERVED" => \A a \in done : a.id = Mount(c)
     /\ old.state = "ATTACHED" => new = Unbound /\ parent'[old.root_id] = None

LEMMA ReservedIsMount ==
  ASSUME NEW id \in Identity, Current(registry, id.container, id.host, id.mount)
  PROVE  id = Mount(id.container)
  BY DEF Identity, Current, Mount

LEMMA ClaimIsOwn ==
  ASSUME ContainerInv, NEW d \in ContainerId, NEW host \in HostId, HostClaims(d, host),
         NEW c \in ContainerId, registry.bindings[c] # registry'.bindings[c]
  PROVE  OwnChange(c)
<1> DEFINE answer == Claim(registry, d, host)
           b == Binding(host, registry.next_mount_id, "RESERVED", NoRoot)
<1>1. SoundRegistry(registry) /\ host \in Nat \ {0} /\ registry' = answer.registry
  BY ContainerAssumption DEF ContainerInv, ContainerTypes, HostClaims, CarryOut
<1>2. ~Bound(registry, d) /\ registry'.bindings = [registry.bindings EXCEPT ![d] = b]
  BY <1>1, ClaimFacts
<1>3. b.state = "RESERVED"
  BY DEF Binding
<1> HIDE DEF b
<1>4. c = d /\ registry'.bindings[c] = b
  BY <1>1, <1>2 DEF SoundRegistry, RegistryRecord
<1>5. QED
  BY <1>2, <1>3, <1>4 DEF OwnChange, Bound

LEMMA ReleaseIsOwn ==
  ASSUME ContainerInv, NEW id \in claimed, HostReleases(id),
         NEW c \in ContainerId, registry.bindings[c] # registry'.bindings[c]
  PROVE  OwnChange(c)
<1> DEFINE d == id.container
           answer == Release(registry, d, id.host, id.mount)
<1>1. /\ SoundRegistry(registry) /\ d \in ContainerId /\ id \in Identity
      /\ CarryOut(answer, FALSE) /\ registry' = answer.registry
      /\ \A a \in attempts \ attempts' : a.id = id
  BY DEF ContainerInv, ContainerTypes, Identity, HostReleases, CarryOut, Attempt
<1>2. /\ Current(registry, d, id.host, id.mount)
      /\ registry'.bindings = [registry.bindings EXCEPT ![d] = Unbound]
      /\ registry.bindings[d].state = "ATTACHED" =>
           answer.effect = "REMOVE_ROOT" /\ answer.root_id = registry.bindings[d].root_id
  BY <1>1, ReleaseFacts DEF Reserved
<1> HIDE DEF answer
<1>3. c = d /\ registry'.bindings[c] = Unbound
  BY <1>1, <1>2 DEF SoundRegistry, RegistryRecord
<1>4. id = Mount(c)
  BY <1>1, <1>2, <1>3, ReservedIsMount
<1>5. registry.bindings[c].state = "ATTACHED" => parent'[registry.bindings[c].root_id] = None
  <2> SUFFICES ASSUME registry.bindings[c].state = "ATTACHED"
               PROVE  parent'[registry.bindings[c].root_id] = None
    OBVIOUS
  <2>1. parent' = [parent EXCEPT ![registry.bindings[c].root_id] = None]
    BY <1>1, <1>2, <1>3 DEF CarryOut
  <2>2. registry.bindings[c].root_id \in RootId
    BY InvFacts
  <2>3. QED
    BY <2>1, <2>2 DEF ContainerInv, ContainerTypes
<1>6. Unbound.state # "ATTACHED"
  BY DEF Unbound, Binding
<1>7. QED
  BY <1>1, <1>3, <1>4, <1>5, <1>6 DEF OwnChange

LEMMA ResultIsOwn ==
  ASSUME ContainerInv, NEW a \in attempts, ResultArrives(a),
         NEW c \in ContainerId, registry.bindings[c] # registry'.bindings[c]
  PROVE  OwnChange(c)
<1> DEFINE d == a.id.container
           b == Binding(a.id.host, a.id.mount, "ATTACHED", a.root)
<1>1. SoundRegistry(registry) /\ d \in ContainerId /\ a.id \in Identity
  BY DEF ContainerInv, ContainerTypes, AttemptRecord, Identity
<1>2. attempts \ attempts' = {a}
  BY ArrivedAttempt
<1>3. b.state = "ATTACHED" /\ b.root_id = a.root /\ Unbound.state = "UNBOUND"
  BY DEF Unbound, Binding
<1> HIDE DEF b
<1>4. /\ Reserved(registry, d, a.id.host, a.id.mount)
      /\ \/ registry'.bindings = [registry.bindings EXCEPT ![d] = Unbound]
         \/ registry'.bindings = [registry.bindings EXCEPT ![d] = b]
  <2>1. CASE a.stage = "failed"
    <3>1. registry' = AttachFailed(registry, d, a.id.host, a.id.mount).registry
      BY <2>1 DEF ResultArrives, CarryOut
    <3>2. QED
      BY <1>1, <3>1, AttachFailedFacts
  <2>2. CASE a.stage = "added"
    <3>1. registry' = AttachSucceeded(registry, d, a.id.host, a.id.mount, a.root).registry
      BY <2>2 DEF ResultArrives, CarryOut
    <3>2. a.root \in Nat \ {0}
      BY <2>2, ContainerAssumption DEF ContainerInv, ContainerTypes, AttemptsAreDistinct
    <3>3. Reserved(registry, d, a.id.host, a.id.mount)
      BY <1>1, <3>1, <3>2, StaleResultFacts
    <3>4. QED
      BY <1>1, <3>1, <3>2, <3>3, AttachFacts DEF b
  <2>3. QED
    BY <2>1, <2>2 DEF ResultArrives
<1>5. c = d /\ (registry'.bindings[c] = Unbound \/ registry'.bindings[c] = b)
  BY <1>1, <1>4 DEF SoundRegistry, RegistryRecord
<1>6. a.id = Mount(c) /\ registry.bindings[c].state = "RESERVED"
  BY <1>1, <1>4, <1>5, ReservedIsMount DEF Reserved
<1>7. QED
  BY <1>2, <1>3, <1>5, <1>6 DEF OwnChange

\* Work for an obsolete mount never touches the binding that took the container since.
THEOREM OwnWorkOnly == Spec => OnlyOwnWork
<1>1. ASSUME ContainerInv, [Next]_vars
      PROVE  \A c \in ContainerId :
               registry.bindings[c] # registry'.bindings[c] => OwnChange(c)
  BY <1>1, ClaimIsOwn, ReleaseIsOwn, ResultIsOwn DEF Next, ViewAdded, ViewFails, vars
<1>2. QED
  BY <1>1, ContainerInvariant, PTL DEF Spec, OnlyOwnWork, OwnChange, Mount
=============================================================================
