--------------------------- MODULE AndroidHostProofs ---------------------------
(***************************************************************************)
(* Proofs about the composed Android hosts, for any hosts, identities and  *)
(* last mount id, Kotlin long and generation, and any position of the      *)
(* allocators.                                                             *)
(*                                                                         *)
(* Whatever the composition chains, a step of host i is one of four        *)
(* changes of ownership: it keeps what it has, takes a container, gets its *)
(* surface, or gives up all it had.  The invariant is proved of these      *)
(* four, and each action is shown to be one of them.  The four are the     *)
(* steps of HostOwnership, which the composed hosts therefore implement.   *)
(***************************************************************************)
EXTENDS AndroidHostComposition, AndroidPartsProofs

IdentityRecord ==
  [container_id : Int, host_id : Int, surface_id : Int, root_id : Int, mount_id : 0..MaxMountId]

Allocator == {Surfaces!Available(n) : n \in 1..MaxGeneration} \cup {Surfaces!Exhausted}

HostTypes ==
  /\ facade \in [Host -> FacadeRecord]
  /\ identity \in [Host -> IdentityRecord]
  /\ SoundRegistry(containers) /\ containers.retired_roots \subseteq RootId
  /\ surfaces \in [allocator : Allocator, active : SUBSET Surfaces!Handle]

\* The states of a facade that only ever runs on the main thread.
Holding == {"CREATING", "ACTIVE"}
Ended == {"CLOSE_PENDING_CREATE", "CLOSED", "FAILED"}

SoundHost(i) ==
  /\ Sound(facade[i]) /\ facade[i].state \in {"NEW"} \cup Holding \cup Ended
  /\ Owner(i) <=> facade[i].state \in Holding
  /\ facade[i].state \in Holding \cup {"CLOSE_PENDING_CREATE"} =>
       identity[i].surface_id \in SurfaceId /\ identity[i].surface_id \in 1..MaxLong

\* The mounts of owners are the bindings of the registry, one for each.
Mounted(i) ==
  /\ identity[i].container_id \in ContainerId /\ identity[i].root_id \in RootId
  /\ OwnBinding(i) = Binding(identity[i].host_id, identity[i].mount_id, "ATTACHED", identity[i].root_id)

MountsMatch ==
  /\ \A i \in Host : Owner(i) => Mounted(i)
  /\ \A i, j \in Host : Owner(i) /\ Owner(j) /\ i # j => identity[i].container_id # identity[j].container_id
  /\ \A c \in ContainerId : Bound(containers, c) => \E i \in Host : Owner(i) /\ identity[i].container_id = c

\* The handles of active facades are the live surfaces, one for each.
Active(i) == facade[i].state = "ACTIVE"

SurfacesMatch ==
  /\ \A i \in Host : Active(i) =>
       facade[i].handle \in surfaces.active /\ facade[i].handle.surface_id = identity[i].surface_id
  /\ \A i, j \in Host : Active(i) /\ Active(j) /\ i # j => facade[i].handle # facade[j].handle
  /\ \A h \in surfaces.active : \E i \in Host : Active(i) /\ facade[i].handle = h

HostInv ==
  /\ HostTypes
  /\ \A i \in Host : SoundHost(i)
  /\ MountsMatch
  /\ SurfacesMatch
  /\ NoInternalError

-----------------------------------------------------------------------------
(* The four changes. *)

OthersKept(i) == \A j \in Host \ {i} : facade'[j] = facade[j] /\ identity'[j] = identity[j]

Keeps(i) ==
  /\ UNCHANGED <<identity, containers, surfaces>> /\ OthersKept(i)
  /\ facade'[i].state = facade[i].state /\ facade'[i].handle = facade[i].handle

Takes(i, c) ==
  /\ facade[i].state = "NEW" /\ facade'[i].state = "CREATING" /\ OthersKept(i)
  /\ ~Bound(containers, c)
  /\ identity'[i].container_id = c /\ identity'[i].mount_id # 0 /\ identity'[i].root_id \in RootId
  /\ identity'[i].surface_id \in SurfaceId /\ identity'[i].surface_id \in 1..MaxLong
  /\ containers'.bindings =
       [containers.bindings EXCEPT
          ![c] = Binding(identity'[i].host_id, identity'[i].mount_id, "ATTACHED", identity'[i].root_id)]
  /\ identity'[i].mount_id = containers.next_mount_id /\ containers.next_mount_id \in 1..MaxMountId
  /\ containers'.next_mount_id = containers.next_mount_id + 1
  /\ UNCHANGED surfaces

Gets(i, h) ==
  /\ facade[i].state = "CREATING" /\ facade'[i].state = "ACTIVE" /\ OthersKept(i)
  /\ h.surface_id = identity[i].surface_id /\ facade'[i].handle = h
  /\ \A k \in surfaces.active : k.surface_id # h.surface_id
  /\ surfaces'.active = surfaces.active \cup {h}
  /\ h.generation \in (1..MaxGeneration) \ Spent(surfaces)
  /\ Spent(surfaces') = Spent(surfaces) \cup {h.generation}
  /\ UNCHANGED <<identity, containers>>

NumbersKept ==
  containers'.next_mount_id = containers.next_mount_id /\ Spent(surfaces') = Spent(surfaces)

\* A number is spent on a mount or a surface that is gone when the call returns.
NumberWasted ==
  \/ /\ containers.next_mount_id \in 1..MaxMountId
     /\ containers'.next_mount_id = containers.next_mount_id + 1
     /\ Spent(surfaces') = Spent(surfaces)
  \/ /\ containers'.next_mount_id = containers.next_mount_id
     /\ \E g \in (1..MaxGeneration) \ Spent(surfaces) : Spent(surfaces') = Spent(surfaces) \cup {g}

GivesUp(i) ==
  /\ facade[i].state \notin {"CLOSED", "FAILED"}
  /\ facade'[i].state \in Ended /\ OthersKept(i)
  /\ NumbersKept \/ NumberWasted
  /\ facade'[i].state = "CLOSE_PENDING_CREATE" => facade[i].state = "CREATING" /\ NumbersKept
  /\ identity'[i].mount_id = 0
  /\ facade'[i].state = "CLOSE_PENDING_CREATE" =>
       identity'[i].surface_id \in SurfaceId /\ identity'[i].surface_id \in 1..MaxLong
  /\ containers'.bindings = IF Owner(i)
                            THEN [containers.bindings EXCEPT ![identity[i].container_id] = Unbound]
                            ELSE containers.bindings
  /\ surfaces'.active = surfaces.active \ {facade[i].handle}

Changes(i) ==
  /\ HostTypes' /\ Sound(facade'[i]) /\ NoInternalError'
  /\ Keeps(i) \/ (\E c \in ContainerId : Takes(i, c)) \/ (\E h : Gets(i, h)) \/ GivesUp(i)

\* A facade has a handle exactly while it is active.
LEMMA HandleFacts ==
  ASSUME HostInv, NEW i \in Host
  PROVE  /\ facade[i].handle # NoHandle <=> Active(i)
         /\ NoHandle \notin surfaces.active
<1>1. facade[i].handle # NoHandle <=> Active(i)
  BY DEF HostInv, SoundHost, Sound, ValidFacade, Active, Holding, Ended, QueuedFrom
<1>2. NoHandle \notin surfaces.active
  <2> SUFFICES ASSUME NoHandle \in surfaces.active PROVE FALSE
    OBVIOUS
  <2>1. PICK j \in Host : Active(j) /\ facade[j].handle = NoHandle
    BY DEF HostInv, SurfacesMatch
  <2>2. QED
    BY <2>1 DEF HostInv, SoundHost, Sound, ValidFacade, Active
<1>3. QED
  BY <1>1, <1>2

\* What a change leaves of the other hosts.
LEMMA OthersSound ==
  ASSUME HostInv, NEW i \in Host, HostTypes', Sound(facade'[i]), OthersKept(i),
         NEW j \in Host, j # i
  PROVE  SoundHost(j)' /\ Owner(j)' = Owner(j) /\ Active(j)' = Active(j)
  BY DEF HostInv, SoundHost, OthersKept, Owner, Active

LEMMA KeepsInv ==
  ASSUME HostInv, NEW i \in Host, HostTypes', Sound(facade'[i]), NoInternalError', Keeps(i)
  PROVE  HostInv'
<1>1. \A j \in Host : facade'[j].state = facade[j].state /\ facade'[j].handle = facade[j].handle
  BY DEF Keeps, OthersKept
<1>2. \A j \in Host : Owner(j)' = Owner(j) /\ Active(j)' = Active(j) /\ Mounted(j)' = Mounted(j)
  BY <1>1 DEF Keeps, Owner, Active, Mounted, OwnBinding
<1>3. \A j \in Host : SoundHost(j)'
  BY <1>1, <1>2 DEF HostInv, SoundHost, Keeps, OthersKept
<1>4. MountsMatch'
  BY <1>2 DEF HostInv, MountsMatch, Keeps
<1>5. SurfacesMatch'
  BY <1>1, <1>2 DEF HostInv, SurfacesMatch, Keeps
<1>6. QED
  BY <1>3, <1>4, <1>5 DEF HostInv

LEMMA TakesInv ==
  ASSUME HostInv, NEW i \in Host, HostTypes', Sound(facade'[i]), NoInternalError',
         NEW c \in ContainerId, Takes(i, c)
  PROVE  HostInv'
<1> DEFINE b == Binding(identity'[i].host_id, identity'[i].mount_id, "ATTACHED", identity'[i].root_id)
<1>1. /\ \A d \in ContainerId : containers'.bindings[d] = IF d = c THEN b ELSE containers.bindings[d]
      /\ b.state = "ATTACHED"
  BY DEF Takes, HostInv, HostTypes, SoundRegistry, RegistryRecord, Binding
<1>2. /\ facade[i].state = "NEW" /\ facade'[i].state = "CREATING" /\ OthersKept(i)
      /\ ~Owner(i) /\ Owner(i)' /\ ~Active(i) /\ ~Active(i)'
      /\ identity'[i].container_id = c /\ SoundHost(i)'
  BY DEF Takes, HostInv, SoundHost, Holding, Ended, Owner, Active
<1>3. \A j \in Host \ {i} : SoundHost(j)' /\ Owner(j)' = Owner(j) /\ Active(j)' = Active(j)
                           /\ identity'[j] = identity[j] /\ facade'[j] = facade[j]
  BY <1>2, OthersSound DEF OthersKept
<1>4. Mounted(i)'
  BY <1>1, <1>2 DEF Mounted, OwnBinding, Takes
<1>5. ASSUME NEW j \in Host \ {i}, Owner(j)
      PROVE  Mounted(j)' /\ identity[j].container_id # c
  <2>1. Mounted(j)
    BY <1>5 DEF HostInv, MountsMatch
  <2>2. Bound(containers, identity[j].container_id)
    BY <2>1 DEF Mounted, OwnBinding, Bound, Binding
  <2>3. identity[j].container_id # c
    BY <2>2 DEF Takes
  <2>4. QED
    BY <1>1, <1>3, <2>1, <2>3 DEF Mounted, OwnBinding
<1>6. MountsMatch'
  <2>1. \A j \in Host : Owner(j)' => Mounted(j)'
    BY <1>3, <1>4, <1>5
  <2>2. ASSUME NEW j \in Host, NEW k \in Host, Owner(j)', Owner(k)', j # k
        PROVE  identity'[j].container_id # identity'[k].container_id
    BY <1>2, <1>3, <1>5, <2>2 DEF HostInv, MountsMatch
  <2>3. ASSUME NEW d \in ContainerId, Bound(containers', d)
        PROVE  \E j \in Host : Owner(j)' /\ identity'[j].container_id = d
    <3>1. CASE d = c
      BY <1>2, <3>1
    <3>2. CASE d # c
      <4>1. Bound(containers, d)
        BY <1>1, <2>3, <3>2 DEF Bound
      <4>2. PICK j \in Host : Owner(j) /\ identity[j].container_id = d
        BY <4>1 DEF HostInv, MountsMatch
      <4>3. QED
        BY <1>2, <1>3, <4>2
    <3>3. QED
      BY <3>1, <3>2
  <2>4. QED
    BY <2>1, <2>2, <2>3 DEF MountsMatch
<1>7. SurfacesMatch'
  BY <1>2, <1>3 DEF HostInv, SurfacesMatch, Takes
<1>8. QED
  BY <1>2, <1>3, <1>6, <1>7 DEF HostInv

LEMMA GetsInv ==
  ASSUME HostInv, NEW i \in Host, HostTypes', Sound(facade'[i]), NoInternalError', NEW h, Gets(i, h)
  PROVE  HostInv'
<1>1. /\ facade[i].state = "CREATING" /\ facade'[i].state = "ACTIVE" /\ OthersKept(i)
      /\ Owner(i) /\ Owner(i)' /\ ~Active(i) /\ Active(i)' /\ SoundHost(i)'
  BY DEF Gets, HostInv, SoundHost, Holding, Ended, Owner, Active
<1>2. \A j \in Host \ {i} : SoundHost(j)' /\ Owner(j)' = Owner(j) /\ Active(j)' = Active(j)
                           /\ facade'[j] = facade[j]
  BY <1>1, OthersSound DEF OthersKept
<1>3. MountsMatch'
  BY <1>1, <1>2 DEF HostInv, MountsMatch, Mounted, OwnBinding, Gets
<1>4. SurfacesMatch'
  <2>1. ASSUME NEW j \in Host, Active(j)'
        PROVE  /\ facade'[j].handle \in surfaces'.active
               /\ facade'[j].handle.surface_id = identity'[j].surface_id
    BY <1>1, <1>2, <2>1 DEF HostInv, SurfacesMatch, Gets
  <2>2. ASSUME NEW j \in Host \ {i}, Active(j) PROVE facade[j].handle # h
    BY <2>2 DEF HostInv, SurfacesMatch, Gets
  <2>3. ASSUME NEW j \in Host, NEW k \in Host, Active(j)', Active(k)', j # k
        PROVE  facade'[j].handle # facade'[k].handle
    BY <1>1, <1>2, <2>2, <2>3 DEF HostInv, SurfacesMatch, Gets
  <2>4. ASSUME NEW k \in surfaces'.active
        PROVE  \E j \in Host : Active(j)' /\ facade'[j].handle = k
    <3>1. CASE k = h
      BY <1>1, <3>1 DEF Gets
    <3>2. CASE k # h
      BY <1>1, <1>2, <3>2 DEF HostInv, SurfacesMatch, Gets
    <3>3. QED
      BY <3>1, <3>2
  <2>5. QED
    BY <2>1, <2>3, <2>4 DEF SurfacesMatch
<1>5. QED
  BY <1>1, <1>2, <1>3, <1>4 DEF HostInv

LEMMA GivesUpInv ==
  ASSUME HostInv, NEW i \in Host, HostTypes', Sound(facade'[i]), NoInternalError', GivesUp(i)
  PROVE  HostInv'
<1> DEFINE c == identity[i].container_id
<1>1. /\ OthersKept(i) /\ ~Owner(i)' /\ ~Active(i)' /\ SoundHost(i)'
  BY DEF GivesUp, SoundHost, Holding, Ended, Owner, Active
<1>2. \A j \in Host \ {i} : SoundHost(j)' /\ Owner(j)' = Owner(j) /\ Active(j)' = Active(j)
                           /\ identity'[j] = identity[j] /\ facade'[j] = facade[j]
  BY <1>1, OthersSound DEF OthersKept
<1>3. \A d \in ContainerId :
        containers'.bindings[d] = IF Owner(i) /\ d = c THEN Unbound ELSE containers.bindings[d]
  BY DEF GivesUp, HostInv, HostTypes, SoundRegistry, RegistryRecord
<1>4. MountsMatch'
  <2>1. ASSUME NEW j \in Host, Owner(j)' PROVE Mounted(j)'
    <3>1. j # i /\ Owner(j) /\ identity'[j] = identity[j]
      BY <1>1, <1>2, <2>1
    <3>2. Mounted(j) /\ (Owner(i) => identity[j].container_id # c)
      BY <3>1 DEF HostInv, MountsMatch
    <3>3. QED
      BY <1>3, <3>1, <3>2 DEF Mounted, OwnBinding
  <2>2. ASSUME NEW j \in Host, NEW k \in Host, Owner(j)', Owner(k)', j # k
        PROVE  identity'[j].container_id # identity'[k].container_id
    BY <1>1, <1>2, <2>2 DEF HostInv, MountsMatch
  <2>3. ASSUME NEW d \in ContainerId, Bound(containers', d)
        PROVE  \E j \in Host : Owner(j)' /\ identity'[j].container_id = d
    <3>1. ~(Owner(i) /\ d = c) /\ Bound(containers, d)
      BY <1>3, <2>3 DEF Bound, Unbound, Binding
    <3>2. PICK j \in Host : Owner(j) /\ identity[j].container_id = d
      BY <3>1 DEF HostInv, MountsMatch
    <3>3. QED
      BY <1>2, <3>1, <3>2
  <2>4. QED
    BY <2>1, <2>2, <2>3 DEF MountsMatch
<1>5. SurfacesMatch'
  <2>1. ASSUME NEW j \in Host \ {i}, Active(j) PROVE facade[j].handle # facade[i].handle
    BY <2>1, HandleFacts DEF HostInv, SurfacesMatch
  <2>2. ASSUME NEW j \in Host, Active(j)'
        PROVE  /\ facade'[j].handle \in surfaces'.active
               /\ facade'[j].handle.surface_id = identity'[j].surface_id
    BY <1>1, <1>2, <2>1, <2>2 DEF HostInv, SurfacesMatch, GivesUp
  <2>3. ASSUME NEW j \in Host, NEW k \in Host, Active(j)', Active(k)', j # k
        PROVE  facade'[j].handle # facade'[k].handle
    BY <1>1, <1>2, <2>3 DEF HostInv, SurfacesMatch
  <2>4. ASSUME NEW h \in surfaces'.active
        PROVE  \E j \in Host : Active(j)' /\ facade'[j].handle = h
    <3>1. h \in surfaces.active /\ h # facade[i].handle
      BY DEF GivesUp
    <3>2. PICK j \in Host : Active(j) /\ facade[j].handle = h
      BY <3>1 DEF HostInv, SurfacesMatch
    <3>3. QED
      BY <1>2, <3>1, <3>2
  <2>5. QED
    BY <2>2, <2>3, <2>4 DEF SurfacesMatch
<1>6. QED
  BY <1>1, <1>2, <1>4, <1>5 DEF HostInv

LEMMA ChangesInv ==
  ASSUME HostInv, NEW i \in Host, Changes(i)
  PROVE  HostInv'
  BY KeepsInv, TakesInv, GetsInv, GivesUpInv DEF Changes

-----------------------------------------------------------------------------
(* Each action is one of the changes. *)

\* What the facade's operations do on the main thread, of any sound facade.
LEMMA CreationRequested ==
  ASSUME NEW f, Sound(f), f.state = "NEW"
  PROVE  LET g == RequestCreate(f, "main").facade IN Sound(g) /\ g.state = "CREATING"
<1>1. Sound(RequestCreate(f, "main").facade)
  BY RequestCreateSound DEF Thread
<1>2. RequestCreate(f, "main") = Moved(f, "CREATING", "CALL_NATIVE_CREATE")
  BY DEF RequestCreate
<1>3. QED
  BY <1>1, <1>2, MovedFields DEF Sound, FacadeStates

LEMMA CreationFailed ==
  ASSUME NEW f, Sound(f), f.state \in {"CREATING", "CLOSE_PENDING_CREATE"}, NEW reason \in Reason
  PROVE  LET answer == CreateFailed(f, "main", reason)
         IN answer.effect = "NONE" /\ Sound(answer.facade) /\ answer.facade.state = "FAILED"
<1> DEFINE named == [f EXCEPT !.failure = <<"CREATE", reason>>]
<1>1. Sound(CreateFailed(f, "main", reason).facade)
  BY CreateFailedSound DEF Thread
<1>2. CreateFailed(f, "main", reason) = Moved(named, "FAILED", "NONE")
  BY DEF CreateFailed, OnMain
<1>3. named \in FacadeRecord
  BY DEF Sound, FacadeRecord
<1> HIDE DEF named
<1>4. QED
  BY <1>1, <1>2, <1>3, MovedFields DEF FacadeStates

LEMMA FailedCreation ==
  ASSUME NEW f, Sound(f), f.state \in {"NEW", "CREATING", "CLOSE_PENDING_CREATE"}
  PROVE  LET g == FailCreation(f, "HOST_UNAVAILABLE") IN Sound(g) /\ g.state = "FAILED"
<1> DEFINE f1 == IF f.state = "NEW" THEN RequestCreate(f, "main").facade ELSE f
<1>1. Sound(f1) /\ f1.state \in {"CREATING", "CLOSE_PENDING_CREATE"}
  BY CreationRequested
<1> HIDE DEF f1
<1>2. FailCreation(f, "HOST_UNAVAILABLE") = CreateFailed(f1, "main", "HOST_UNAVAILABLE").facade
  BY DEF FailCreation, f1
<1>3. QED
  BY <1>1, <1>2, CreationFailed DEF Reason

\* A late disposal, or one by the application, ends a closing facade.
LEMMA DisposalEnds ==
  ASSUME NEW f, Sound(f), f.state = "CLOSING"
  PROVE  LET g == DisposeSucceeded(f, "main").facade IN Sound(g) /\ g.state = "CLOSED"
<1> DEFINE named == [f EXCEPT !.handle = NoHandle]
<1>1. Sound(DisposeSucceeded(f, "main").facade)
  BY DisposeSucceededSound DEF Thread
<1>2. DisposeSucceeded(f, "main") = Moved(named, "CLOSED", "NONE")
  BY DEF DisposeSucceeded, OnMain
<1>3. NoHandle \in [surface_id : Int, generation : Int]
  BY DEF NoHandle
<1>4. named \in FacadeRecord
  BY <1>3 DEF Sound, FacadeRecord
<1> HIDE DEF named
<1>5. QED
  BY <1>1, <1>2, <1>4, MovedFields DEF FacadeStates

LEMMA CreationSucceeds ==
  ASSUME NEW f, Sound(f), NEW h \in [surface_id : Int, generation : Int], ValidHandle(h)
  PROVE  LET answer == CreateSucceeded(f, "main", h)
             g == answer.facade
         IN /\ f.state = "CREATING" =>
                 answer.effect = "NONE" /\ Sound(g) /\ g.state = "ACTIVE" /\ g.handle = h
            /\ f.state = "CLOSE_PENDING_CREATE" =>
                 answer.effect = "CALL_NATIVE_DISPOSE" /\ Sound(g) /\ g.state = "CLOSING"
<1> DEFINE named == [f EXCEPT !.handle = h]
<1>1. Sound(CreateSucceeded(f, "main", h).facade)
  BY CreateSucceededSound DEF Thread
<1>2. named \in FacadeRecord /\ named.handle = h
  BY DEF Sound, FacadeRecord
<1>3. /\ f.state = "CREATING" => CreateSucceeded(f, "main", h) = Moved(named, "ACTIVE", "NONE")
      /\ f.state = "CLOSE_PENDING_CREATE" =>
           CreateSucceeded(f, "main", h) = Moved(named, "CLOSING", "CALL_NATIVE_DISPOSE")
  BY DEF CreateSucceeded, OnMain, QueuedFrom
<1> HIDE DEF named
<1>4. \A state \in {"ACTIVE", "CLOSING"} : \A effect :
        LET answer == Moved(named, state, effect)
        IN answer.effect = effect /\ answer.facade.state = state /\ answer.facade.handle = h
  BY <1>2, MovedFields DEF FacadeStates
<1>5. QED
  BY <1>1, <1>3, <1>4

LEMMA CloseMoves ==
  ASSUME NEW f, Sound(f), f.state \in {"NEW"} \cup Holding \cup Ended
  PROVE  LET answer == RequestClose(f, "main")
             g == answer.facade
         IN /\ Sound(g)
            /\ f.state = "NEW" => g.state = "CLOSED" /\ answer.effect # "CALL_NATIVE_DISPOSE"
            /\ f.state = "CREATING" =>
                 g.state = "CLOSE_PENDING_CREATE" /\ answer.effect # "CALL_NATIVE_DISPOSE"
            /\ f.state = "ACTIVE" =>
                 g.state = "CLOSING" /\ answer.effect = "CALL_NATIVE_DISPOSE" /\ g.handle = f.handle
            /\ f.state \in Ended => g = f /\ answer.effect = "NONE"
<1>1. Sound(RequestClose(f, "main").facade)
  BY RequestCloseSound DEF Thread
<1>2. \A state \in FacadeStates : \A effect :
        LET answer == Moved(f, state, effect)
        IN answer.effect = effect /\ answer.facade.state = state /\ answer.facade.handle = f.handle
  BY MovedFields DEF Sound
<1>3. /\ f.state = "NEW" => RequestClose(f, "main") = Moved(f, "CLOSED", "NONE")
      /\ f.state = "CREATING" => RequestClose(f, "main") = Moved(f, "CLOSE_PENDING_CREATE", "NONE")
      /\ f.state = "ACTIVE" => RequestClose(f, "main") = Moved(f, "CLOSING", "CALL_NATIVE_DISPOSE")
      /\ f.state \in Ended => RequestClose(f, "main") = Answer(f, "NONE")
  BY DEF RequestClose, CloseOnMain, Ended
<1>4. f.state \in Ended =>
        RequestClose(f, "main").facade = f /\ RequestClose(f, "main").effect = "NONE"
  BY <1>3 DEF Answer
<1>5. QED
  BY <1>1, <1>2, <1>3, <1>4 DEF FacadeStates

\* _release_owned_container: the owner's binding, with the root it shows, or nothing.
LEMMA ReleaseOwnedFacts ==
  ASSUME HostInv, NEW i \in Host, ReleaseOwned(i, containers)
  PROVE  /\ SoundRegistry(containers') /\ containers'.retired_roots \subseteq RootId
         /\ containers'.next_mount_id = containers.next_mount_id
         /\ containers'.bindings = IF Owner(i)
                                   THEN [containers.bindings EXCEPT ![identity[i].container_id] = Unbound]
                                   ELSE containers.bindings
         /\ identity' \in [Host -> IdentityRecord]
         /\ identity'[i].mount_id = 0 /\ identity'[i].surface_id = identity[i].surface_id
         /\ \A j \in Host \ {i} : identity'[j] = identity[j]
<1> DEFINE c == identity[i].container_id
           b == OwnBinding(i)
<1>1. SoundRegistry(containers) /\ containers.retired_roots \subseteq RootId
      /\ identity \in [Host -> IdentityRecord]
  BY DEF HostInv, HostTypes
<1>2. identity' = [identity EXCEPT ![i].mount_id = 0] /\ 0 \in 0..MaxMountId
  BY MountAssumption DEF ReleaseOwned
<1>3. /\ identity' \in [Host -> IdentityRecord]
      /\ identity'[i].mount_id = 0 /\ identity'[i].surface_id = identity[i].surface_id
      /\ \A j \in Host \ {i} : identity'[j] = identity[j]
  BY <1>1, <1>2 DEF IdentityRecord
<1>4. CASE ~Owner(i)
  BY <1>1, <1>3, <1>4 DEF ReleaseOwned, Owner
<1>5. CASE Owner(i)
  <2>1. /\ c \in ContainerId /\ identity[i].root_id \in RootId
        /\ b = Binding(identity[i].host_id, identity[i].mount_id, "ATTACHED", identity[i].root_id)
    BY <1>5 DEF HostInv, MountsMatch, Mounted
  <2>2. /\ Current(containers, c, identity[i].host_id, identity[i].mount_id)
        /\ ~Reserved(containers, c, identity[i].host_id, identity[i].mount_id)
        /\ containers.bindings[c].root_id = identity[i].root_id
    BY <2>1 DEF Current, Reserved, OwnBinding, Binding
  <2>3. containers' = Release(containers, c, identity[i].host_id, identity[i].mount_id).registry
    BY <1>5 DEF ReleaseOwned, Owner
  <2>4. /\ SoundRegistry(containers')
        /\ containers'.bindings = [containers.bindings EXCEPT ![c] = Unbound]
        /\ containers'.retired_roots = containers.retired_roots \cup {identity[i].root_id}
    BY <1>1, <2>1, <2>2, <2>3, ReleaseFacts
  <2>5. containers'.next_mount_id = containers.next_mount_id
    <3>1. Release(containers, c, identity[i].host_id, identity[i].mount_id)
            = Emits(Retire(Unbind(containers, c), containers.bindings[c].root_id),
                    "REMOVE_ROOT", containers.bindings[c].root_id, identity[i].mount_id)
      BY <2>2 DEF Release
    <3>2. containers' = Retire(Unbind(containers, c), containers.bindings[c].root_id)
      BY <2>3, <3>1 DEF Emits
    <3> HIDE DEF c, b
    <3>3. containers \in RegistryRecord
      BY <1>1 DEF SoundRegistry
    <3>4. QED
      BY <3>2, <3>3 DEF Retire, Unbind, RegistryRecord
  <2>6. QED
    BY <1>1, <1>3, <1>5, <2>1, <2>4, <2>5
<1>6. QED
  BY <1>4, <1>5

Lifecycle == [allocator : Allocator, active : SUBSET Surfaces!Handle]

LEMMA DisposeFields ==
  ASSUME NEW s \in Lifecycle, NEW h
  PROVE  /\ Surfaces!AfterDispose(s, h) \in Lifecycle
         /\ Surfaces!AfterDispose(s, h).active = s.active \ {h}
         /\ Spent(Surfaces!AfterDispose(s, h)) = Spent(s)
  BY DEF Lifecycle, Surfaces!AfterDispose, Spent

\* A created surface is new under its identity, and disposing of it undoes its creation.
LEMMA SurfaceCreated ==
  ASSUME NEW s \in Lifecycle, NEW id \in SurfaceId, Surfaces!CreateCode(s, id) = "created"
  PROVE  LET h == Surfaces!NewHandle(s, id)
             created == Surfaces!AfterCreate(s, id)
             disposed == Surfaces!AfterDispose(created, h)
         IN /\ h \in Surfaces!Handle /\ h.surface_id = id /\ h.generation \in 1..MaxGeneration
            /\ \A k \in s.active : k.surface_id # id
            /\ created \in Lifecycle /\ created.active = s.active \cup {h}
            /\ disposed \in Lifecycle /\ disposed.active = s.active
            /\ h.generation \notin Spent(s)
            /\ Spent(created) = Spent(s) \cup {h.generation}
            /\ Spent(disposed) = Spent(s) \cup {h.generation}
<1> DEFINE h == Surfaces!NewHandle(s, id)
           created == Surfaces!AfterCreate(s, id)
<1>1. s.allocator # Surfaces!Exhausted /\ \A k \in s.active : k.surface_id # id
  BY DEF Surfaces!CreateCode
<1>2. PICK n \in 1..MaxGeneration : s.allocator = Surfaces!Available(n)
  BY <1>1 DEF Lifecycle, Allocator
<1>3. s.allocator.next = n
  BY <1>2 DEF Surfaces!Available
<1>4. h \in Surfaces!Handle /\ h.surface_id = id /\ h.generation \in 1..MaxGeneration
  BY <1>3 DEF Surfaces!NewHandle, Surfaces!Handle
<1>5. created = [active |-> s.active \cup {h},
                 allocator |-> IF n = MaxGeneration THEN Surfaces!Exhausted ELSE Surfaces!Available(n + 1)]
  BY <1>3 DEF Surfaces!AfterCreate
<1> HIDE DEF h
<1>6. (IF n = MaxGeneration THEN Surfaces!Exhausted ELSE Surfaces!Available(n + 1)) \in Allocator
  BY GenerationAssumption DEF Allocator
<1>7. created \in Lifecycle /\ created.active = s.active \cup {h}
  BY <1>4, <1>5, <1>6 DEF Lifecycle
<1>8. /\ h.generation = n /\ n \notin Spent(s)
      /\ Spent(created) = Spent(s) \cup {n}
  <2>1. h.generation = n /\ s.allocator.next = n /\ s.allocator # Surfaces!Exhausted
    BY <1>1, <1>3 DEF h, Surfaces!NewHandle
  <2>2. Spent(s) = {g \in 1..MaxGeneration : g < n}
    BY <2>1 DEF Spent
  <2>3. Spent(created) = {g \in 1..MaxGeneration : g < n \/ g = n}
    <3>1. CASE n = MaxGeneration
      <4>1. created.allocator = Surfaces!Exhausted
        BY <1>5, <3>1
      <4>2. \A g \in 1..MaxGeneration : g < n \/ g = n
        BY <3>1, GenerationAssumption
      <4>3. QED
        BY <4>1, <4>2 DEF Spent
    <3>2. CASE n # MaxGeneration
      <4>1. created.allocator.next = n + 1 /\ created.allocator # Surfaces!Exhausted
        BY <1>5, <3>2 DEF Surfaces!Available, Surfaces!Exhausted
      <4>2. \A g \in 1..MaxGeneration : g < n + 1 <=> (g < n \/ g = n)
        BY GenerationAssumption
      <4>3. QED
        BY <4>1, <4>2 DEF Spent
    <3>3. QED
      BY <3>1, <3>2
  <2>4. QED
    BY <2>1, <2>2, <2>3
<1> HIDE DEF created
<1>9. h \notin s.active
  BY <1>1, <1>4
<1>10. /\ Surfaces!AfterDispose(created, h) \in Lifecycle
       /\ Surfaces!AfterDispose(created, h).active = s.active
  <2>1. /\ Surfaces!AfterDispose(created, h) \in Lifecycle
        /\ Surfaces!AfterDispose(created, h).active = created.active \ {h}
    BY <1>7, DisposeFields
  <2>2. created.active \ {h} = s.active
    BY <1>7, <1>9
  <2>3. QED
    BY <2>1, <2>2
<1>11. Spent(Surfaces!AfterDispose(created, h)) = Spent(created)
  BY <1>7, DisposeFields
<1>12. QED
  BY <1>1, <1>4, <1>7, <1>10, <1>8, <1>11 DEF h, created

LEMMA FacadeSet ==
  ASSUME HostInv, NEW i \in Host, NEW g, Sound(g), facade' = [facade EXCEPT ![i] = g]
  PROVE  /\ facade' \in [Host -> FacadeRecord] /\ facade'[i] = g
         /\ \A j \in Host \ {i} : facade'[j] = facade[j]
  BY DEF HostInv, HostTypes, Sound

LEMMA UnchangedChanges ==
  ASSUME HostInv, NEW i \in Host, UNCHANGED <<facade, identity, containers, surfaces>>, NoInternalError'
  PROVE  Changes(i)
  BY DEF HostInv, HostTypes, SoundHost, Changes, Keeps, OthersKept

LEMMA RejectChanges ==
  ASSUME HostInv, NEW i \in Host, NEW code, code # "INTERNAL_INVARIANT", Reject(code)
  PROVE  Changes(i)
<1>1. Error(code) # Error("INTERNAL_INVARIANT")
  BY DEF Error, Outcome
<1>2. NoInternalError'
  BY <1>1 DEF Reject, NoInternalError
<1>3. QED
  BY <1>2, UnchangedChanges DEF Reject

\* An outcome of another type is no internal error.
LEMMA OutcomeFacts ==
  ASSUME NEW type, type # "error", NEW reason
  PROVE  Outcome(type, reason) # Error("INTERNAL_INVARIANT")
  BY DEF Outcome, Error

LEMMA NativeCreateFailedChanges ==
  ASSUME HostInv, NEW i \in Host, NEW reason \in Reason, NativeCreateFailed(i, reason)
  PROVE  Changes(i)
<1> DEFINE answer == CreateFailed(facade[i], "main", reason)
           f == facade[i]
<1>1. Sound(f) /\ f.state \in {"NEW"} \cup Holding \cup Ended
  BY DEF HostInv, SoundHost
<1>2. CASE f.state \notin {"CREATING", "CLOSE_PENDING_CREATE"}
  <2>1. answer.effect = "INVALID_TRANSITION"
    BY <1>1, <1>2 DEF CreateFailed, OnMain, Invalid, Answer, QueuedFrom, Holding, Ended
  <2>2. Reject("INVALID_TRANSITION")
    BY <2>1 DEF NativeCreateFailed
  <2>3. QED
    BY <2>2, RejectChanges
<1>3. CASE f.state \in {"CREATING", "CLOSE_PENDING_CREATE"}
  <2> DEFINE g == answer.facade
  <2>1. answer.effect = "NONE" /\ Sound(g) /\ g.state = "FAILED"
    BY <1>1, <1>3, CreationFailed
  <2>2. /\ ReleaseOwned(i, containers) /\ facade' = [facade EXCEPT ![i] = g]
        /\ outcome' = Outcome("START_FAILED", reason) /\ surfaces' = surfaces
    BY <2>1 DEF NativeCreateFailed, StartFailed
  <2> HIDE DEF answer, g
  <2>3. HostTypes' /\ OthersKept(i) /\ facade'[i] = g
    BY <2>1, <2>2, FacadeSet, ReleaseOwnedFacts DEF HostInv, HostTypes, OthersKept
  <2>4. surfaces'.active = surfaces.active \ {f.handle}
    BY <1>3, <2>2, HandleFacts DEF Active
  <2>5. GivesUp(i)
    BY <1>3, <2>1, <2>2, <2>3, <2>4, ReleaseOwnedFacts DEF GivesUp, Ended, NumbersKept
  <2>6. NoInternalError'
    BY <2>2, OutcomeFacts DEF NoInternalError
  <2>7. QED
    BY <2>1, <2>3, <2>5, <2>6 DEF Changes
<1>4. QED
  BY <1>2, <1>3

LEMMA NativeCallbackChanges ==
  ASSUME HostInv, NEW i \in Host, NEW h, NEW sequence, NativeCallback(i, h, sequence)
  PROVE  Changes(i)
<1> DEFINE answer == Callback(facade[i], "main", h, sequence)
           g == answer.facade
<1>1. Sound(facade[i]) /\ Sound(g)
  BY CallbackSound DEF HostInv, SoundHost, Thread
<1>2. g.state = facade[i].state /\ g.handle = facade[i].handle
  BY <1>1 DEF Callback, OnMain, Answer, Sound, FacadeRecord
<1>3. /\ UNCHANGED facade \/ facade' = [facade EXCEPT ![i] = g]
      /\ UNCHANGED <<identity, containers, surfaces>>
  BY DEF NativeCallback
<1>4. NoInternalError'
  <2>1. /\ Error("INVALID_ID") # Error("INTERNAL_INVARIANT")
        /\ \A r : Outcome("CALLBACK_DROPPED", r) # Error("INTERNAL_INVARIANT")
        /\ Outcome("CALLBACK_DELIVERED", "none") # Error("INTERNAL_INVARIANT")
    BY DEF Outcome, Error
  <2>2. QED
    BY <2>1 DEF NativeCallback, NoInternalError
<1> HIDE DEF g
<1>5. CASE UNCHANGED facade
  BY <1>3, <1>4, <1>5, UnchangedChanges
<1>6. CASE facade' = [facade EXCEPT ![i] = g]
  <2>1. HostTypes' /\ OthersKept(i) /\ facade'[i] = g
    BY <1>1, <1>3, <1>6, FacadeSet DEF HostInv, HostTypes, OthersKept
  <2>2. QED
    BY <1>1, <1>2, <1>3, <1>4, <2>1 DEF Changes, Keeps
<1>7. QED
  BY <1>3, <1>5, <1>6

LEMMA CloseChanges ==
  ASSUME HostInv, NEW i \in Host, Close(i)
  PROVE  Changes(i)
<1> DEFINE f == facade[i]
           answer == RequestClose(f, "main")
           g == answer.facade
<1>1. Sound(f) /\ f.state \in {"NEW"} \cup Holding \cup Ended /\ (Owner(i) <=> f.state \in Holding)
  BY DEF HostInv, SoundHost
<1>2. /\ Sound(g)
      /\ f.state = "NEW" => g.state = "CLOSED" /\ answer.effect # "CALL_NATIVE_DISPOSE"
      /\ f.state = "CREATING" =>
           g.state = "CLOSE_PENDING_CREATE" /\ answer.effect # "CALL_NATIVE_DISPOSE"
      /\ f.state = "ACTIVE" =>
           g.state = "CLOSING" /\ answer.effect = "CALL_NATIVE_DISPOSE" /\ g.handle = f.handle
      /\ f.state \in Ended => g = f /\ answer.effect = "NONE"
  BY <1>1, CloseMoves
<1>3. CASE f.state = "CREATING"
  <2>1. /\ ReleaseOwned(i, containers) /\ facade' = [facade EXCEPT ![i] = g]
        /\ outcome' = Outcome("CLOSE_WAITING_NATIVE", "none") /\ surfaces' = surfaces
    BY <1>2, <1>3 DEF Close
  <2> HIDE DEF answer, g
  <2>2. HostTypes' /\ OthersKept(i) /\ facade'[i] = g
    BY <1>2, <2>1, FacadeSet, ReleaseOwnedFacts DEF HostInv, HostTypes, OthersKept
  <2>3. surfaces'.active = surfaces.active \ {f.handle}
    BY <1>3, <2>1, HandleFacts DEF Active
  <2>4. identity[i].surface_id \in SurfaceId /\ identity[i].surface_id \in 1..MaxLong
    BY <1>3 DEF HostInv, SoundHost, Holding
  <2>5. GivesUp(i)
    BY <1>2, <1>3, <2>1, <2>2, <2>3, <2>4, ReleaseOwnedFacts DEF GivesUp, Ended, NumbersKept
  <2>6. NoInternalError'
    BY <2>1, OutcomeFacts DEF NoInternalError
  <2>7. QED
    BY <1>2, <2>2, <2>5, <2>6 DEF Changes
<1>4. CASE f.state = "ACTIVE"
  <2> DEFINE closed == DisposeSucceeded(g, "main").facade
  <2>1. g.handle = f.handle /\ f.handle \in surfaces.active
    BY <1>2, <1>4 DEF HostInv, SurfacesMatch, Active
  <2>2. /\ surfaces' = Surfaces!AfterDispose(surfaces, f.handle)
        /\ ReleaseOwned(i, containers)
        /\ facade' = [facade EXCEPT ![i] = closed]
        /\ outcome' = Outcome("CLOSED", "none")
    BY <1>2, <1>4, <2>1 DEF Close
  <2>3. Sound(closed) /\ closed.state = "CLOSED"
    BY <1>2, <1>4, DisposalEnds
  <2> HIDE DEF closed
  <2>4. surfaces' \in Lifecycle /\ surfaces'.active = surfaces.active \ {f.handle}
    BY <2>2, DisposeFields DEF HostInv, HostTypes, Lifecycle
  <2>5. HostTypes' /\ OthersKept(i) /\ facade'[i] = closed
    BY <2>2, <2>3, <2>4, FacadeSet, ReleaseOwnedFacts DEF HostTypes, Lifecycle, OthersKept
  <2>6. Spent(surfaces') = Spent(surfaces)
    BY <2>2, DisposeFields DEF HostInv, HostTypes, Lifecycle
  <2>7. GivesUp(i)
    BY <1>4, <2>2, <2>3, <2>4, <2>5, <2>6, ReleaseOwnedFacts DEF GivesUp, Ended, NumbersKept
  <2>8. NoInternalError'
    BY <2>2, OutcomeFacts DEF NoInternalError
  <2>9. QED
    BY <2>3, <2>5, <2>7, <2>8 DEF Changes
<1>5. CASE f.state \in {"NEW"} \cup Ended
  <2>1. /\ facade' = [facade EXCEPT ![i] = g] /\ outcome' = Outcome("NONE", "none")
        /\ UNCHANGED <<identity, containers, surfaces>>
    BY <1>2, <1>5 DEF Close, Ended
  <2> HIDE DEF answer, g
  <2>2. HostTypes' /\ OthersKept(i) /\ facade'[i] = g
    BY <1>2, <2>1, FacadeSet DEF HostInv, HostTypes, OthersKept
  <2>3. NoInternalError'
    BY <2>1, OutcomeFacts DEF NoInternalError
  <2>4. CASE f.state = "NEW"
    <3>1. identity[i].mount_id = 0 /\ ~Owner(i)
      BY <1>1, <2>4 DEF Owner, Holding
    <3>2. surfaces.active = surfaces.active \ {f.handle}
      BY <2>4, HandleFacts DEF Active
    <3>3. GivesUp(i)
      BY <1>2, <2>1, <2>2, <2>4, <3>1, <3>2 DEF GivesUp, Ended, NumbersKept
    <3>4. QED
      BY <1>2, <2>2, <2>3, <3>3 DEF Changes
  <2>5. CASE f.state \in Ended
    BY <1>2, <2>1, <2>2, <2>3, <2>5 DEF Changes, Keeps
  <2>6. QED
    BY <1>5, <2>4, <2>5
<1>6. QED
  BY <1>1, <1>3, <1>4, <1>5 DEF Holding

LEMMA NativeCreateSucceededChanges ==
  ASSUME HostInv, NEW i \in Host, NativeCreateSucceeded(i)
  PROVE  Changes(i)
<1> DEFINE f == facade[i]
           id == identity[i].surface_id
           code == Surfaces!CreateCode(surfaces, id)
           h == Surfaces!NewHandle(surfaces, id)
           created == Surfaces!AfterCreate(surfaces, id)
           disposed == Surfaces!AfterDispose(created, h)
           answer == CreateSucceeded(f, "main", h)
           failed == FailCreation(f, "HOST_UNAVAILABLE")
<1>1. Sound(f) /\ f.state \in {"NEW"} \cup Holding \cup Ended /\ (Owner(i) <=> f.state \in Holding)
      /\ surfaces \in Lifecycle
  BY DEF HostInv, SoundHost, HostTypes, Lifecycle
<1>2. CASE f.state \notin {"CREATING", "CLOSE_PENDING_CREATE"}
  <2>1. Reject("INVALID_TRANSITION")
    BY <1>2 DEF NativeCreateSucceeded
  <2>2. QED
    BY <2>1, RejectChanges
<1>3. CASE f.state \in {"CREATING", "CLOSE_PENDING_CREATE"}
  <2>1. id \in SurfaceId /\ id \in 1..MaxLong
    BY <1>3 DEF HostInv, SoundHost, Holding
  <2>2. surfaces.active = surfaces.active \ {f.handle}
    BY <1>3, HandleFacts DEF Active
  <2>3. Sound(failed) /\ failed.state = "FAILED"
    BY <1>1, <1>3, FailedCreation
  <2>4. code = "created" =>
          /\ h \in Surfaces!Handle /\ h.surface_id = id /\ h.generation \in 1..MaxGeneration
          /\ \A k \in surfaces.active : k.surface_id # id
          /\ created \in Lifecycle /\ created.active = surfaces.active \cup {h}
          /\ disposed \in Lifecycle /\ disposed.active = surfaces.active
          /\ h.generation \notin Spent(surfaces)
          /\ Spent(created) = Spent(surfaces) \cup {h.generation}
          /\ Spent(disposed) = Spent(surfaces) \cup {h.generation}
    BY <1>1, <2>1, SurfaceCreated
  <2>5. ASSUME NEW reason, ReleaseOwned(i, containers), StartFailed(i, failed, reason),
               surfaces' \in Lifecycle, surfaces'.active = surfaces.active,
               \/ Spent(surfaces') = Spent(surfaces)
               \/ \E g \in (1..MaxGeneration) \ Spent(surfaces) :
                    Spent(surfaces') = Spent(surfaces) \cup {g}
        PROVE  Changes(i)
    <3> HIDE DEF failed
    <3>1. facade' = [facade EXCEPT ![i] = failed] /\ outcome' = Outcome("START_FAILED", reason)
      BY <2>5 DEF StartFailed
    <3>2. HostTypes' /\ OthersKept(i) /\ facade'[i] = failed
      BY <2>3, <2>5, <3>1, FacadeSet, ReleaseOwnedFacts DEF HostTypes, Lifecycle, OthersKept
    <3>3. GivesUp(i)
      BY <1>3, <2>2, <2>3, <2>5, <3>2, ReleaseOwnedFacts
      DEF GivesUp, Ended, NumbersKept, NumberWasted
    <3>4. NoInternalError'
      BY <3>1, OutcomeFacts DEF NoInternalError
    <3>5. QED
      BY <2>3, <3>2, <3>3, <3>4 DEF Changes
  <2>6. ASSUME code # "created", ReleaseOwned(i, containers), StartFailed(i, failed, code),
               UNCHANGED surfaces
        PROVE  Changes(i)
    BY <1>1, <2>5, <2>6
  <2>7. ASSUME code = "created", surfaces' = disposed, ReleaseOwned(i, containers),
               StartFailed(i, failed, "HANDLE_OUT_OF_RANGE")
        PROVE  Changes(i)
    BY <2>4, <2>5, <2>7
  <2>8. ASSUME code = "created", ~(h.generation > MaxLong)
        PROVE  h \in [surface_id : Int, generation : Int] /\ ValidHandle(h)
    <3>1. h.surface_id \in 1..MaxLong /\ h.generation \in 1..MaxLong
      BY <2>1, <2>4, <2>8, LongAssumption, GenerationAssumption
    <3>2. h = [surface_id |-> h.surface_id, generation |-> h.generation]
      BY DEF Surfaces!NewHandle
    <3>3. h.surface_id \in Int /\ h.generation \in Int
      BY <3>1
    <3> HIDE DEF h
    <3>4. QED
      BY <3>1, <3>2, <3>3 DEF ValidHandle
  <2>9. ASSUME code = "created", answer.effect = "NONE", surfaces' = created,
               facade' = [facade EXCEPT ![i] = answer.facade],
               outcome' = Outcome("SURFACE_ACTIVE", "none"), UNCHANGED <<identity, containers>>
        PROVE  Changes(i)
    <3> DEFINE g == answer.facade
    <3>1. ~ValidHandle(h) => answer.effect = "INVALID_HANDLE"
      BY DEF CreateSucceeded, OnMain, Answer
    <3>2. ValidHandle(h) /\ h \in [surface_id : Int, generation : Int]
      <4>1. ~(h.generation > MaxLong)
        BY <2>4, <2>9, <3>1, LongAssumption, GenerationAssumption DEF ValidHandle
      <4>2. QED
        BY <2>8, <2>9, <4>1
    <3>3. f.state = "CREATING" /\ Sound(g) /\ g.state = "ACTIVE" /\ g.handle = h
      BY <1>1, <1>3, <2>9, <3>2, CreationSucceeds
    <3> HIDE DEF g, h, created, code
    <3>4. HostTypes' /\ OthersKept(i) /\ facade'[i] = g
      BY <2>4, <2>9, <3>3, FacadeSet DEF HostInv, HostTypes, Lifecycle, OthersKept, g
    <3>5. Gets(i, h)
      BY <2>4, <2>9, <3>3, <3>4 DEF Gets
    <3>6. NoInternalError'
      BY <2>9, OutcomeFacts DEF NoInternalError
    <3>7. QED
      BY <3>3, <3>4, <3>5, <3>6 DEF Changes
  <2>10. ASSUME code = "created", answer.effect = "CALL_NATIVE_DISPOSE", surfaces' = disposed,
                facade' = [facade EXCEPT ![i] = DisposeSucceeded(answer.facade, "main").facade],
                outcome' = Outcome("LATE_SURFACE_DISPOSED", "none"), UNCHANGED <<identity, containers>>
         PROVE  Changes(i)
    <3> DEFINE g == DisposeSucceeded(answer.facade, "main").facade
    <3>1. ~ValidHandle(h) => answer.effect = "INVALID_HANDLE"
      BY DEF CreateSucceeded, OnMain, Answer
    <3>2. ValidHandle(h) /\ h \in [surface_id : Int, generation : Int]
      <4>1. ~(h.generation > MaxLong)
        BY <2>4, <2>10, <3>1, LongAssumption, GenerationAssumption DEF ValidHandle
      <4>2. QED
        BY <2>8, <2>10, <4>1
    <3>3. f.state = "CLOSE_PENDING_CREATE" /\ Sound(answer.facade) /\ answer.facade.state = "CLOSING"
      BY <1>1, <1>3, <2>10, <3>2, CreationSucceeds
    <3>4. Sound(g) /\ g.state = "CLOSED"
      BY <3>3, DisposalEnds
    <3> HIDE DEF g, h, disposed, code, answer
    <3>5. HostTypes' /\ OthersKept(i) /\ facade'[i] = g
      BY <2>4, <2>10, <3>4, FacadeSet DEF HostInv, HostTypes, Lifecycle, OthersKept, g
    <3>6. ~Owner(i) /\ identity[i].mount_id = 0
      BY <1>1, <3>3 DEF Owner, Holding
    <3>7. GivesUp(i)
      BY <1>3, <2>2, <2>4, <2>10, <3>4, <3>5, <3>6 DEF GivesUp, Ended, NumberWasted
    <3>8. NoInternalError'
      BY <2>10, OutcomeFacts DEF NoInternalError
    <3>9. QED
      BY <3>4, <3>5, <3>7, <3>8 DEF Changes
  <2> HIDE DEF f, id, code, h, created, disposed, answer, failed
  <2>11. \/ code # "created" /\ ReleaseOwned(i, containers) /\ StartFailed(i, failed, code)
              /\ UNCHANGED surfaces
         \/ code = "created" /\ surfaces' = disposed /\ ReleaseOwned(i, containers)
              /\ StartFailed(i, failed, "HANDLE_OUT_OF_RANGE")
         \/ code = "created" /\ answer.effect = "NONE" /\ surfaces' = created
              /\ facade' = [facade EXCEPT ![i] = answer.facade]
              /\ outcome' = Outcome("SURFACE_ACTIVE", "none") /\ UNCHANGED <<identity, containers>>
         \/ code = "created" /\ answer.effect = "CALL_NATIVE_DISPOSE" /\ surfaces' = disposed
              /\ facade' = [facade EXCEPT ![i] = DisposeSucceeded(answer.facade, "main").facade]
              /\ outcome' = Outcome("LATE_SURFACE_DISPOSED", "none") /\ UNCHANGED <<identity, containers>>
    BY <1>3 DEF NativeCreateSucceeded, f, id, code, h, created, disposed, answer, failed
  <2>12. QED
    BY <2>6, <2>7, <2>9, <2>10, <2>11
<1>4. QED
  BY <1>2, <1>3

LEMMA BeginChanges ==
  ASSUME HostInv, NEW i \in Host, NEW c \in ContainerId, NEW host, NEW surface \in SurfaceId,
         NEW root \in RootId \cup {NoRoot}, Begin(i, c, host, surface, root)
  PROVE  Changes(i)
<1> DEFINE f == facade[i]
           claim == Claim(containers, c, host)
           mount == claim.mount_id
           r == claim.registry
           attach == AttachSucceeded(r, c, host, mount, root)
           failed == FailCreation(f, "HOST_UNAVAILABLE")
           owned(m) == [container_id |-> c, host_id |-> host, surface_id |-> surface,
                        root_id |-> root, mount_id |-> m]
           Accepted == f.state = "NEW" /\ {c, host, surface, root} \subseteq 1..MaxLong
<1>1. /\ Sound(f) /\ (Owner(i) <=> f.state \in Holding)
      /\ SoundRegistry(containers) /\ containers.retired_roots \subseteq RootId
      /\ identity \in [Host -> IdentityRecord] /\ surfaces \in Lifecycle
  BY DEF HostInv, SoundHost, HostTypes, Lifecycle
<1>2. CASE ~Accepted
  <2>1. Reject("INVALID_ID")
    BY <1>2 DEF Begin
  <2>2. QED
    BY <2>1, RejectChanges
<1>3. CASE Accepted
  <2>1. /\ c \in 1..MaxLong /\ host \in 1..MaxLong /\ surface \in 1..MaxLong /\ root \in 1..MaxLong
        /\ root \in RootId /\ host \in Nat \ {0} /\ root \in Nat \ {0}
    BY <1>3, LongAssumption DEF NoRoot
  <2>2. Sound(failed) /\ failed.state = "FAILED" /\ ~Owner(i) /\ identity[i].mount_id = 0
    BY <1>1, <1>3, FailedCreation DEF Holding, Owner
  <2>3. surfaces.active = surfaces.active \ {f.handle}
    BY <1>3, HandleFacts DEF Active
  <2>4. ASSUME NEW reason, StartFailed(i, failed, reason), UNCHANGED surfaces,
               SoundRegistry(containers'), containers'.retired_roots = containers.retired_roots,
               containers'.bindings = containers.bindings,
               \/ containers'.next_mount_id = containers.next_mount_id
               \/ /\ containers.next_mount_id \in 1..MaxMountId
                  /\ containers'.next_mount_id = containers.next_mount_id + 1,
               identity' \in [Host -> IdentityRecord], identity'[i].mount_id = 0,
               \A j \in Host \ {i} : identity'[j] = identity[j]
        PROVE  Changes(i)
    <3> HIDE DEF failed
    <3>1. facade' = [facade EXCEPT ![i] = failed] /\ outcome' = Outcome("START_FAILED", reason)
      BY <2>4 DEF StartFailed
    <3>2. HostTypes' /\ OthersKept(i) /\ facade'[i] = failed
      BY <1>1, <2>2, <2>4, <3>1, FacadeSet DEF HostTypes, Lifecycle, OthersKept
    <3>3. GivesUp(i)
      BY <1>3, <2>2, <2>3, <2>4, <3>2 DEF GivesUp, Ended, NumbersKept, NumberWasted
    <3>4. NoInternalError'
      BY <3>1, OutcomeFacts DEF NoInternalError
    <3>5. QED
      BY <2>2, <3>2, <3>3, <3>4 DEF Changes
  <2>5. CASE claim.effect # "ADD_ROOT"
    <3>1. StartFailed(i, failed, claim.effect) /\ UNCHANGED <<identity, containers, surfaces>>
      BY <1>3, <2>5 DEF Begin
    <3> HIDE DEF claim, failed
    <3>2. QED
      BY <1>1, <2>2, <2>4, <3>1
  <2>6. CASE claim.effect = "ADD_ROOT"
    <3> DEFINE reserved == Binding(host, mount, "RESERVED", NoRoot)
               b == Binding(host, mount, "ATTACHED", root)
    <3>1. /\ mount = containers.next_mount_id /\ mount \in 1..MaxMountId /\ ~Bound(containers, c)
          /\ SoundRegistry(r) /\ r.retired_roots = containers.retired_roots
          /\ r.bindings = [containers.bindings EXCEPT ![c] = reserved]
          /\ r.next_mount_id = containers.next_mount_id + 1
      <4>1. /\ mount = containers.next_mount_id /\ mount \in 1..MaxMountId /\ ~Bound(containers, c)
            /\ SoundRegistry(r) /\ r.retired_roots = containers.retired_roots
            /\ r.bindings = [containers.bindings EXCEPT
                 ![c] = Binding(host, containers.next_mount_id, "RESERVED", NoRoot)]
            /\ r.next_mount_id = containers.next_mount_id + 1
        BY <1>1, <2>1, <2>6, ClaimFacts
      <4> HIDE DEF claim
      <4>2. QED
        BY <4>1
    <3>2. reserved.state = "RESERVED" /\ reserved.host_id = host /\ reserved.mount_id = mount
      BY DEF Binding
    <3> HIDE DEF claim, mount, r, reserved
    <3>3. r.bindings[c] = reserved
      BY <1>1, <3>1 DEF SoundRegistry, RegistryRecord
    <3>4. Reserved(r, c, host, mount)
      BY <3>2, <3>3 DEF Reserved, Current
    <3>5. ASSUME NEW own \in IdentityRecord, identity' = [identity EXCEPT ![i] = own]
          PROVE  /\ identity' \in [Host -> IdentityRecord] /\ identity'[i] = own
                 /\ \A j \in Host \ {i} : identity'[j] = identity[j]
      BY <1>1, <3>5
    <3>6. CASE attach.effect = "ROOT_NOT_DETACHED"
      <4>1. /\ containers' = Release(attach.registry, c, host, mount).registry
            /\ identity' = [identity EXCEPT ![i] = owned(0)]
            /\ StartFailed(i, failed, "ROOT_NOT_DETACHED") /\ UNCHANGED surfaces
        BY <1>3, <2>6, <3>6 DEF Begin, claim, mount, r
      <4>2. attach.registry = r
        BY <2>1, <3>1, <3>4, <3>6, AttachFacts
      <4>3. /\ SoundRegistry(containers') /\ containers'.retired_roots = containers.retired_roots
            /\ containers'.bindings = [r.bindings EXCEPT ![c] = Unbound]
            /\ containers'.next_mount_id = r.next_mount_id
        <5>1. containers' = Release(r, c, host, mount).registry
          BY <4>1, <4>2
        <5>2. r.bindings[c].state # "ATTACHED"
          BY <3>2, <3>3
        <5>3. Current(r, c, host, mount)
          BY <3>4 DEF Reserved
        <5>4. QED
          BY <3>1, <5>1, <5>2, <5>3, ReleaseFacts
      <4>4. containers.bindings[c] = Unbound
        BY <1>1, <3>1, RegistryFacts
      <4>5. containers'.bindings = containers.bindings
        BY <1>1, <3>1, <4>3, <4>4 DEF SoundRegistry, RegistryRecord
      <4>6. /\ identity' \in [Host -> IdentityRecord] /\ identity'[i].mount_id = 0
            /\ \A j \in Host \ {i} : identity'[j] = identity[j]
        <5>1. owned(0) \in IdentityRecord /\ owned(0).mount_id = 0
          BY <2>1, MountAssumption DEF IdentityRecord
        <5> HIDE DEF owned
        <5>2. QED
          BY <3>5, <4>1, <5>1
      <4> HIDE DEF failed
      <4>7. QED
        BY <2>4, <3>1, <4>1, <4>3, <4>5, <4>6
    <3>7. CASE attach.effect # "ROOT_NOT_DETACHED"
      <4> DEFINE g == RequestCreate(f, "main").facade
      <4>1. /\ containers' = attach.registry
            /\ identity' = [identity EXCEPT ![i] = owned(mount)]
            /\ facade' = [facade EXCEPT ![i] = g]
            /\ outcome' = Outcome("CREATE_REQUESTED", "none") /\ UNCHANGED surfaces
        BY <1>3, <2>6, <3>7 DEF Begin, claim, mount, r
      <4>2. /\ SoundRegistry(containers') /\ containers'.retired_roots = containers.retired_roots
            /\ containers'.bindings = [r.bindings EXCEPT ![c] = b]
            /\ containers'.next_mount_id = r.next_mount_id
        BY <2>1, <3>1, <3>4, <3>7, <4>1, AttachFacts
      <4>3. Sound(g) /\ g.state = "CREATING"
        BY <1>1, <1>3, CreationRequested
      <4>4. containers'.bindings = [containers.bindings EXCEPT ![c] = b]
        BY <1>1, <3>1, <4>2 DEF SoundRegistry, RegistryRecord
      <4>5. /\ identity' \in [Host -> IdentityRecord]
            /\ identity'[i].container_id = c /\ identity'[i].host_id = host
            /\ identity'[i].surface_id = surface /\ identity'[i].root_id = root
            /\ identity'[i].mount_id = mount
            /\ \A j \in Host \ {i} : identity'[j] = identity[j]
        <5>1. /\ owned(mount) \in IdentityRecord
              /\ owned(mount).container_id = c /\ owned(mount).host_id = host
              /\ owned(mount).surface_id = surface /\ owned(mount).root_id = root
              /\ owned(mount).mount_id = mount
          BY <2>1, <3>1, MountAssumption DEF IdentityRecord
        <5> HIDE DEF owned
        <5>2. QED
          BY <3>5, <4>1, <5>1
      <4> HIDE DEF g
      <4>6. HostTypes' /\ OthersKept(i) /\ facade'[i] = g
        BY <1>1, <4>1, <4>2, <4>3, <4>5, FacadeSet DEF HostTypes, Lifecycle, OthersKept
      <4>7. /\ identity'[i].mount_id = containers.next_mount_id
            /\ containers.next_mount_id \in 1..MaxMountId
            /\ containers'.next_mount_id = containers.next_mount_id + 1
        BY <3>1, <4>2, <4>5
      <4>8. containers'.bindings =
              [containers.bindings EXCEPT
                 ![c] = Binding(identity'[i].host_id, identity'[i].mount_id, "ATTACHED",
                                identity'[i].root_id)]
        BY <4>4, <4>5
      <4>9. Takes(i, c)
        BY <1>3, <2>1, <3>1, <4>1, <4>3, <4>5, <4>6, <4>7, <4>8 DEF Takes
      <4>10. NoInternalError'
        BY <4>1, OutcomeFacts DEF NoInternalError
      <4>11. QED
        BY <4>3, <4>6, <4>9, <4>10 DEF Changes
    <3>8. QED
      BY <3>6, <3>7
  <2>7. QED
    BY <2>5, <2>6
<1>4. QED
  BY <1>2, <1>3

-----------------------------------------------------------------------------

LEMMA InitInv == Init => HostInv
<1> SUFFICES ASSUME Init PROVE HostInv
  OBVIOUS
<1>1. facade = [i \in Host |-> NewFacade] /\ identity = [i \in Host |-> NoIdentity]
  BY DEF Init
<1>2. Sound(NewFacade) /\ NewFacade.state = "NEW" /\ NewFacade.handle = NoHandle
  BY NewFacadeSound DEF NewFacade
<1>3. NoIdentity \in IdentityRecord /\ NoIdentity.mount_id = 0
  BY MountAssumption DEF NoIdentity, IdentityRecord
<1>4. PICK m \in 1..MaxMountId + 1 : containers = [NewRegistry EXCEPT !.next_mount_id = m]
  BY DEF Init
<1>5. SoundRegistry(containers) /\ containers.retired_roots = {}
  BY <1>4, NewRegistrySound DEF NewRegistry
<1>6. \A c \in ContainerId : ~Bound(containers, c)
  BY <1>4 DEF NewRegistry, Bound, Unbound, Binding
<1>7. surfaces \in Lifecycle /\ surfaces.active = {}
  BY DEF Init, Lifecycle, Allocator
<1>8. HostTypes
  BY <1>1, <1>2, <1>3, <1>5, <1>7 DEF HostTypes, Lifecycle, Sound
<1>9. \A i \in Host : SoundHost(i) /\ ~Owner(i) /\ ~Active(i)
  BY <1>1, <1>2, <1>3 DEF SoundHost, Owner, Active, Holding
<1>10. NoInternalError
  BY OutcomeFacts DEF Init, NoInternalError
<1>11. QED
  BY <1>6, <1>7, <1>8, <1>9, <1>10 DEF HostInv, MountsMatch, SurfacesMatch

LEMMA StepChanges ==
  ASSUME HostInv, Next
  PROVE  \E i \in Host : Changes(i)
<1>1. PICK i \in Host :
        \/ \E c \in ContainerId, host \in HostId, s \in SurfaceId, root \in RootId \cup {NoRoot} :
             Begin(i, c, host, s, root)
        \/ BeginAgain(i)
        \/ NativeCreateSucceeded(i)
        \/ \E reason \in Reason : NativeCreateFailed(i, reason)
        \/ Close(i)
        \/ \E s \in SurfaceId, g \in 1..MaxGeneration, sequence \in 1..MaxLong :
             NativeCallback(i, [surface_id |-> s, generation |-> g], sequence)
        \/ Reject("WRONG_THREAD")
  BY DEF Next
<1>2. BeginAgain(i) \/ Reject("WRONG_THREAD") => Changes(i)
  BY RejectChanges DEF BeginAgain
<1>3. QED
  BY <1>1, <1>2, BeginChanges, NativeCreateSucceededChanges, NativeCreateFailedChanges,
     CloseChanges, NativeCallbackChanges

LEMMA NextInv == HostInv /\ [Next]_vars => HostInv'
<1> SUFFICES ASSUME HostInv, [Next]_vars PROVE HostInv'
  OBVIOUS
<1>1. CASE UNCHANGED vars
  BY <1>1 DEF vars, HostInv, HostTypes, SoundHost, Owner, MountsMatch, Mounted, OwnBinding,
              SurfacesMatch, Active, NoInternalError
<1>2. CASE Next
  BY <1>2, StepChanges, ChangesInv
<1>3. QED
  BY <1>1, <1>2

\* The inductive invariant holds in every reachable state of the composed hosts.
THEOREM HostInvariant == Spec => []HostInv
  BY InitInv, NextInv, PTL DEF Spec

\* A creating or active host has its own root attached, and an active one its live surface;
\* so _dispose_surface of android_host_composition_model.py never raises.
THEOREM ActiveHostsOwnTheirParts == Spec => []ActiveHostOwnsItsParts
<1>1. HostInv => ActiveHostOwnsItsParts
  BY DEF HostInv, SoundHost, Holding, MountsMatch, Mounted, SurfacesMatch, Active,
     ActiveHostOwnsItsParts
<1>2. QED
  BY <1>1, HostInvariant, PTL

\* Closed and failed hosts hold neither surface nor container, and no two hosts share one.
THEOREM HostsLeakNothing == Spec => []NothingLeaks
<1>1. ASSUME HostInv PROVE NothingLeaks
  <2>1. ASSUME NEW h \in surfaces.active
        PROVE  \E i \in Host : /\ facade[i].state = "ACTIVE" /\ facade[i].handle = h
                               /\ \A j \in Host \ {i} : facade[j].handle # h
    <3>1. PICK i \in Host : Active(i) /\ facade[i].handle = h
      BY <1>1 DEF HostInv, SurfacesMatch
    <3>2. ASSUME NEW j \in Host \ {i} PROVE facade[j].handle # h
      BY <1>1, <3>1, HandleFacts DEF HostInv, SurfacesMatch
    <3>3. QED
      BY <3>1, <3>2 DEF Active
  <2>2. ASSUME NEW c \in ContainerId, Bound(containers, c)
        PROVE  \E i \in Host :
                 /\ facade[i].state \in {"CREATING", "ACTIVE"}
                 /\ identity[i].container_id = c /\ Owner(i)
                 /\ \A j \in Host \ {i} : Owner(j) => identity[j].container_id # c
    <3>1. PICK i \in Host : Owner(i) /\ identity[i].container_id = c
      BY <1>1, <2>2 DEF HostInv, MountsMatch
    <3>2. facade[i].state \in {"CREATING", "ACTIVE"}
      BY <1>1, <3>1 DEF HostInv, SoundHost, Holding
    <3>3. \A j \in Host \ {i} : Owner(j) => identity[j].container_id # c
      BY <1>1, <3>1 DEF HostInv, MountsMatch
    <3>4. QED
      BY <3>1, <3>2, <3>3
  <2>3. QED
    BY <2>1, <2>2 DEF NothingLeaks, Bound
<1>2. QED
  BY <1>1, HostInvariant, PTL

\* The three composed models stay in states that their own invariants allow.
THEOREM HostsStayValid == Spec => []TypeOK
<1>1. ASSUME HostInv PROVE TypeOK
  <2>1. ASSUME NEW i \in Host
        PROVE  /\ ValidFacade(facade[i]) /\ facade[i].handle \in Surfaces!Handle \cup {NoHandle}
               /\ identity[i].mount_id \in 0..MaxMountId
    <3>1. ValidFacade(facade[i]) /\ identity[i].mount_id \in 0..MaxMountId
      BY <1>1 DEF HostInv, HostTypes, SoundHost, Sound, IdentityRecord
    <3>2. facade[i].handle # NoHandle => facade[i].handle \in Surfaces!Handle
      BY <1>1, HandleFacts DEF HostInv, HostTypes, SurfacesMatch
    <3>3. QED
      BY <3>1, <3>2
  <2>2. QED
    BY <1>1, <2>1 DEF HostInv, HostTypes, SoundRegistry, TypeOK
<1>2. QED
  BY <1>1, HostInvariant, PTL

-----------------------------------------------------------------------------

\* A call on one host leaves the container and the surface of every other host as they
\* were; and one that leaves the host's own facade as it was leaves the host's parts.
THEOREM ForeignOwnership == Spec => ForeignOwnershipPreserved
<1>1. ASSUME HostInv, NEW k \in Host, Changes(k), NEW i \in Host, facade'[i] = facade[i]
      PROVE  /\ Owner(i) => OwnBinding(i)' = OwnBinding(i) /\ identity'[i] = identity[i]
             /\ facade[i].state = "ACTIVE" => facade[i].handle \in surfaces'.active
  <2>1. SurfacesMatch /\ SoundHost(i) /\ SoundRegistry(containers) /\ (Owner(i) => Mounted(i))
    BY <1>1 DEF HostInv, HostTypes, MountsMatch
  <2>2. CASE Keeps(k)
    BY <2>1, <2>2 DEF Keeps, OwnBinding, SurfacesMatch, Active
  <2>3. ASSUME NEW c \in ContainerId, Takes(k, c)
        PROVE  /\ Owner(i) => OwnBinding(i)' = OwnBinding(i) /\ identity'[i] = identity[i]
               /\ facade[i].state = "ACTIVE" => facade[i].handle \in surfaces'.active
    <3>1. i # k /\ identity'[i] = identity[i]
      BY <1>1, <2>3 DEF Takes, OthersKept
    <3>2. Owner(i) => Bound(containers, identity[i].container_id)
      BY <2>1 DEF Mounted, OwnBinding, Bound, Binding
    <3>3. Owner(i) => OwnBinding(i)' = OwnBinding(i)
      BY <2>1, <2>3, <3>1, <3>2 DEF Takes, OwnBinding, SoundRegistry, RegistryRecord, Mounted
    <3>4. QED
      BY <2>1, <2>3, <3>1, <3>3 DEF Takes, SurfacesMatch, Active
  <2>4. ASSUME NEW h, Gets(k, h)
        PROVE  /\ Owner(i) => OwnBinding(i)' = OwnBinding(i) /\ identity'[i] = identity[i]
               /\ facade[i].state = "ACTIVE" => facade[i].handle \in surfaces'.active
    BY <2>1, <2>4 DEF Gets, OwnBinding, SurfacesMatch, Active
  <2>5. CASE GivesUp(k)
    <3>1. CASE i = k
      BY <1>1, <2>1, <2>5, <3>1 DEF GivesUp, SoundHost, Holding, Ended
    <3>2. CASE i # k
      <4>1. identity'[i] = identity[i]
        BY <2>5, <3>2 DEF GivesUp, OthersKept
      <4>2. Owner(i) /\ Owner(k) => identity[i].container_id # identity[k].container_id
        BY <1>1, <3>2 DEF HostInv, MountsMatch
      <4>3. Owner(i) => OwnBinding(i)' = OwnBinding(i)
        BY <2>1, <2>5, <4>1, <4>2 DEF GivesUp, OwnBinding, SoundRegistry, RegistryRecord, Mounted
      <4>4. Active(i) => facade[i].handle # facade[k].handle
        BY <1>1, <3>2, HandleFacts DEF HostInv, SurfacesMatch
      <4>5. QED
        BY <2>1, <2>5, <4>1, <4>3, <4>4 DEF GivesUp, SurfacesMatch, Active
    <3>3. QED
      BY <3>1, <3>2
  <2>6. QED
    BY <1>1, <2>2, <2>3, <2>4, <2>5 DEF Changes
<1>2. ASSUME HostInv, [Next]_vars, NEW i \in Host, facade'[i] = facade[i]
      PROVE  /\ Owner(i) => OwnBinding(i)' = OwnBinding(i) /\ identity'[i] = identity[i]
             /\ facade[i].state = "ACTIVE" => facade[i].handle \in surfaces'.active
  <2>1. CASE UNCHANGED vars
    BY <1>2, <2>1 DEF vars, OwnBinding, HostInv, SurfacesMatch, Active
  <2>2. CASE Next
    BY <1>1, <1>2, <2>2, StepChanges
  <2>3. QED
    BY <1>2, <2>1, <2>2
<1>3. ASSUME HostInv, [Next]_vars
      PROVE  \A i \in Host :
               facade'[i] = facade[i] =>
                 /\ Owner(i) => OwnBinding(i)' = OwnBinding(i) /\ identity'[i] = identity[i]
                 /\ facade[i].state = "ACTIVE" => facade[i].handle \in surfaces'.active
  BY <1>2, <1>3
<1>4. QED
  BY <1>3, HostInvariant, PTL DEF Spec, ForeignOwnershipPreserved

-----------------------------------------------------------------------------
(* The composed hosts implement HostOwnership. *)

\* By the invariant, what a host holds in the registries is what its own state names.
MountOf(i) ==
  IF Owner(i)
  THEN {[kind |-> "container", place |-> identity[i].container_id, number |-> identity[i].mount_id]}
  ELSE {}
SurfaceOf(i) == IF Active(i) THEN {SurfacePart(facade[i].handle)} ELSE {}

HoldingsNamed == \A i \in Host : Holdings(i) = MountOf(i) \cup SurfaceOf(i)

LEMMA HoldingsNow == HostInv => HoldingsNamed
<1> SUFFICES ASSUME HostInv, NEW i \in Host
             PROVE  Holdings(i) = MountOf(i) \cup SurfaceOf(i)
  BY DEF HoldingsNamed
<1> DEFINE own == {c \in BoundContainers :
                     /\ Owner(i) /\ identity[i].container_id = c
                     /\ containers.bindings[c].mount_id = identity[i].mount_id}
<1>1. {MountPart(c) : c \in own} = MountOf(i)
  <2>1. CASE ~Owner(i)
    BY <2>1 DEF MountOf
  <2>2. CASE Owner(i)
    <3>1. /\ identity[i].container_id \in ContainerId
          /\ OwnBinding(i).state = "ATTACHED" /\ OwnBinding(i).mount_id = identity[i].mount_id
      BY <2>2 DEF HostInv, MountsMatch, Mounted, Binding
    <3>2. own = {identity[i].container_id}
      BY <2>2, <3>1 DEF OwnBinding, BoundContainers
    <3> HIDE DEF own
    <3>3. QED
      BY <2>2, <3>1, <3>2 DEF MountOf, MountPart, OwnBinding
  <2>3. QED
    BY <2>1, <2>2
<1>2. {SurfacePart(h) : h \in surfaces.active \cap {facade[i].handle}} = SurfaceOf(i)
  <2>1. CASE Active(i)
    <3>1. surfaces.active \cap {facade[i].handle} = {facade[i].handle}
      BY <2>1 DEF HostInv, SurfacesMatch
    <3>2. QED
      BY <2>1, <3>1 DEF SurfaceOf
  <2>2. CASE ~Active(i)
    <3>1. surfaces.active \cap {facade[i].handle} = {}
      BY <2>2, HandleFacts
    <3>2. QED
      BY <2>2, <3>1 DEF SurfaceOf
  <2>3. QED
    BY <2>1, <2>2
<1>3. QED
  BY <1>1, <1>2 DEF Holdings

\* Each part in the registries is with exactly one host.
PartsHeld ==
  /\ \A p : p \in SharedParts <=> \E i \in Host : p \in Holdings(i)
  /\ \A i, j \in Host : i # j => Holdings(i) \cap Holdings(j) = {}

LEMMA PartsAreHeld == HostInv => PartsHeld
<1> SUFFICES ASSUME HostInv, HoldingsNamed PROVE PartsHeld
  BY HoldingsNow
<1>1. ASSUME NEW p \in SharedParts PROVE \E i \in Host : p \in Holdings(i)
  <2>1. ASSUME NEW c \in BoundContainers, p = MountPart(c)
        PROVE  \E i \in Host : p \in Holdings(i)
    <3>1. PICK i \in Host : Owner(i) /\ identity[i].container_id = c
      BY <2>1 DEF HostInv, MountsMatch, BoundContainers, Bound
    <3>2. OwnBinding(i).mount_id = identity[i].mount_id
      BY <3>1 DEF HostInv, MountsMatch, Mounted, Binding
    <3>3. p \in MountOf(i)
      BY <2>1, <3>1, <3>2 DEF MountOf, MountPart, OwnBinding
    <3>4. QED
      BY <3>3 DEF HoldingsNamed
  <2>2. ASSUME NEW h \in surfaces.active, p = SurfacePart(h)
        PROVE  \E i \in Host : p \in Holdings(i)
    <3>1. PICK i \in Host : Active(i) /\ facade[i].handle = h
      BY DEF HostInv, SurfacesMatch
    <3>2. p \in SurfaceOf(i)
      BY <2>2, <3>1 DEF SurfaceOf
    <3>3. QED
      BY <3>2 DEF HoldingsNamed
  <2>3. QED
    BY <2>1, <2>2 DEF SharedParts
<1>2. ASSUME NEW i \in Host, NEW p \in Holdings(i) PROVE p \in SharedParts
  BY <1>2 DEF Holdings, SharedParts
<1>3. ASSUME NEW i \in Host, NEW j \in Host, i # j, NEW p \in Holdings(i), p \in Holdings(j)
      PROVE  FALSE
  <2>1. p \in MountOf(i) \cup SurfaceOf(i) /\ p \in MountOf(j) \cup SurfaceOf(j)
    BY <1>3 DEF HoldingsNamed
  <2>2. CASE p \in MountOf(i) /\ p \in MountOf(j)
    <3>1. Owner(i) /\ Owner(j) /\ identity[i].container_id = identity[j].container_id
      BY <2>2 DEF MountOf
    <3>2. QED
      BY <1>3, <3>1 DEF HostInv, MountsMatch
  <2>3. CASE p \in SurfaceOf(i) /\ p \in SurfaceOf(j)
    <3>1. /\ Active(i) /\ Active(j)
          /\ SurfacePart(facade[i].handle) = SurfacePart(facade[j].handle)
      BY <2>3 DEF SurfaceOf
    <3>2. facade[i].handle \in Surfaces!Handle /\ facade[j].handle \in Surfaces!Handle
      BY <3>1 DEF HostInv, SurfacesMatch, HostTypes
    <3>3. facade[i].handle = facade[j].handle
      BY <3>1, <3>2 DEF SurfacePart, Surfaces!Handle
    <3>4. QED
      BY <1>3, <3>1, <3>3 DEF HostInv, SurfacesMatch
  <2>4. (p \in MountOf(i) \/ p \in MountOf(j)) => p.kind = "container"
    BY DEF MountOf
  <2>5. (p \in SurfaceOf(i) \/ p \in SurfaceOf(j)) => p.kind = "surface"
    BY DEF SurfaceOf, SurfacePart
  <2>6. QED
    BY <2>1, <2>2, <2>3, <2>4, <2>5
<1>4. QED
  BY <1>1, <1>2, <1>3 DEF PartsHeld

\* Both hold again after a step.
LEMMA HeldAgain == HostInv' => HoldingsNamed' /\ PartsHeld'
<1>1. HostInv => HoldingsNamed /\ PartsHeld
  BY HoldingsNow, PartsAreHeld
<1>2. QED
  BY <1>1, PTL

\* A step of host k: its phase, its holdings and the parts in the registries.
LEMMA HostMoves ==
  ASSUME HostInv, HostInv', NEW k \in Host, OthersKept(k)
  PROVE  /\ HostPhase' = [HostPhase EXCEPT ![k] = Phase(facade'[k].state)]
         /\ HostHoldings' = [HostHoldings EXCEPT ![k] = Holdings(k)']
         /\ \A p : Holdings(k)' = Holdings(k) \cup {p} => SharedParts' = SharedParts \cup {p}
         /\ Holdings(k)' = {} => SharedParts' = SharedParts \ Holdings(k)
<1>1. ASSUME NEW j \in Host \ {k} PROVE Holdings(j)' = Holdings(j)
  <2>1. MountOf(j)' = MountOf(j) /\ SurfaceOf(j)' = SurfaceOf(j)
    BY DEF OthersKept, MountOf, SurfaceOf, SurfacePart, Owner, Active
  <2>2. QED
    BY <2>1, HoldingsNow, HeldAgain DEF HoldingsNamed
<1>2. HostPhase' = [HostPhase EXCEPT ![k] = Phase(facade'[k].state)]
  BY DEF HostPhase, OthersKept
<1>3. HostHoldings' = [HostHoldings EXCEPT ![k] = Holdings(k)']
  BY <1>1 DEF HostHoldings
<1>4. /\ \A p : p \in SharedParts <=> \E i \in Host : p \in Holdings(i)
      /\ \A p : p \in SharedParts' <=> \E i \in Host : p \in Holdings(i)'
      /\ \A i, j \in Host : i # j => Holdings(i) \cap Holdings(j) = {}
  BY PartsAreHeld, HeldAgain DEF PartsHeld
<1>5. ASSUME NEW p, Holdings(k)' = Holdings(k) \cup {p}
      PROVE  SharedParts' = SharedParts \cup {p}
  BY <1>1, <1>4, <1>5
<1>6. ASSUME Holdings(k)' = {} PROVE SharedParts' = SharedParts \ Holdings(k)
  BY <1>1, <1>4, <1>6
<1>7. QED
  BY <1>2, <1>3, <1>5, <1>6

\* What the allocators have issued after a step.
LEMMA NumbersIssued ==
  ASSUME HostInv
  PROVE  /\ NumbersKept => UNCHANGED IssuedNumbers
         /\ LET n == <<"container", containers.next_mount_id>>
            IN /\ containers.next_mount_id \in 1..MaxMountId
               /\ containers'.next_mount_id = containers.next_mount_id + 1
               /\ Spent(surfaces') = Spent(surfaces)
               => n \in Number \ IssuedNumbers /\ IssuedNumbers' = IssuedNumbers \cup {n}
         /\ \A g \in (1..MaxGeneration) \ Spent(surfaces) :
              LET n == <<"surface", g>>
              IN /\ containers'.next_mount_id = containers.next_mount_id
                 /\ Spent(surfaces') = Spent(surfaces) \cup {g}
                 => n \in Number \ IssuedNumbers /\ IssuedNumbers' = IssuedNumbers \cup {n}
<1>1. containers.next_mount_id \in 1..MaxMountId + 1
  BY RegistryFacts DEF HostInv, HostTypes
<1>2. NumbersKept => UNCHANGED IssuedNumbers
  BY DEF NumbersKept, IssuedNumbers
<1>3. ASSUME containers.next_mount_id \in 1..MaxMountId,
             containers'.next_mount_id = containers.next_mount_id + 1,
             Spent(surfaces') = Spent(surfaces)
      PROVE  LET n == <<"container", containers.next_mount_id>>
             IN n \in Number \ IssuedNumbers /\ IssuedNumbers' = IssuedNumbers \cup {n}
  <2> DEFINE m == containers.next_mount_id
  <2>1. 1..containers'.next_mount_id - 1 = (1..m - 1) \cup {m} /\ m \notin 1..m - 1
    BY <1>3, MountAssumption
  <2> HIDE DEF m
  <2>2. <<"container", m>> \in Number
    BY <1>3 DEF Number, m
  <2>3. <<"container", m>> \notin IssuedNumbers
    BY <2>1 DEF IssuedNumbers, m
  <2>4. IssuedNumbers' = IssuedNumbers \cup {<<"container", m>>}
    BY <1>3, <2>1 DEF IssuedNumbers, m
  <2>5. QED
    BY <2>2, <2>3, <2>4 DEF m
<1>4. ASSUME NEW g \in (1..MaxGeneration) \ Spent(surfaces),
             containers'.next_mount_id = containers.next_mount_id,
             Spent(surfaces') = Spent(surfaces) \cup {g}
      PROVE  LET n == <<"surface", g>>
             IN n \in Number \ IssuedNumbers /\ IssuedNumbers' = IssuedNumbers \cup {n}
  BY <1>4 DEF Number, IssuedNumbers
<1>5. QED
  BY <1>2, <1>3, <1>4

LEMMA TakesMounts ==
  ASSUME HostInv, HostInv', NEW k \in Host, NEW c \in ContainerId, Takes(k, c)
  PROVE  Ownership!Mount(k)
<1> DEFINE m == containers.next_mount_id
           p == [kind |-> "container", place |-> c, number |-> m]
<1>1. /\ OthersKept(k) /\ m \in 1..MaxMountId /\ identity'[k].container_id = c
      /\ identity'[k].mount_id = m /\ identity'[k].mount_id # 0
      /\ facade[k].state = "NEW" /\ facade'[k].state = "CREATING"
  BY DEF Takes
<1>2. Holdings(k) = {} /\ Holdings(k)' = {p}
  <2>1. ~Owner(k) /\ ~Active(k) /\ Owner(k)' /\ ~Active(k)'
    BY <1>1 DEF HostInv, SoundHost, Holding, Owner, Active
  <2>2. MountOf(k) = {} /\ SurfaceOf(k) = {} /\ MountOf(k)' = {p} /\ SurfaceOf(k)' = {}
    BY <1>1, <2>1 DEF MountOf, SurfaceOf
  <2>3. QED
    BY <2>2, HoldingsNow, HeldAgain DEF HoldingsNamed
<1>3. /\ <<"container", m>> \notin IssuedNumbers
      /\ IssuedNumbers' = IssuedNumbers \cup {<<"container", m>>}
  <2>1. containers'.next_mount_id = m + 1 /\ Spent(surfaces') = Spent(surfaces)
    BY DEF Takes
  <2>2. QED
    BY <1>1, <2>1, NumbersIssued
<1>4. \A q \in SharedParts : q.kind = "container" => q.place # c
  <2>1. c \notin BoundContainers
    BY DEF Takes, BoundContainers, Bound
  <2>2. QED
    BY <2>1 DEF SharedParts, MountPart, SurfacePart
<1>5. p \in Part /\ p.kind = "container" /\ p.number = m /\ p.place = c
  BY <1>1 DEF Part
<1>6. /\ HostPhase' = [HostPhase EXCEPT ![k] = "mounted"] /\ HostPhase[k] = "new"
      /\ HostHoldings' = [HostHoldings EXCEPT ![k] = {p}] /\ HostHoldings[k] = {}
      /\ SharedParts' = SharedParts \cup {p}
  <2>1. Phase("CREATING") = "mounted" /\ Phase("NEW") = "new"
    BY DEF Phase
  <2>2. Holdings(k)' = Holdings(k) \cup {p}
    BY <1>2
  <2> HIDE DEF p
  <2>3. QED
    BY <1>1, <1>2, <2>1, <2>2, HostMoves DEF HostPhase, HostHoldings
<1> HIDE DEF p, m
<1>7. Ownership!IsNew(p, "container")
  BY <1>3, <1>4, <1>5 DEF Ownership!IsNew
<1>8. Ownership!Take(k, "container")
  BY <1>3, <1>5, <1>6, <1>7 DEF Ownership!Take
<1>9. QED
  BY <1>6, <1>8 DEF Ownership!Mount, Ownership!Moves
LEMMA GetsActivates ==
  ASSUME HostInv, HostInv', NEW k \in Host, NEW h, Gets(k, h)
  PROVE  Ownership!Activate(k)
<1> DEFINE g == h.generation
           p == SurfacePart(h)
<1>1. /\ OthersKept(k) /\ g \in (1..MaxGeneration) \ Spent(surfaces)
      /\ facade[k].state = "CREATING" /\ facade'[k].state = "ACTIVE" /\ facade'[k].handle = h
      /\ h.surface_id = identity[k].surface_id /\ UNCHANGED <<identity, containers>>
  BY DEF Gets
<1>2. h.surface_id \in SurfaceId
  BY <1>1 DEF HostInv, SoundHost, Holding
<1>3. Holdings(k)' = Holdings(k) \cup {p}
  <2>1. ~Active(k) /\ Active(k)'
    BY <1>1 DEF Active
  <2>2. MountOf(k)' = MountOf(k) /\ SurfaceOf(k) = {} /\ SurfaceOf(k)' = {p}
    BY <1>1, <2>1 DEF MountOf, Owner, SurfaceOf, SurfacePart
  <2>3. QED
    BY <2>2, HoldingsNow, HeldAgain DEF HoldingsNamed
<1>4. /\ <<"surface", g>> \notin IssuedNumbers
      /\ IssuedNumbers' = IssuedNumbers \cup {<<"surface", g>>}
  <2>1. containers'.next_mount_id = containers.next_mount_id
        /\ Spent(surfaces') = Spent(surfaces) \cup {g}
    BY DEF Gets
  <2>2. QED
    BY <1>1, <2>1, NumbersIssued
<1>5. \A q \in SharedParts : q.kind = "surface" => q.place # h.surface_id
  <2>1. \A l \in surfaces.active : l.surface_id # h.surface_id
    BY DEF Gets
  <2>2. QED
    BY <2>1 DEF SharedParts, MountPart, SurfacePart
<1>6. p \in Part /\ p.kind = "surface" /\ p.number = g /\ p.place = h.surface_id
  BY <1>1, <1>2 DEF Part, SurfacePart
<1> HIDE DEF p, g
<1>7. /\ HostPhase' = [HostPhase EXCEPT ![k] = "active"] /\ HostPhase[k] = "mounted"
      /\ HostHoldings' = [HostHoldings EXCEPT ![k] = HostHoldings[k] \cup {p}]
      /\ SharedParts' = SharedParts \cup {p}
  <2>1. Phase("CREATING") = "mounted" /\ Phase("ACTIVE") = "active"
    BY DEF Phase
  <2>2. QED
    BY <1>1, <1>3, <2>1, HostMoves DEF HostPhase, HostHoldings
<1>8. Ownership!IsNew(p, "surface")
  BY <1>4, <1>5, <1>6 DEF Ownership!IsNew
<1>9. Ownership!Take(k, "surface")
  BY <1>4, <1>6, <1>7, <1>8 DEF Ownership!Take
<1>10. QED
  BY <1>7, <1>9 DEF Ownership!Activate, Ownership!Moves

LEMMA GivesUpEnds ==
  ASSUME HostInv, HostInv', NEW k \in Host, GivesUp(k)
  PROVE  Ownership!Withdraw(k) \/ Ownership!End(k)
<1>1. /\ OthersKept(k) /\ facade'[k].state \in Ended
      /\ facade[k].state \in {"NEW", "CREATING", "ACTIVE", "CLOSE_PENDING_CREATE"}
  BY DEF GivesUp, HostInv, SoundHost, Holding, Ended
<1>2. Holdings(k)' = {}
  <2>1. ~Owner(k)' /\ ~Active(k)'
    BY <1>1 DEF GivesUp, Owner, Active, Ended
  <2>2. MountOf(k)' = {} /\ SurfaceOf(k)' = {}
    BY <2>1 DEF MountOf, SurfaceOf
  <2>3. QED
    BY <2>2, HeldAgain DEF HoldingsNamed
<1>3. /\ HostPhase' = [HostPhase EXCEPT ![k] = Phase(facade'[k].state)]
      /\ HostPhase[k] = Phase(facade[k].state)
      /\ HostHoldings' = [HostHoldings EXCEPT ![k] = {}]
      /\ SharedParts' = SharedParts \ HostHoldings[k]
  BY <1>1, <1>2, HostMoves DEF HostPhase, HostHoldings
<1>4. Ownership!GiveBackAll(k)
  BY <1>3 DEF Ownership!GiveBackAll
<1>5. /\ Phase("NEW") = "new" /\ Phase("CREATING") = "mounted" /\ Phase("ACTIVE") = "active"
      /\ Phase("CLOSE_PENDING_CREATE") = "withdrawn"
      /\ Phase("CLOSED") = "ended" /\ Phase("FAILED") = "ended"
  BY DEF Phase
<1>6. CASE facade'[k].state = "CLOSE_PENDING_CREATE"
  <2>1. facade[k].state = "CREATING" /\ UNCHANGED IssuedNumbers
    BY <1>6, NumbersIssued DEF GivesUp
  <2>2. Ownership!Moves(k, {"mounted"}, "withdrawn")
    BY <1>3, <1>5, <1>6, <2>1 DEF Ownership!Moves
  <2>3. QED
    BY <1>4, <2>1, <2>2 DEF Ownership!Withdraw
<1>7. CASE facade'[k].state \in {"CLOSED", "FAILED"}
  <2>1. UNCHANGED IssuedNumbers
        \/ \E n \in Number \ IssuedNumbers : IssuedNumbers' = IssuedNumbers \cup {n}
    BY NumbersIssued DEF GivesUp, NumberWasted
  <2>2. Ownership!Moves(k, {"new", "mounted", "active", "withdrawn"}, "ended")
    BY <1>1, <1>3, <1>5, <1>7 DEF Ownership!Moves
  <2>3. QED
    BY <1>4, <2>1, <2>2 DEF Ownership!End
<1>8. QED
  BY <1>1, <1>6, <1>7 DEF Ended

OwnershipVars == <<HostPhase, HostHoldings, SharedParts, IssuedNumbers>>

LEMMA KeepsStutters ==
  ASSUME HostInv, HostInv', NEW k \in Host, Keeps(k)
  PROVE  UNCHANGED OwnershipVars
<1>1. /\ UNCHANGED <<identity, containers, surfaces>>
      /\ \A i \in Host : facade'[i].state = facade[i].state /\ facade'[i].handle = facade[i].handle
  BY DEF Keeps, OthersKept
<1>2. UNCHANGED <<SharedParts, IssuedNumbers>>
  BY <1>1 DEF SharedParts, MountPart, SurfacePart, BoundContainers, IssuedNumbers
<1>3. UNCHANGED HostPhase
  BY <1>1 DEF HostPhase
<1>4. UNCHANGED HostHoldings
  <2>1. \A i \in Host : Holdings(i)' = Holdings(i)
    BY <1>1 DEF Holdings, MountPart, SurfacePart, BoundContainers, Owner
  <2>2. QED
    BY <2>1 DEF HostHoldings
<1>5. QED
  BY <1>2, <1>3, <1>4 DEF OwnershipVars

LEMMA OwnershipInit == Init => Ownership!Init
<1> SUFFICES ASSUME Init PROVE Ownership!Init
  OBVIOUS
<1>1. HostInv /\ PartsHeld /\ HoldingsNamed
  BY InitInv, PartsAreHeld, HoldingsNow
<1>2. \A i \in Host : facade[i].state = "NEW" /\ ~Owner(i) /\ ~Active(i)
  BY DEF Init, NewFacade, NoIdentity, Owner, Active
<1>3. \A i \in Host : Holdings(i) = {}
  BY <1>1, <1>2 DEF HoldingsNamed, MountOf, SurfaceOf
<1>4. SharedParts = {}
  BY <1>1, <1>3 DEF PartsHeld
<1>5. HostHoldings = [i \in Host |-> {}]
  BY <1>3 DEF HostHoldings
<1>6. HostPhase = [i \in Host |-> "new"]
  <2>1. Phase("NEW") = "new"
    BY DEF Phase
  <2>2. QED
    BY <1>2, <2>1 DEF HostPhase
<1>7. IssuedNumbers \subseteq Number
  <2>1. containers.next_mount_id \in 1..MaxMountId + 1
    BY <1>1, RegistryFacts DEF HostInv, HostTypes
  <2>2. 1..containers.next_mount_id - 1 \subseteq 1..MaxMountId
    BY <2>1, MountAssumption
  <2>3. QED
    BY <2>2 DEF IssuedNumbers, Number, Spent
<1>8. QED
  BY <1>4, <1>5, <1>6, <1>7 DEF Ownership!Init

\* Composed hosts implement the ownership of parts: over every call, early return and
\* failure half-way, the shared registries change only as HostOwnership allows.
THEOREM HostsImplementOwnership == Spec => OwnershipImplemented
<1>1. ASSUME HostInv, HostInv', [Next]_vars
      PROVE  [Ownership!Next]_OwnershipVars
  <2>1. CASE UNCHANGED vars
    BY <2>1 DEF vars, OwnershipVars, HostPhase, HostHoldings, Holdings, SharedParts, MountPart,
                SurfacePart, BoundContainers, IssuedNumbers, Owner, Spent
  <2>2. CASE Next
    <3>1. PICK k \in Host : Changes(k)
      BY <1>1, <2>2, StepChanges
    <3>2. Keeps(k) \/ (\E c \in ContainerId : Takes(k, c)) \/ (\E h : Gets(k, h)) \/ GivesUp(k)
      BY <3>1 DEF Changes
    <3>3. QED
      BY <1>1, <3>2, KeepsStutters, TakesMounts, GetsActivates, GivesUpEnds DEF Ownership!Next
  <2>3. QED
    BY <1>1, <2>1, <2>2
<1>2. HostInv /\ HostInv' /\ [Next]_vars => [Ownership!Next]_OwnershipVars
  BY <1>1
<1>3. QED
  BY <1>2, OwnershipInit, HostInvariant, PTL
  DEF Spec, OwnershipImplemented, Ownership!Spec, Ownership!vars, OwnershipVars
=============================================================================
