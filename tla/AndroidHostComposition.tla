------------------------ MODULE AndroidHostComposition ------------------------
(***************************************************************************)
(* The composed Android host: AndroidHostState and apply_action of         *)
(* scripts/android_host_composition_model.py, which chains transitions of  *)
(* the facade, of the container registry and of the surface lifecycle in   *)
(* one main-thread call.                                                   *)
(*                                                                         *)
(* Several hosts of one process run side by side over one container        *)
(* registry and one surface registry, each a foreign owner to the others,  *)
(* and in a process that may have handed out mount ids and generations     *)
(* before.  Native results come late, repeated, or for hosts that expect   *)
(* none; callbacks name any handle.                                        *)
(***************************************************************************)
EXTENDS AndroidFacade, AndroidContainer

CONSTANTS
  Host,           \* composed hosts of the process
  HostId,         \* values of host_id the application passes
  SurfaceId,      \* values of surface_id
  RootId,         \* framework root views
  MaxGeneration   \* stands for u64::MAX, past MaxLong

ASSUME GenerationAssumption == MaxGeneration \in Nat

VARIABLES
  facade,      \* per host: model.facade
  identity,    \* per host: container_id, host_id, surface_id, root_id, mount_id
  containers,  \* the shared container registry
  surfaces,    \* the shared surface lifecycle
  outcome      \* the last outcome with its reason, or an error code

vars == <<facade, identity, containers, surfaces, outcome>>

Surfaces == INSTANCE SurfaceLifecycle WITH lifecycle <- surfaces

\* All fields are None before begin; mount_id is None again once released.
NoIdentity == [container_id |-> 0, host_id |-> 0, surface_id |-> 0, root_id |-> 0, mount_id |-> 0]

Outcome(type, reason) == <<type, reason>>
Error(code) == Outcome("error", code)

Init ==
  /\ facade = [i \in Host |-> NewFacade]
  /\ identity = [i \in Host |-> NoIdentity]
  /\ \E m \in 1..MaxMountId + 1 : containers = [NewRegistry EXCEPT !.next_mount_id = m]
  /\ \E a \in {Surfaces!Available(n) : n \in 1..MaxGeneration} \cup {Surfaces!Exhausted} :
       surfaces = [allocator |-> a, active |-> {}]
  /\ outcome = Outcome("none", "none")

-----------------------------------------------------------------------------

Reject(code) ==
  outcome' = Error(code) /\ UNCHANGED <<facade, identity, containers, surfaces>>

\* _fail_creation: a facade that is still NEW goes through CREATING.
FailCreation(f, reason) ==
  CreateFailed(IF f.state = "NEW" THEN RequestCreate(f, "main").facade ELSE f,
               "main", reason).facade

\* Mutant: the host forgets its mount and leaves the container bound.
ForgetOwned(i, r) ==
  containers' = r /\ identity' = [identity EXCEPT ![i].mount_id = 0]

\* _release_owned_container, of the registry `r`.
ReleaseOwned(i, r) ==
  /\ containers' = IF identity[i].mount_id = 0 THEN r
                   ELSE Release(r, identity[i].container_id, identity[i].host_id,
                                identity[i].mount_id).registry
  /\ identity' = [identity EXCEPT ![i].mount_id = 0]

StartFailed(i, f, reason) ==
  facade' = [facade EXCEPT ![i] = f] /\ outcome' = Outcome("START_FAILED", reason)

(* begin: claim the container, attach the root, then request the native surface. *)
Begin(i, c, host, surface, root) ==
  LET claim == Claim(containers, c, host)
      attach == AttachSucceeded(claim.registry, c, host, claim.mount_id, root)
      owned(mount) == [container_id |-> c, host_id |-> host, surface_id |-> surface,
                       root_id |-> root, mount_id |-> mount]
      failed == FailCreation(facade[i], "HOST_UNAVAILABLE")
      ids == {c, host, surface, root}
  IN \/ facade[i].state = "NEW" /\ ~(ids \subseteq 1..MaxLong) /\ Reject("INVALID_ID")
     \/ /\ facade[i].state = "NEW" /\ ids \subseteq 1..MaxLong
        /\ claim.effect # "ADD_ROOT"
        /\ StartFailed(i, failed, claim.effect)
        /\ UNCHANGED <<identity, containers, surfaces>>
     \/ /\ facade[i].state = "NEW" /\ ids \subseteq 1..MaxLong
        /\ claim.effect = "ADD_ROOT"
        /\ attach.effect = "ROOT_NOT_DETACHED"
        /\ containers' = Release(attach.registry, c, host, claim.mount_id).registry
        /\ identity' = [identity EXCEPT ![i] = owned(0)]
        /\ StartFailed(i, failed, "ROOT_NOT_DETACHED")
        /\ UNCHANGED surfaces
     \/ /\ facade[i].state = "NEW" /\ ids \subseteq 1..MaxLong
        /\ claim.effect = "ADD_ROOT"
        /\ attach.effect # "ROOT_NOT_DETACHED"
        /\ containers' = attach.registry
        /\ identity' = [identity EXCEPT ![i] = owned(claim.mount_id)]
        /\ facade' = [facade EXCEPT ![i] = RequestCreate(@, "main").facade]
        /\ outcome' = Outcome("CREATE_REQUESTED", "none")
        /\ UNCHANGED surfaces

\* begin, of a host that has begun: the state is looked at before the identities.
BeginAgain(i) == facade[i].state # "NEW" /\ Reject("INVALID_TRANSITION")

(* native_create_succeeded: the surface registry creates the surface now. *)
NativeCreateSucceeded(i) ==
  LET code == Surfaces!CreateCode(surfaces, identity[i].surface_id)
      handle == Surfaces!NewHandle(surfaces, identity[i].surface_id)
      created == Surfaces!AfterCreate(surfaces, identity[i].surface_id)
      disposed == Surfaces!AfterDispose(created, handle)
      answer == CreateSucceeded(facade[i], "main", handle)
      failed == FailCreation(facade[i], "HOST_UNAVAILABLE")
      expected == facade[i].state \in {"CREATING", "CLOSE_PENDING_CREATE"}
  IN \/ ~expected /\ Reject("INVALID_TRANSITION")
     \/ /\ expected /\ code # "created"
        /\ ReleaseOwned(i, containers)
        /\ StartFailed(i, failed, code)
        /\ UNCHANGED surfaces
     \/ /\ expected /\ code = "created" /\ handle.generation > MaxLong
        /\ surfaces' = disposed
        /\ ReleaseOwned(i, containers)
        /\ StartFailed(i, failed, "HANDLE_OUT_OF_RANGE")
     \/ /\ expected /\ code = "created" /\ answer.effect = "NONE"
        /\ surfaces' = created
        /\ facade' = [facade EXCEPT ![i] = answer.facade]
        /\ outcome' = Outcome("SURFACE_ACTIVE", "none")
        /\ UNCHANGED <<identity, containers>>
     \/ /\ expected /\ code = "created" /\ answer.effect = "CALL_NATIVE_DISPOSE"
        /\ surfaces' = disposed
        /\ facade' = [facade EXCEPT ![i] = DisposeSucceeded(answer.facade, "main").facade]
        /\ outcome' = Outcome("LATE_SURFACE_DISPOSED", "none")
        /\ UNCHANGED <<identity, containers>>

(* native_create_failed *)
NativeCreateFailed(i, reason) ==
  LET answer == CreateFailed(facade[i], "main", reason)
  IN \/ answer.effect # "NONE" /\ Reject(answer.effect)
     \/ /\ answer.effect = "NONE"
        /\ ReleaseOwned(i, containers)
        /\ StartFailed(i, answer.facade, reason)
        /\ UNCHANGED surfaces

(* close, from the main thread. *)
Close(i) ==
  LET answer == RequestClose(facade[i], "main")
      handle == answer.facade.handle
  IN \/ /\ facade[i].state = "CREATING"
        /\ ReleaseOwned(i, containers)
        /\ facade' = [facade EXCEPT ![i] = answer.facade]
        /\ outcome' = Outcome("CLOSE_WAITING_NATIVE", "none")
        /\ UNCHANGED surfaces
     \/ /\ answer.effect = "CALL_NATIVE_DISPOSE"
        /\ IF handle \in surfaces.active
           THEN /\ surfaces' = Surfaces!AfterDispose(surfaces, handle)
                /\ ReleaseOwned(i, containers)
                /\ facade' = [facade EXCEPT ![i] = DisposeSucceeded(answer.facade, "main").facade]
                /\ outcome' = Outcome("CLOSED", "none")
           ELSE \* _dispose_surface raises after the facade has moved
                /\ facade' = [facade EXCEPT ![i] = answer.facade]
                /\ outcome' = Error("INTERNAL_INVARIANT")
                /\ UNCHANGED <<identity, containers, surfaces>>
     \/ /\ facade[i].state # "CREATING" /\ answer.effect # "CALL_NATIVE_DISPOSE"
        /\ facade' = [facade EXCEPT ![i] = answer.facade]
        /\ outcome' = Outcome("NONE", "none")
        /\ UNCHANGED <<identity, containers, surfaces>>

(* callback: the complete handle first, then the facade's own gate. *)
NativeCallback(i, h, sequence) ==
  LET resolved == Surfaces!HandleCode(surfaces, h, "callback_accepted")
      answer == Callback(facade[i], "main", h, sequence)
      accepted == ValidHandle(h) /\ sequence \in 1..MaxLong
  IN /\ \/ /\ ~accepted
           /\ outcome' = Error("INVALID_ID")
           /\ UNCHANGED facade
        \/ /\ accepted /\ resolved # "callback_accepted"
           /\ outcome' = Outcome("CALLBACK_DROPPED", resolved)
           /\ UNCHANGED facade
        \/ /\ accepted /\ resolved = "callback_accepted"
           /\ answer.effect # "DELIVER_CALLBACK"
           /\ outcome' = Outcome("CALLBACK_DROPPED", "FACADE_REJECTED")
           /\ facade' = [facade EXCEPT ![i] = answer.facade]
        \/ /\ accepted /\ resolved = "callback_accepted"
           /\ answer.effect = "DELIVER_CALLBACK"
           /\ outcome' = Outcome("CALLBACK_DELIVERED", "none")
           /\ facade' = [facade EXCEPT ![i] = answer.facade]
     /\ UNCHANGED <<identity, containers, surfaces>>

Next ==
  \E i \in Host :
    \/ \E c \in ContainerId, host \in HostId, s \in SurfaceId, root \in RootId \cup {NoRoot} :
         Begin(i, c, host, s, root)
    \/ BeginAgain(i)
    \/ NativeCreateSucceeded(i)
    \/ \E reason \in Reason : NativeCreateFailed(i, reason)
    \/ Close(i)
    \/ \E s \in SurfaceId, g \in 1..MaxGeneration, sequence \in 1..MaxLong :
         NativeCallback(i, [surface_id |-> s, generation |-> g], sequence)
    \/ Reject("WRONG_THREAD")   \* any action called from another thread

Spec == Init /\ [][Next]_vars

\* The native library answers every create request.
NativeAnswers(i) ==
  /\ facade[i].state \in {"CREATING", "CLOSE_PENDING_CREATE"}
  /\ NativeCreateSucceeded(i) \/ \E reason \in Reason : NativeCreateFailed(i, reason)

Fairness == \A i \in Host : WF_vars(NativeAnswers(i))

FairSpec == Spec /\ Fairness

-----------------------------------------------------------------------------

\* The three models a host composes are each in a state that their own invariants allow,
\* although the host drives them past their usual callers.
TypeOK ==
  /\ \A i \in Host : ValidFacade(facade[i]) /\ facade[i].handle \in Surfaces!Handle \cup {NoHandle}
  /\ \A i \in Host : identity[i].mount_id \in 0..MaxMountId
  /\ ValidRegistry(containers)
  /\ containers.retired_roots \subseteq RootId
  /\ surfaces.active \subseteq Surfaces!Handle

Owner(i) == identity[i].mount_id # 0
OwnBinding(i) == containers.bindings[identity[i].container_id]

\* The composition never meets a state its own checks call impossible.
NoInternalError == outcome # Error("INTERNAL_INVARIANT")

\* "active_facade_has_exact_attached_root_and_live_surface": a host that is creating or
\* active is bound to its container by its own mount and root, and an active one holds
\* a live surface, whatever the other hosts of the process did; so a call finds what it
\* gives back, and never raises INTERNAL_INVARIANT half-way.
ActiveHostOwnsItsParts ==
  /\ \A i \in Host :
       /\ facade[i].state \in {"CREATING", "ACTIVE"} =>
            /\ Owner(i)
            /\ OwnBinding(i) = Binding(identity[i].host_id, identity[i].mount_id,
                                       "ATTACHED", identity[i].root_id)
       /\ facade[i].state = "ACTIVE" =>
            /\ facade[i].handle \in surfaces.active
            /\ facade[i].handle.surface_id = identity[i].surface_id
  /\ NoInternalError

\* Nothing leaks and nothing is shared: each live surface is held by exactly one active
\* host, and each bound container by exactly one host that is creating or active; closed
\* and failed hosts hold neither.
NothingLeaks ==
  /\ \A h \in surfaces.active :
       \E i \in Host : /\ facade[i].state = "ACTIVE" /\ facade[i].handle = h
                       /\ \A j \in Host \ {i} : facade[j].handle # h
  /\ \A c \in ContainerId :
       containers.bindings[c].state # "UNBOUND" =>
         \E i \in Host :
           /\ facade[i].state \in {"CREATING", "ACTIVE"}
           /\ identity[i].container_id = c /\ Owner(i)
           /\ \A j \in Host \ {i} : Owner(j) => identity[j].container_id # c

\* "close_releases_only_the_owned_root", "foreign ownership is preserved": a call on one
\* host leaves the container and the surface of every other host as they were.
ForeignOwnershipPreserved ==
  [][\A i \in Host :
       facade'[i] = facade[i] =>
         /\ Owner(i) => OwnBinding(i)' = OwnBinding(i) /\ identity'[i] = identity[i]
         /\ facade[i].state = "ACTIVE" => facade[i].handle \in surfaces'.active]_vars

\* The shared registries as parts: a bound container is in place `c` under its mount id, a
\* live surface in the place of its identity under its generation.
MountPart(c) ==
  [kind |-> "container", place |-> c, number |-> containers.bindings[c].mount_id]
SurfacePart(h) == [kind |-> "surface", place |-> h.surface_id, number |-> h.generation]

BoundContainers == {c \in ContainerId : containers.bindings[c].state # "UNBOUND"}

SharedParts ==
  {MountPart(c) : c \in BoundContainers} \cup {SurfacePart(h) : h \in surfaces.active}

\* What a host would release and dispose of now, found in the registries.
Holdings(i) ==
  LET own == {c \in BoundContainers :
                /\ Owner(i) /\ identity[i].container_id = c
                /\ containers.bindings[c].mount_id = identity[i].mount_id}
  IN {MountPart(c) : c \in own} \cup {SurfacePart(h) : h \in surfaces.active \cap {facade[i].handle}}

HostHoldings == [i \in Host |-> Holdings(i)]

\* The generations that a lifecycle `s` has gone past.
Spent(s) ==
  {g \in 1..MaxGeneration : s.allocator = Surfaces!Exhausted \/ g < s.allocator.next}

IssuedNumbers ==
  {<<"container", m>> : m \in 1..containers.next_mount_id - 1}
  \cup {<<"surface", g>> : g \in Spent(surfaces)}

Phase(state) ==
  CASE state = "NEW" -> "new"
    [] state = "CREATING" -> "mounted"
    [] state = "ACTIVE" -> "active"
    [] state = "CLOSE_PENDING_CREATE" -> "withdrawn"
    [] state \in {"CLOSED", "FAILED"} -> "ended"
    [] OTHER -> "impossible"

HostPhase == [i \in Host |-> Phase(facade[i].state)]

Part ==
  [kind : {"container"}, place : ContainerId, number : 1..MaxMountId]
  \cup [kind : {"surface"}, place : SurfaceId, number : 1..MaxGeneration]
Number ==
  {<<"container", m>> : m \in 1..MaxMountId} \cup {<<"surface", g>> : g \in 1..MaxGeneration}

Ownership == INSTANCE HostOwnership WITH
  phase <- HostPhase, holdings <- HostHoldings, parts <- SharedParts, issued <- IssuedNumbers

\* ADR-0011: whatever a call chains and wherever it fails, the registries that the hosts
\* share change only as hosts take new parts in order and give back all of theirs: no number
\* is issued twice in the process, and no part is ever with a host that has ended.
OwnershipImplemented == Ownership!Spec

\* "late_create_after_close_is_immediately_disposed": a host closed while native creation
\* is in flight never becomes active, and ends in a terminal state.
LateCreateEnds ==
  \A i \in Host :
    facade[i].state = "CLOSE_PENDING_CREATE" ~> [](facade[i].state \in {"CLOSED", "FAILED"})
=============================================================================
