------------------------ MODULE AndroidContainerSystem ------------------------
(***************************************************************************)
(* The container registry with the view hierarchy and the attachments it   *)
(* orders.  ADD_ROOT queues an attachment; Android adds the view, or fails *)
(* to, at a later time, and the result comes later still: releases and new *)
(* claims of the same container may come in between.  A cancellation may   *)
(* be too late to stop an attachment, and a result may be delivered twice. *)
(* Hosts release what they ever claimed, at any time and repeatedly.  The  *)
(* framework creates each root for one attachment.                         *)
(***************************************************************************)
EXTENDS AndroidContainer, FiniteSets

CONSTANTS
  HostId,   \* values of host_id
  RootId    \* framework root views

None == 0

\* _positive: every identity is a positive long.
ASSUME ContainerAssumption ==
  None \notin ContainerId /\ HostId \cup RootId \subseteq Nat \ {0}

VARIABLES
  registry,  \* the ContainerRegistry
  attempts,  \* attachments whose result is to be delivered, or to be delivered again
  parent,    \* the container that shows each root, None if it has no parent
  created,   \* roots the framework has created
  claimed,   \* history: identities that claims returned
  removal    \* root_id of the last removal effect and whether the root had a parent

vars == <<registry, attempts, parent, created, claimed, removal>>

Attempt(id, stage, root) == [id |-> id, stage |-> stage, root |-> root, again |-> FALSE]

Init ==
  /\ registry = NewRegistry
  /\ attempts = {}
  /\ parent = [root \in RootId |-> None]
  /\ created = {}
  /\ claimed = {}
  /\ removal = [root |-> NoRoot, shown |-> TRUE]

\* REMOVE_ROOT and REMOVE_STALE_ROOT take exactly one view out of the hierarchy; only a
\* result that comes `again` may order it for a view that is not there.
CarryOut(answer, again) ==
  /\ registry' = answer.registry
  /\ IF answer.effect \in {"REMOVE_ROOT", "REMOVE_STALE_ROOT"}
     THEN /\ parent' = [parent EXCEPT ![answer.root_id] = None]
          /\ removal' = [root |-> answer.root_id, shown |-> again \/ parent[answer.root_id] # None]
     ELSE UNCHANGED <<parent, removal>>

HostClaims(c, host) ==
  LET answer == Claim(registry, c, host)
      id == [container |-> c, host |-> host, mount |-> answer.mount_id]
  IN /\ CarryOut(answer, FALSE)
     /\ IF answer.effect = "ADD_ROOT"
        THEN claimed' = claimed \cup {id} /\ attempts' = attempts \cup {Attempt(id, "queued", NoRoot)}
        ELSE UNCHANGED <<claimed, attempts>>
     /\ UNCHANGED created

HostReleases(id) ==
  LET answer == Release(registry, id.container, id.host, id.mount)
  IN /\ CarryOut(answer, FALSE)
     /\ attempts' \in IF answer.effect = "CANCEL_ATTACH"
                      THEN {attempts, attempts \ {Attempt(id, "queued", NoRoot)}}
                      ELSE {attempts}
     /\ UNCHANGED <<claimed, created>>

\* Android's addView, of a root that has no parent.
ViewAdded(a, root) ==
  /\ a.stage = "queued" /\ root \notin created
  /\ parent' = [parent EXCEPT ![root] = a.id.container]
  /\ created' = created \cup {root}
  /\ attempts' = (attempts \ {a}) \cup {Attempt(a.id, "added", root)}
  /\ UNCHANGED <<registry, claimed, removal>>

ViewFails(a) ==
  /\ a.stage = "queued"
  /\ attempts' = (attempts \ {a}) \cup {Attempt(a.id, "failed", NoRoot)}
  /\ UNCHANGED <<registry, parent, created, claimed, removal>>

\* A result that arrives for the first time may be delivered once more, at any time.
ResultArrives(a) ==
  /\ \/ /\ a.stage = "added"
        /\ CarryOut(AttachSucceeded(registry, a.id.container, a.id.host, a.id.mount, a.root), a.again)
     \/ /\ a.stage = "failed"
        /\ CarryOut(AttachFailed(registry, a.id.container, a.id.host, a.id.mount), a.again)
  /\ \/ attempts' = attempts \ {a}
     \/ ~a.again /\ attempts' = (attempts \ {a}) \cup {[a EXCEPT !.again = TRUE]}
  /\ UNCHANGED <<claimed, created>>

Next ==
  \/ \E c \in ContainerId, host \in HostId : HostClaims(c, host)
  \/ \E id \in claimed : HostReleases(id)
  \/ \E a \in attempts :
       (\E root \in RootId : ViewAdded(a, root)) \/ ViewFails(a) \/ ResultArrives(a)

Spec == Init /\ [][Next]_vars

\* Android runs every queued attachment, and its result is delivered.
Fairness ==
  \A id \in [container : ContainerId, host : HostId, mount : 1..MaxMountId] :
    WF_vars(\E a \in attempts :
              /\ a.id = id
              /\ (\E root \in RootId : ViewAdded(a, root)) \/ ViewFails(a) \/ ResultArrives(a))

FairSpec == Spec /\ Fairness

-----------------------------------------------------------------------------

\* The registry is in a state that the repository's own invariants allow: bindings share
\* neither mount ids nor roots, and own no root that was removed before.  Attachments and
\* the view hierarchy have the types of the model.
TypeOK ==
  /\ ValidRegistry(registry)
  /\ registry.retired_roots \subseteq RootId
  /\ parent \in [RootId -> ContainerId \cup {None}]
  /\ \A a \in attempts : a.id \in claimed /\ a.stage \in {"queued", "added", "failed"}
                         /\ a.again \in BOOLEAN

\* "mount IDs are ... never reused", over every claim since the beginning: two claims
\* of any containers by any hosts never get one mount id, even when rejected claims,
\* failures and releases come in between.
MountIdsAreUnique ==
  /\ \A id1, id2 \in claimed : id1.mount = id2.mount => id1 = id2
  /\ \A id \in claimed : id.mount < registry.next_mount_id

\* The view hierarchy shows what the registry says.  An attached binding's root is really
\* shown by its container: no stale result or release removed it.  A root that is shown
\* belongs to the binding of its container, or its result is still to come: none outlives
\* its release, whichever of release, attachment and replacement came first.  And
\* "attached_root_is_removed_exactly_once": every removal effect finds its root shown, unless
\* it answers a result that is delivered again.
ShownRootsAreOwned ==
  /\ \A c \in ContainerId :
       registry.bindings[c].state = "ATTACHED" => parent[registry.bindings[c].root_id] = c
  /\ \A root \in RootId :
       parent[root] # None =>
         \/ registry.bindings[parent[root]].root_id = root
         \/ \E a \in attempts : a.root = root /\ ~a.again
  /\ removal.shown

\* "stale_results_never_mutate_current_binding": a binding changes by work of its own
\* only.  It becomes attached by the result of its own attachment, with the root that
\* attachment added; it is not unbound by another attachment's result; and it gives up
\* an attached root only by taking it out of the hierarchy.
OnlyOwnWork ==
  [][\A c \in ContainerId :
       LET old == registry.bindings[c]
           new == registry'.bindings[c]
           done == attempts \ attempts'
           own(a) == a.id = [container |-> c, host |-> old.host_id, mount |-> old.mount_id]
       IN old # new =>
            /\ new.state = "ATTACHED" => \E a \in done : own(a) /\ a.root = new.root_id
            /\ old.state = "RESERVED" => \A a \in done : own(a)
            /\ old.state = "ATTACHED" => new = Unbound /\ parent'[old.root_id] = None]_vars

\* A reserved container does not stay blocked: its attachment is confirmed or fails.
ReservationsEnd ==
  \A c \in ContainerId :
    registry.bindings[c].state = "RESERVED" ~> registry.bindings[c].state # "RESERVED"
=============================================================================
