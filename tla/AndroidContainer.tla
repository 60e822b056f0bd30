--------------------------- MODULE AndroidContainer ---------------------------
(***************************************************************************)
(* Exclusive ownership of Android containers: ContainerRegistry and        *)
(* apply_action of scripts/android_container_model.py.  One operator per   *)
(* action, from the registry to the next registry and the one effect the   *)
(* adapter carries out on the view hierarchy; an error code leaves the     *)
(* registry as it was.  Every action is a main-thread one, and every       *)
(* identity a positive Kotlin Long.                                        *)
(***************************************************************************)
EXTENDS Integers

CONSTANTS
  ContainerId,   \* application-provided ViewGroups
  MaxMountId     \* stands for MAX_KOTLIN_LONG, the last mount id

ASSUME MountAssumption == MaxMountId \in Nat

\* `root_id` is None while RESERVED.
NoRoot == 0

Binding(host, mount, state, root) ==
  [host_id |-> host, mount_id |-> mount, state |-> state, root_id |-> root]

\* An unbound container has no entry in the dictionary `bindings`.
Unbound == Binding(0, 0, "UNBOUND", NoRoot)

NewRegistry ==
  [next_mount_id |-> 1, bindings |-> [c \in ContainerId |-> Unbound], retired_roots |-> {}]

Emits(r, effect, root, mount) ==
  [registry |-> r, effect |-> effect, root_id |-> root, mount_id |-> mount]
Drops(r, code) == Emits(r, code, NoRoot, 0)

Unbind(r, c) == [r EXCEPT !.bindings[c] = Unbound]
Retire(r, root) == [r EXCEPT !.retired_roots = @ \cup {root}]

\* Mutant: work is matched by host and not by mount.
CurrentHost(r, c, host, mount) ==
  r.bindings[c].state # "UNBOUND" /\ r.bindings[c].host_id = host

\* The complete identity names the container's binding.
Current(r, c, host, mount) ==
  /\ r.bindings[c].state # "UNBOUND"
  /\ r.bindings[c].host_id = host
  /\ r.bindings[c].mount_id = mount

Reserved(r, c, host, mount) ==
  Current(r, c, host, mount) /\ r.bindings[c].state = "RESERVED"

ActiveRoots(r) == {r.bindings[c].root_id : c \in ContainerId} \ {NoRoot}

\* validate_state of android_container_invariants.py: mount ids and roots have one owner,
\* ids are below the allocator, and a retired root is never owned again.
ValidRegistry(r) ==
  LET bound == {c \in ContainerId : r.bindings[c] # Unbound}
  IN /\ r.next_mount_id \in 1..MaxMountId + 1
     /\ \A c \in bound : LET b == r.bindings[c] IN
          /\ b.host_id > 0 /\ b.mount_id \in 1..r.next_mount_id - 1
          /\ \/ b.state = "RESERVED" /\ b.root_id = NoRoot
             \/ b.state = "ATTACHED" /\ b.root_id > 0 /\ b.root_id \notin r.retired_roots
     /\ \A c, d \in bound : c # d =>
          /\ r.bindings[c].mount_id # r.bindings[d].mount_id
          /\ r.bindings[c].root_id = r.bindings[d].root_id => r.bindings[c].root_id = NoRoot

-----------------------------------------------------------------------------

\* Mutant: mount ids run past the last one.
ClaimUnchecked(r, c, host) ==
  IF r.bindings[c].state # "UNBOUND" THEN Drops(r, "CONTAINER_ALREADY_OWNED")
  ELSE Emits([r EXCEPT !.next_mount_id = @ + 1,
                       !.bindings[c] = Binding(host, r.next_mount_id, "RESERVED", NoRoot)],
             "ADD_ROOT", NoRoot, r.next_mount_id)

\* Mutant: a claim takes over an owned container.
ClaimSteals(r, c, host) ==
  IF r.next_mount_id > MaxMountId THEN Drops(r, "MOUNT_ID_EXHAUSTED")
  ELSE Emits([r EXCEPT !.next_mount_id = @ + 1,
                       !.bindings[c] = Binding(host, r.next_mount_id, "RESERVED", NoRoot)],
             "ADD_ROOT", NoRoot, r.next_mount_id)

\* The container's owner is reported before exhaustion of the mount ids.
Claim(r, c, host) ==
  CASE r.bindings[c].state # "UNBOUND" -> Drops(r, "CONTAINER_ALREADY_OWNED")
    [] r.bindings[c].state = "UNBOUND" /\ r.next_mount_id > MaxMountId
         -> Drops(r, "MOUNT_ID_EXHAUSTED")
    [] OTHER
         -> Emits([r EXCEPT !.next_mount_id = @ + 1,
                             !.bindings[c] = Binding(host, r.next_mount_id, "RESERVED", NoRoot)],
                   "ADD_ROOT", NoRoot, r.next_mount_id)

\* Mutant: stale results are dropped with their root.
AttachSucceededDropsStale(r, c, host, mount, root) ==
  IF ~Reserved(r, c, host, mount) THEN Drops(r, "DROP_STALE_RESULT")
  ELSE Emits([r EXCEPT !.bindings[c] = Binding(host, mount, "ATTACHED", root)],
             "NONE", root, mount)

\* A result for an obsolete binding, or repeated, cleans up its own root unless some
\* binding shows it.
AttachSucceeded(r, c, host, mount, root) ==
  CASE ~Reserved(r, c, host, mount) /\ root \in ActiveRoots(r)
         -> Drops(r, "DROP_STALE_RESULT")
    [] ~Reserved(r, c, host, mount) /\ root \notin ActiveRoots(r)
         -> Emits(Retire(r, root), "REMOVE_STALE_ROOT", root, mount)
    [] Reserved(r, c, host, mount) /\ root \in ActiveRoots(r) \cup r.retired_roots
         -> Drops(r, "ROOT_NOT_DETACHED")
    [] OTHER
         -> Emits([r EXCEPT !.bindings[c] = Binding(host, mount, "ATTACHED", root)],
                   "NONE", root, mount)

\* Mutant: a failed attachment gives its mount id back.
AttachFailedReturnsId(r, c, host, mount) ==
  IF Reserved(r, c, host, mount)
  THEN Emits([Unbind(r, c) EXCEPT !.next_mount_id = @ - 1], "NONE", NoRoot, mount)
  ELSE Drops(r, "DROP_STALE_RESULT")

\* Mutant: a failed attachment leaves the container reserved.
AttachFailedKeepsClaim(r, c, host, mount) == Drops(r, "NONE")

AttachFailed(r, c, host, mount) ==
  IF Reserved(r, c, host, mount)
  THEN Emits(Unbind(r, c), "NONE", NoRoot, mount)
  ELSE Drops(r, "DROP_STALE_RESULT")

Release(r, c, host, mount) ==
  CASE ~Current(r, c, host, mount)
         -> Drops(r, "DROP_STALE_RELEASE")
    [] Reserved(r, c, host, mount)
         -> Emits(Unbind(r, c), "CANCEL_ATTACH", NoRoot, mount)
    [] OTHER
         -> Emits(Retire(Unbind(r, c), r.bindings[c].root_id),
                   "REMOVE_ROOT", r.bindings[c].root_id, mount)
=============================================================================
