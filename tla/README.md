# TLA+ models of rust-mobile-framework

This directory holds TLA+ specifications of the core of the repository, TLC
configurations that check them on small instances, and TLAPS proofs about the surface
registry, the commit coordinator, the reconciler's plans and the headless host that carries
them out, the Android facade, container registry and host composition, and the FFI. Paths below are relative to the repository root.

    tlc -workers 2 -config AndroidFacade.cfg MCAndroidFacade.tla   # one run
    tlapm CommitCoordinatorProofs.tla                              # the proofs of a module

`PROJECT.json` lists the runs, the properties each checks, the lines every
definition stands for, the hazards the properties are aimed at, and for each
property a mutant: a plausible bug, written as an operator next to the one it
replaces, under which TLC finds the property violated.

## 1. The system

A frontend describes a user interface as a tree of declarations. The tree is
validated, compared with the last confirmed tree, and turned into a batch of host
mutations; a host applies the batch; only then is the new tree promoted. Around
that flow, runtime and Android adapter own surfaces, containers and callbacks.

| Component | Source | State | Operations |
|---|---|---|---|
| Candidate validation | `crates/rmf-core/src/candidate` | none | `ValidatedTree::new` with limits, property schema, sibling keys |
| Reconciler | `crates/rmf-reconciliation` | none (identities and revision are in the snapshot) | `Reconciler::prepare` |
| Commit coordinator | `crates/rmf-runtime/src/commit.rs` | confirmed snapshot, status, adapter | `apply`, `recover`, accessors |
| Surface registry | `crates/rmf-runtime/src/surface.rs`, `lib.rs` | generation allocator, live slots | `create`, `dispose`, `resolve`, callback dispatch |
| Headless adapter | `adapters/rmf-renderer-headless` | host tree and revision, and the copy a batch works on | `apply_batch` with its six mutations, `remount_snapshot`, `agrees_with` |
| Lifecycle contract | `scripts/surface_lifecycle_model.py` | allocator, live handles | `create`, `dispose`, `callback` |
| Commit contract | `scripts/check_commit_state_fixtures.py` | state name, confirmed and attempted revision | `begin_apply`, host results, `begin_remount`, remount results |
| Android facade | `scripts/android_facade_model.py` | nine lifecycle states, handle, last sequence | ten requests, results and callbacks |
| Android container | `scripts/android_container_model.py` | bindings, mount-id allocator, retired roots | `claim`, `attach_succeeded`, `attach_failed`, `release` |
| Android host | `scripts/android_host_composition_model.py` | the three above and the host's identity | `begin`, native results, `close`, `callback` |
| Reconciliation oracle | `scripts/reconciliation_*.py` | none (tree, revision and allocator are in the request) | `execute`: validation, matching, batch; `verify_batch_result` on an independent host |
| Sequence campaign | `scripts/check_reconciliation_sequences.py` | committed tree, next identity, identities ever created | requests in sequence, checked one by one |
| FFI contract | `scripts/android_ffi_*.py`, `check_android_ffi_*.py` | none | frame and body codecs, admission of JNI calls, one-bit mutation campaign |
| Other checkers, benchmarks, examples | `scripts/check_*.py`, `benchmarks`, `examples` | none | drivers and static checks |

The Python models are the executable contracts of the repository: there is no Kotlin
code yet, and the Rust code is required to conform to them.

**Interactions.** The coordinator calls the host through two synchronous ports
(`BatchApplier`, `SnapshotRemounter`); callers read its confirmed snapshot, prepare
against it at any time and on any thread, and hand the result back later. Runtime callbacks are admitted
by the registry under a shared borrow. The Android host calls facade, container
registry and surface registry in one main-thread call; the facade posts tasks to the main queue and calls
a native library that answers later; the container registry orders attachments whose
results come later. Events and commit results travel to the native side as payloads of a JNI
call, and responses come back as frames. The Rust reconciler and the Python oracle implement
one contract separately: the first handles a few shapes of change with special plans, the
second all changes by one rule.

**What is hard.** Prepared commits that are late, duplicated or prepared from something
that was never confirmed; failures in the middle of a batch and of a remount; port calls that unwind; stale handles whose slot was
taken again; generations, mount ids, node identities and revisions at their last value;
create racing close on two threads with cancelled tasks and late results; late
attachments of containers that were released and claimed again; moves and removals whose
indices refer to a list that the batch has already changed; limits that are counted while
walking; packets damaged in several places. `PROJECT.json` lists each
hazard at its line with the properties aimed at it.

**What makes each part correct.** Registry: a handle that died never lives again, and no
callback runs on a dead surface. Coordinator: when ready, the host shows the confirmed
tree. Reconciler: a batch makes the host that shows the old tree show exactly the
candidate; what matches keeps its identity. Headless host: a forest after every mutation of
any batch, and a whole tree whenever it is published. Facade: no native surface is lost or disposed
twice; nothing happens after close; closing ends. Container: what is shown is what is
owned. Host: it owns its parts exactly and leaves those of others alone. Oracle: it refuses
exactly the invalid requests, and what both accept, it and the Rust code commit alike. FFI: only
the one encoding of a value is accepted as that value.

## 2. Modules

    SurfaceLifecycle <--implements-- SurfaceRegistry <-- SurfaceRegistryProofs
    CommitContract   <--implements-- CommitCoordinator <-- CommitCoordinatorProofs
    HostOwnership    <--implements-- AndroidHostComposition <-- AndroidHostProofs
    HostMutations <-- HostBatches      HostMutations <-- HeadlessHost
    Mutations <-- ChildPlans <-- Reconciler
    Reconciler, HeadlessHost <-- CommittedSurface
    HostBatches, ChildPlans <-- ReconciliationProofs
    Mutations <-- ReconciliationValidation <-- ReconciliationOracle, CandidateValidation
    ReconciliationOracle, ReconciliationBatch, CandidateValidation, Reconciler,
        HeadlessHost <-- ReconciliationCampaign
    AndroidFfi       <-- AndroidFfiSystem <-- AndroidFfiProofs
    AndroidFacade    <-- AndroidFacadeSystem
    AndroidContainer <-- AndroidContainerSystem
    AndroidFacade, AndroidContainer, SurfaceLifecycle <-- AndroidHostComposition
    AndroidFacade, AndroidContainer <-- AndroidPartsProofs   (lemmas about their operators)
    AndroidFacadeSystem,    AndroidPartsProofs <-- AndroidFacadeSystemProofs
    AndroidContainerSystem, AndroidPartsProofs <-- AndroidContainerSystemProofs
    AndroidHostComposition, AndroidPartsProofs <-- AndroidHostProofs

Each system module is instantiated for TLC by an `MC` module of its name. `CommittedTrees` is
the vocabulary in which properties speak of trees (which children are the same, which changes
are supported), and `SampleTrees` the trees that the `MC` modules take as candidates.

**SurfaceRegistry** has `next_generation` (0 is `None`) and `active` (0 where the
`BTreeMap` has no entry) as the code does. A callback is two steps, so that others can
overlap it; `&mut self` is the guard `ExclusiveBorrow`. Callers present any handle ever
returned. `ContractState` maps it to **SurfaceLifecycle**, whose `Next` is `transition`.

**CommitCoordinator** splits `apply` and `recover` at the port call: begin publishes
`Applying` or `Remounting`, the return step is one of the match arms. In between the host
mutates, callers read, prepare and call again. Trees are opaque: a batch carries a host from the tree it
was prepared from to its target, and any other host to `Torn`. `FailedAfterMutation`
leaves the host untouched, torn, or completely changed. Two flags
widen the environment: `Speculative` callers prepare from `into_snapshot()` of
preparations that were not confirmed; with `HostMayPanic` port calls may unwind.
The map to **CommitContract** takes the status as the contract's state name.

**Reconciler** is `prepare` as operators. The code pushes mutations and returns at the
first error; the model builds the list of steps with a `Failed` step where the code would return,
and `Prepare` cuts it at the first failure or at the operation limit, whichever the code
meets first. **ChildPlans** holds what it decides of two lists of children, without the recursion
over the tree: property deltas, single moves, replacements, keyed reorders, and the scan for
insertions and removals. The Fenwick tree is what it counts: how many children before a child
still wait to be placed.

**HostMutations** is what a mutation does to the headless adapter's `HostState`, one operator per
mutation with the code's order of checks, and `validate_graph`. The loops of `has_ancestor` and
`validate_graph` are given by what they find: an identity is above another, or reached from the root, when every set of
nodes that is closed under parents (or children) has it. **HeadlessHost** adds
`remount_snapshot` and `agrees_with`, which recurse over committed trees.
**HostBatches** is `apply_batch` as a process: `BeginBatch` clones the host, `Mutate` carries out any
mutation the types allow (not only the reconciler's) on the copy, `Publish` and `Discard` are the end
of `apply_to_copy` and of `apply_batch`; `Remount` may come between two batches.
**CommittedSurface** composes both with the coordinator (port calls are one step here; the
interleavings of a call are CommitCoordinator's subject). `PartialHost` adds a host that stops after any prefix of a
batch, which the port allows and the headless adapter never does.

**ReconciliationValidation** and **ReconciliationOracle** are `execute`. A check yields the
code of the violation it raises or "none", and `??` takes the first; the order is the code's.
What raises on a wrong JSON type is represented where it is observable: a kind may be empty, a
value may not fit its tag, a field may be missing. A walk carries what the Python code mutates:
the allocator, the operations, and the host's list as it is at that moment.
**ReconciliationBatch** is the reference's own host. **CandidateValidation** is the core's
validator in Rust. **ReconciliationCampaign** is `run_campaign`: a request is executed in one
step and promoted (or its refusal noted) in the next. Where the script draws candidates at
random, the model tries all of them, and adds requests with overridden limits, damaged ones,
late ones, and committed trees that the reference never produced. Each request also goes
through the Rust validator, reconciler and headless host, so that one run holds the two
implementations against each other.

**AndroidFfi** has the codecs and `admit`; a packet is a record of the contract's fields and
its length in bytes, and a decoder is its list of checks in source order. **AndroidFfiSystem**
sends the packets of the mutation campaign and those at the last identifiers and revisions,
damages them (a bit of any field, bytes cut off or appended, a wrong primitive in the call), up
to `MaxDamage` times, and delivers them. Widths are scaled: identifiers have 5 bits and the
payload limit is 41 bytes, with the last identifier and the limit in the same place relative to
their type. Codes keep their values, in fields that hold them and some unregistered ones.

**AndroidFacade** and **AndroidContainer** are one operator per action, from state to next
state and effect, because the composition calls several in a row. **AndroidFacadeSystem**
adds application threads, the main queue (drained in any order; a cancelled
task may still come), and a native library that answers late and sends arbitrary
callbacks. **AndroidContainerSystem** adds the view hierarchy and attachments that succeed, fail or are
cancelled too late, with results that are late and may be delivered twice. `ValidFacade` and `ValidRegistry` are the repository's own state invariants
(`android_*_invariants.py`), and parts of `TypeOK` here and in the composition. **AndroidHostComposition** runs several hosts, each one an
`AndroidHostState`, over one container registry and one surface registry, from every allocator position.
**HostOwnership** is what it promises (ADR-0011): parts (a mount, then a surface) are taken by one host,
under a number not issued before and in a free place, and given back by that host, all at once and for good. The
mapping `Holdings` reads the parts of a host in the registries and not in the host.

## 3. Runs

| Run | Checks | Bounds |
|---|---|---|
| `surface_registry` | dense generations, dead handles stay dead, callbacks on live surfaces, lifecycle contract | 2 slots, 4 generations, 2 callers |
| `commit_agreement` | a ready host shows the confirmed tree; ready again and again | 3 trees, 3 revisions, all sets of held commits |
| `commit_protocol` | commit contract, closed after a panic; speculative callers, panicking ports | 2 trees, 2 revisions |
| `commit_speculation` | finding, see below | 2 trees, 2 revisions |
| `android_facade` | due events are expected, no surface lost and one disposal, nothing after close and ordered delivery before, closing ends | 2 threads, sequences and ids up to 3, 2 native handles |
| `android_container` | unique mount ids, hierarchy and registry agree and roots are removed once, own work only, reservations end | 2 containers, 2 hosts, 3 mount ids and roots, every result once or twice |
| `android_host` | hosts own their parts and meet no internal error, nothing leaks, foreign parts untouched, ownership implemented, late create ends | 2 hosts with the same host id, 2 containers, surfaces and roots |
| `surface_reconcile` | both reconcilers: batches apply, the tree is the candidate, identity of matches, agreement with each other; exact refusal of requests, and of candidates by both validators | every candidate after every other for 3 revisions; 42 trees, four of them also under 6 overrides of limits and with every damage of a request |
| `host_batches` | a host is a forest in the middle of any batch (its typing is only proved: `HostTypeCorrect`); refused mutations change nothing; the graph check refuses exactly what has a loose node; what is published is a tree | 3 identities, one kind and property, indices up to one past the longest list, batches of any length for 2 revisions, 4 snapshots |
| `surface_recovery` | a ready host agrees exactly; identities unique up to exhaustion, also of held preparations | 6 trees, 2 held preparations, 4 identities |
| `android_ffi` | only canonical packets are accepted; a damaged outcome is not another one; registered codes | 18 packets and calls, 2 damages each |
| `surface_identity` | finding | as `surface_recovery`, 5 identities |

*Why the bounds are enough.* Each hazard needs few actors: a stale handle needs a slot to
be taken again (two generations, and one more for exhaustion with both slots live); a lost
race needs two commits from one snapshot and a third from the winner; a late attachment
needs a release and another claim, by the same or another host, and an id beyond. The
candidate trees cover every branch of `reconcile_children` in both directions, nested
lists, unkeyed children, kind changes, property additions, changes and removals, and
permutations of up to four children, for which live and old indices differ. Three identities are enough for a
root, a chain below it, a loose pair, and an insertion that would close a cycle; irregular ones break
each rule of the validators. The overridden limits cut some trees and batches and not others. Four identities run out within three revisions.
Two damages let header, announced length and length received agree again on a wrong value, which
one damage cannot; the two operation codes that carry bodies differ in three bits, so that
within the bound no body is read as one of the other kind, which three damages could do; `SameBody` states that bound for any number of damages, and removes
nothing here. A misuse replaces one primitive of a call. Allocators
of the composed host start at every position, since hosts come and go in a long process.
Unbounded counters are bounded by the constants `MaxGeneration`, `MaxRevision`,
`MaxNodeId`, `MaxMountId` and `MaxLong`, which are the last values of the code's own
integer types, so that exhaustion is the code's and not the model's; `MaxHeld`, `MaxSteps` and `MaxDamage` are the
bounds that stand for nothing in the code (`MaxSteps` for the length of a campaign).

*Fairness.* `AndroidFacadeSystem`: the main looper runs posted tasks, and the native
library answers each call once (ADR-0008); nothing is assumed of the application.
`AndroidContainerSystem`: Android runs queued attachments and reports their result.
`AndroidHostComposition`: the native library answers a create request.
`CommitCoordinator`: ports are synchronous and return (ADR-0004, 6), the owner of a surface
that requires recovery calls `recover`, and a remount that is retried for ever succeeds
once. That last is strong fairness, and an assumption on the host: without it a
host that never remounts keeps the surface out of service, as the code intends.

*Findings.*
- `commit_speculation`: `apply` compares revisions only, and `into_snapshot` of a cloned
  preparation can be prepared from before it is applied. If another commit takes the same
  revision first, the speculative one is accepted and promoted, though the host shows another
  tree; ADR-0004 says the two "cannot silently diverge after a reported success".
  Callers that prepare from confirmed snapshots are safe: that is `ReadyHostAgrees`,
  checked and proved.
- `surface_identity`: identities come from the confirmed snapshot, so those of a batch
  that failed part of the way are allocated again after recovery, for nodes of any kind, while
  ADR-0002 says that they are never reused during a surface lifetime. The remount
  clears the host, so the host still agrees (`surface_recovery`).

`docs/ARCHITECTURE.md` (line 12) still lists several structural changes of one list as refused; the
reconciler and its own README support them, and the model follows the code.

## 4. Proofs

The proofs hold for every value of the constants that satisfies the named assumptions, all of
them what the code enforces: identities and generations are positive longs (`_positive` in
`android_container_model.py:67`, `android_facade_model.py:53`), allocators end at a natural number, seeds are those
that `_build_seed` accepts, the payload limit fits the field that announces it (1048576 in a `u32`,
`contracts/android-ffi/v1/contract.json`), node identities are not zero, and a snapshot to remount is a tree. Each
inductive invariant was first checked by TLC, as an invariant of the component's run.

`SurfaceRegistryProofs`: the invariant `RegistryInv` is the type invariant with three
facts, none inductive alone: generations are dense below the allocator (so the next one is
new), each live slot holds an issued handle (so a dead handle, whose generation is spent,
cannot come back), and running callbacks are live (which needs the exclusive borrow).
`DisposedHandlesStayDead` follows, because a create uses a generation that no issued handle
has. For `RegistryImplementsContract` the steps of create, dispose and callback are mapped
one lemma each; `SlotOccupied` shows that a non-zero slot is a handle of the contract's `active`.

`CommitCoordinatorProofs`: `ProtocolInv` ties status, confirmed revision and the port call
together (in `Applying` the call's commit has the confirmed base and the next revision as
target; in `Remounting` the snapshot is the confirmed one). From it come type correctness,
`PanicFailsClosed` and `CoordinatorImplementsContract`, for every environment.
`HostAgreesWhenReady` assumes `~Speculative`; its strengthening `AgreementInv` says that
held snapshots and commits of the confirmed revision are of the confirmed tree, which is
what makes the comparison of revisions sufficient, and is what speculation breaks.

`ReconciliationProofs`, the host: for any sets of identities, kinds and properties, and batches of any
mutations and length. The inductive invariant is `TypeOK`, `HostIsForest` and `TreePublished` (the
published host is a forest without loose nodes). `Forest` has four parts, and each
mutation is shown to keep them: the root is one, parents list their children, lists have each child once and
name its parent, and `Acyclic`, that every non-empty set of nodes has one whose parent is outside. The last makes
`insert_child` the interesting case: a cycle closed by the new edge would have to contain an ancestor
of the parent, which `has_ancestor` excludes. `RefusedMutationsLeaveNoTrace` is the second and third part at
work: they make the last two checks of `remove_child` true. `PublishedTrees` covers the graph check too, and goes through the
set of nodes below the root: in a forest without loose nodes, its complement has no
node whose parent is outside it. `BatchesKeepTrees` takes the lemmas about one mutation to whole
batches by induction over their length.

`ReconciliationProofs`, the plans: what the reconciler's plans promise, each against the host that
carries them out. `ReorderRealised`: for any number of children, after the
movements for the first targets, those children are in place and the others follow in their old order
(`Placed`); so the position of the next is its target and the count of the waiting children before it,
which is the number the Fenwick tree gives, and `move_child` accepts the movement and restores `Placed`
for one target more. `SingleMoveRealised` is the same for the one move. `GreedyMatchExact`: whatever embedding of the shorter
list in the longer exists, the scan has at every node matched at least as much as the embedding, so
looking at each node only once loses nothing. `PropertyDeltaRealised`: the removals are there to be removed, and the
result is the new set.

`AndroidPartsProofs`, the facade: each action keeps a facade valid. The repository's own invariant
(`validate_state`) is not inductive: a failed creation is valid only because no callback was
delivered before it, so `Sound` adds that `last_sequence` is 0 until the surface exists.
`AndroidFacadeSystemProofs`: `FacadeInv` ties what is outside the facade to its state. A
posted create runnable, a native call under way and a live surface each tell which states
the facade can be in, where a queued close counts as the state it was queued from; and an
`ACTIVE` or `CLOSING` facade has its surface alive. `DueEventsExpected` and `NoSurfaceLost` are
consequences; `ClosedStaysQuiet` needs from the invariant that a requested close leaves
the open states, and is then a case split over the effects an action can have.

`AndroidPartsProofs`, the container registry: each action as the binding it changes and the
effect it asks for. `AndroidContainerSystemProofs`: what `ShownRootsAreOwned` says of
attached bindings would be lost at the next confirmation, unless the root
that a result brings is nobody else's and still shown. `AttemptsAreCurrent` says so of results not
yet delivered, and that the claim of one delivered already is not waiting any more
(so the second delivery is stale); it rests in turn on `AttemptsAreDistinct` (one
attachment for each claim, one root for each attachment), on `OnlyCreatedRoots` and on mount ids that are fresh,
`MountIdsAreUnique`. `OwnWorkOnly` is proved of each action from the same invariant.

`AndroidHostProofs`: for any number of hosts. A composed call chains several
actions of three parts, so the steps are first reduced to four changes of ownership: the
host keeps what it has, takes a container, gets its surface, or gives up all it had
(`StepChanges`, one lemma for each call, every early return included). `HostInv` is then proved of the four. It
says that bindings and live surfaces are those of the hosts in `CREATING` and `ACTIVE`, one for
one and in both directions (`MountsMatch`, `SurfacesMatch`), which makes `NothingLeaks` inductive; that
a host which never left the main thread has no queued states; and that what the host
disposes or releases is there, which rules `INTERNAL_INVARIANT` out. `ForeignOwnership` follows
from the four changes and from owners having different containers and handles. `HostsImplementOwnership`:
the four changes are the steps of `HostOwnership`. By the invariant, what a host holds in the registries is
what its own state names (`HoldingsNow`) and each part is with exactly one host (`PartsAreHeld`); so only the
holdings of the acting host need to be followed, and what the registries gain and lose follows
(`HostMoves`). Each change also says which number it spends, which is new because allocators only advance.

`AndroidFfiProofs`: for every width of identifiers and every payload limit. A decoder
accepts exactly when none of its checks fails, and one lemma for each codec says what is then known
of the fields. `EveryPacketIsCanonical` joins them with the encoders: a packet with any
integers in its fields, once accepted, is the encoding of its value. `FfiInv` relates what
arrives to what was sent, exactly for no damage and as one changed field, or call, for one;
nothing is said of more. `FfiTypeCorrect` adds `InLayout` to it, that every field is in the range of
its width, for any number of damages. An inverted bit keeps a value below the power of its
width: that powers double and add up is shown by counting the subsets of 1..n, as the prover has no rule for a
variable exponent. What is encoded is in the layout because it would be accepted, and an
accepted packet has every field bounded. `OnlyCanonicalAccepted` adds the way back (what an
encoder accepts, its decoder does), and `OneDamageKeepsResult` needs that base and target
revision cannot both change, and that no outcomes share a reason.

*What the proofs changed in the models.* The damage that shortens a packet could make its length
negative after enough damages, and one cut to nothing was then accepted in a call without payload; it now stops at 0, and
`AcceptedIsCanonical` speaks of the length. The lists of checks became operators of their own.
That the payload limit fits its field was not stated, and `TypeOK` of the FFI is false without it. `HasAncestor`,
`ValidGraph`, the fold over a batch and those over lists of children are no longer recursive operators,
and stand in modules that can be proved about.

*Induction over data.* The library's induction theorems take an operator as a parameter and cannot be
used. `NatSetInduction` has a set instead, which is proved from the well-founded order of
the naturals; with it, functions over `0..n` (prefixes of a batch, targets of a reorder, nodes of a scan, exponents)
are induced over, as long as they are functions and not recursive operators.

*Only model-checked.* Liveness: TLAPS has no rules for fairness here. Everything that follows from the walk over a
tree: `Prepare`, `FromSnapshot` and `AgreesWith`, the oracle, the validators and their campaign, and so
`HostAgrees`, identities and the agreement of the two reconcilers. Those operators are recursive over trees of any depth,
for which there is no function over a set that TLC could evaluate as well. What they do at one
node is what is proved of the plans.

## 5. Not modelled

- Benchmarks and examples, static checks of manifests and of the public API, and the drivers
  that enumerate a contract model (`check_*_exhaustive.py`): they have no behaviour of their
  own; TLC does here what they do. The random generator behind the campaigns is replaced by
  all choices.
- The loading of JSON: fixtures, the component registry, the FFI manifest; the newtypes of
  `rmf-core` that check a key or an identity when it is built.
- `ChildIndex` overflow (2^32 children) and the reconciler's `InvariantViolation` arms.
- Malformed requests to the Python models (wrong fields, wrong types), which raise without effect.
- A coordinator built over a used adapter; a
  commit prepared for another surface; handles of another `Runtime`. They are listed as
  hazards with the reason.

## 6. Plan

Done, in order of importance: coordinator and contract; registry and contract; reconciler with host;
facade, container and composition; the Python oracle against the Rust reconciler, both
validators; duplicated attachment results; the FFI; the headless host under any batches; proofs of all
modules that are not recursive.

Left:
1. Proofs: the reconciler's batches over whole trees, by induction over the height of a committed tree,
   which needs the trees as functions from paths instead of nested records.
2. A coordinator built over an adapter that was used before, and commits across surfaces.
