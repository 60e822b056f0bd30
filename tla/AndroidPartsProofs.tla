--------------------------- MODULE AndroidPartsProofs ---------------------------
(***************************************************************************)
(* What the actions of the facade and of the container registry keep true  *)
(* of any facade and of any registry, for any limit on Kotlin longs, any   *)
(* containers and any last mount id: the lemmas that the proofs about the  *)
(* two systems and about the host composition cite.                        *)
(***************************************************************************)
EXTENDS AndroidFacade, AndroidContainer, TLAPS

-----------------------------------------------------------------------------
(* The facade. *)

\* The fields of FacadeState, without what ValidFacade says of their combinations.
FacadeRecord ==
  [state : FacadeStates, handle : [surface_id : Int, generation : Int],
   last_sequence : Int, failure : {"none", "CREATE", "DISPOSE"} \X ({"none"} \cup Reason),
   queued_from : FacadeStates \cup {"none"}]

\* Of FacadeState, before its native surface exists.
Uncreated(f) ==
  \/ f.state \in {"NEW", "CREATE_QUEUED", "CREATING", "CLOSE_PENDING_CREATE"}
  \/ \E from \in {"NEW", "CREATE_QUEUED", "CREATING"} : QueuedFrom(f, from)

\* ValidFacade is not kept by the actions as it stands: a creation that fails is valid only
\* because nothing was delivered before it.
Sound(f) == f \in FacadeRecord /\ ValidFacade(f) /\ (Uncreated(f) => f.last_sequence = 0)

LEMMA NewFacadeSound == Sound(NewFacade)
  BY LongAssumption DEF Sound, NewFacade, FacadeRecord, ValidFacade, FacadeStates, NoHandle,
     NoFailure,
         Reason, QueuedFrom, ValidHandle

\* Moved, field by field.
LEMMA MovedFields ==
  ASSUME NEW f \in FacadeRecord, NEW state \in FacadeStates, NEW effect
  PROVE  LET g == Moved(f, state, effect).facade
         IN /\ g \in FacadeRecord /\ g.state = state /\ g.queued_from = "none"
            /\ g.handle = f.handle /\ g.failure = f.failure /\ g.last_sequence = f.last_sequence
            /\ Moved(f, state, effect).effect = effect
  BY DEF Moved, Answer, FacadeRecord

\* What a move must bring along for the facade to stay sound.
LEMMA MoveIsSound ==
  ASSUME NEW f, Sound(f), NEW g \in FacadeRecord,
         g.state # "CLOSE_QUEUED", g.queued_from = "none", g.last_sequence = f.last_sequence,
         g.handle # NoHandle <=> g.state \in {"ACTIVE", "CLOSING"},
         g.handle # NoHandle => ValidHandle(g.handle),
         g.failure \in IF g.state = "FAILED" THEN {"CREATE", "DISPOSE"} \X Reason ELSE {NoFailure},
         Uncreated(g) \/ g.failure[1] = "CREATE" => Uncreated(f)
  PROVE  Sound(g)
  BY DEF Sound, FacadeRecord, ValidFacade, Uncreated, QueuedFrom

\* A move of the state alone, of a facade that keeps its handle.
LEMMA MovedSound ==
  ASSUME NEW f, Sound(f), NEW state \in FacadeStates \ {"CLOSE_QUEUED", "FAILED"}, NEW effect,
         f.state # "FAILED",
         f.handle # NoHandle <=> state \in {"ACTIVE", "CLOSING"},
         state \in {"NEW", "CREATE_QUEUED", "CREATING", "CLOSE_PENDING_CREATE"} => Uncreated(f)
  PROVE  Sound(Moved(f, state, effect).facade)
<1> DEFINE g == Moved(f, state, effect).facade
<1>1. /\ g \in FacadeRecord /\ g.state = state /\ g.queued_from = "none"
      /\ g.handle = f.handle /\ g.failure = f.failure /\ g.last_sequence = f.last_sequence
  BY MovedFields DEF Sound
<1>2. f.failure = NoFailure /\ (f.handle # NoHandle => ValidHandle(f.handle)) /\ f.failure[1] # "CREATE"
  BY DEF Sound, ValidFacade, NoFailure
<1> HIDE DEF g
<1>3. Sound(g)
  BY <1>1, <1>2, MoveIsSound DEF Uncreated, QueuedFrom
<1>4. QED
  BY <1>3 DEF g

LEMMA RequestCreateSound ==
  ASSUME NEW f, Sound(f), NEW thread \in Thread
  PROVE  Sound(RequestCreate(f, thread).facade)
<1>1. CASE f.state # "NEW"
  BY <1>1 DEF RequestCreate, Invalid, Answer
<1>2. CASE f.state = "NEW"
  BY <1>2, MovedSound DEF RequestCreate, Thread, FacadeStates, Sound, ValidFacade, QueuedFrom,
     Uncreated
<1>3. QED
  BY <1>1, <1>2

LEMMA DrainCreateSound ==
  ASSUME NEW f, Sound(f), NEW thread \in Thread
  PROVE  Sound(DrainCreate(f, thread).facade)
<1>1. CASE f.state = "CREATE_QUEUED" \/ QueuedFrom(f, "CREATE_QUEUED")
  BY <1>1, MovedSound DEF DrainCreate, OnMain, Answer, FacadeStates, Sound, ValidFacade,
     QueuedFrom, Uncreated
<1>2. CASE ~(f.state = "CREATE_QUEUED" \/ QueuedFrom(f, "CREATE_QUEUED"))
  BY <1>2 DEF DrainCreate, OnMain, Answer, Invalid
<1>3. QED
  BY <1>1, <1>2

LEMMA CreateSucceededSound ==
  ASSUME NEW f, Sound(f), NEW thread \in Thread, NEW h \in [surface_id : Int, generation : Int]
  PROVE  Sound(CreateSucceeded(f, thread, h).facade)
<1> DEFINE named == [f EXCEPT !.handle = h]
           Awaited == f.state = "CLOSE_PENDING_CREATE" \/ QueuedFrom(f, "CREATING")
<1>1. CASE thread # "main" \/ ~ValidHandle(h)
  BY <1>1 DEF CreateSucceeded, OnMain, Answer
<1>2. ASSUME NEW state \in {"ACTIVE", "CLOSING"}, NEW effect,
             ValidHandle(h), f.state = "CREATING" \/ Awaited
      PROVE  Sound(Moved(named, state, effect).facade)
  <2> DEFINE g == Moved(named, state, effect).facade
  <2>1. /\ named \in FacadeRecord /\ named.handle = h
        /\ named.failure = f.failure /\ named.last_sequence = f.last_sequence
    BY DEF Sound, FacadeRecord
  <2> HIDE DEF named
  <2>2. /\ g \in FacadeRecord /\ g.state = state /\ g.queued_from = "none"
        /\ g.handle = h /\ g.failure = f.failure /\ g.last_sequence = f.last_sequence
    BY <2>1, MovedFields DEF FacadeStates
  <2>3. h # NoHandle
    BY <1>2, LongAssumption DEF ValidHandle, NoHandle
  <2>4. f.failure = NoFailure /\ f.failure[1] # "CREATE" /\ ~Uncreated(g)
    BY <1>2, <2>2 DEF Sound, ValidFacade, NoFailure, QueuedFrom, Uncreated
  <2> HIDE DEF g
  <2>5. Sound(g)
    BY <1>2, <2>2, <2>3, <2>4, MoveIsSound
  <2>6. QED
    BY <2>5 DEF g, named
<1>3. CASE thread = "main" /\ ValidHandle(h) /\ f.state = "CREATING"
  BY <1>2, <1>3 DEF CreateSucceeded, OnMain, QueuedFrom
<1>4. CASE thread = "main" /\ ValidHandle(h) /\ f.state # "CREATING" /\ Awaited
  BY <1>2, <1>4 DEF CreateSucceeded, OnMain
<1>5. CASE thread = "main" /\ ValidHandle(h) /\ f.state # "CREATING" /\ ~Awaited
  BY <1>5 DEF CreateSucceeded, OnMain, Answer, Invalid
<1>6. QED
  BY <1>1, <1>3, <1>4, <1>5

\* A failure, with or without the handle it takes away.
LEMMA FailureSound ==
  ASSUME NEW f, Sound(f), NEW kind \in {"CREATE", "DISPOSE"}, NEW reason \in Reason,
         kind = "CREATE" => Uncreated(f), NEW named \in FacadeRecord,
         named.handle = NoHandle, named.failure = <<kind, reason>>,
         named.last_sequence = f.last_sequence
  PROVE  Sound(Moved(named, "FAILED", "NONE").facade)
<1> DEFINE g == Moved(named, "FAILED", "NONE").facade
<1>1. /\ g \in FacadeRecord /\ g.state = "FAILED" /\ g.queued_from = "none"
      /\ g.handle = NoHandle /\ g.failure = <<kind, reason>>
      /\ g.last_sequence = f.last_sequence
  BY MovedFields DEF FacadeStates
<1>2. ~Uncreated(g) /\ g.failure[1] = kind /\ g.failure \in {"CREATE", "DISPOSE"} \X Reason
  BY <1>1 DEF Uncreated, QueuedFrom
<1> HIDE DEF g
<1>3. Sound(g)
  BY <1>1, <1>2, MoveIsSound
<1>4. QED
  BY <1>3 DEF g

LEMMA CreateFailedSound ==
  ASSUME NEW f, Sound(f), NEW thread \in Thread, NEW reason \in Reason
  PROVE  Sound(CreateFailed(f, thread, reason).facade)
<1> DEFINE Creating == f.state \in {"CREATING", "CLOSE_PENDING_CREATE"} \/ QueuedFrom(f, "CREATING")
           named == [f EXCEPT !.failure = <<"CREATE", reason>>]
<1>1. CASE thread = "main" /\ Creating
  <2>1. Uncreated(f) /\ f.handle = NoHandle
    BY <1>1 DEF Sound, ValidFacade, Uncreated, QueuedFrom
  <2>2. /\ named \in FacadeRecord /\ named.handle = f.handle /\ named.failure = <<"CREATE", reason>>
        /\ named.last_sequence = f.last_sequence
    BY DEF Sound, FacadeRecord
  <2>3. Sound(Moved(named, "FAILED", "NONE").facade)
    BY <2>1, <2>2, FailureSound
  <2>4. QED
    BY <1>1, <2>3 DEF CreateFailed, OnMain
<1>2. CASE ~(thread = "main" /\ Creating)
  BY <1>2 DEF CreateFailed, OnMain, Answer, Invalid
<1>3. QED
  BY <1>1, <1>2

\* CloseOnMain, which a request on the main thread or a drained one carries out.
LEMMA CloseOnMainSound ==
  ASSUME NEW f, Sound(f), NEW state,
         \/ f.state = state /\ state \in {"NEW", "CREATE_QUEUED", "CREATING", "ACTIVE"}
         \/ QueuedFrom(f, state)
  PROVE  Sound(CloseOnMain(f, state).facade)
<1>1. /\ state \in {"NEW", "CREATE_QUEUED", "CREATING", "ACTIVE"}
      /\ f.state # "FAILED" /\ (f.handle # NoHandle <=> state = "ACTIVE")
      /\ state # "ACTIVE" => Uncreated(f)
  BY DEF Sound, ValidFacade, QueuedFrom, Uncreated
<1>2. QED
  BY <1>1, MovedSound DEF CloseOnMain, FacadeStates

LEMMA RequestCloseSound ==
  ASSUME NEW f, Sound(f), NEW thread \in Thread
  PROVE  Sound(RequestClose(f, thread).facade)
<1>1. Sound(CloseFromWorker(f).facade)
  BY DEF CloseFromWorker, Answer, Sound, FacadeRecord, ValidFacade, Uncreated, QueuedFrom,
     FacadeStates, NoFailure
<1>2. f.state \in {"NEW", "CREATE_QUEUED", "CREATING", "ACTIVE"} => Sound(CloseOnMain(f, f.state).facade)
  BY CloseOnMainSound
<1>3. QED
  BY <1>1, <1>2 DEF RequestClose, Thread, Answer

LEMMA DrainCloseSound ==
  ASSUME NEW f, Sound(f), NEW thread \in Thread
  PROVE  Sound(DrainClose(f, thread).facade)
  BY CloseOnMainSound DEF DrainClose, OnMain, Answer, Invalid, QueuedFrom

LEMMA DisposeSucceededSound ==
  ASSUME NEW f, Sound(f), NEW thread \in Thread
  PROVE  Sound(DisposeSucceeded(f, thread).facade)
<1> DEFINE named == [f EXCEPT !.handle = NoHandle]
           g == Moved(named, "CLOSED", "NONE").facade
<1>1. CASE thread = "main" /\ f.state = "CLOSING"
  <2>1. /\ named \in FacadeRecord /\ named.handle = NoHandle
        /\ named.failure = f.failure /\ named.last_sequence = f.last_sequence
    BY DEF Sound, FacadeRecord, NoHandle
  <2> HIDE DEF named
  <2>2. /\ g \in FacadeRecord /\ g.state = "CLOSED" /\ g.queued_from = "none"
        /\ g.handle = NoHandle /\ g.failure = f.failure /\ g.last_sequence = f.last_sequence
    BY <2>1, MovedFields DEF FacadeStates
  <2>3. f.failure = NoFailure /\ f.failure[1] # "CREATE" /\ ~Uncreated(g)
    BY <1>1, <2>2 DEF Sound, ValidFacade, NoFailure, QueuedFrom, Uncreated
  <2> HIDE DEF g
  <2>4. Sound(g)
    BY <2>2, <2>3, MoveIsSound
  <2>5. QED
    BY <1>1, <2>4 DEF g, named, DisposeSucceeded, OnMain
<1>2. CASE ~(thread = "main" /\ f.state = "CLOSING")
  BY <1>2 DEF DisposeSucceeded, OnMain, Answer, Invalid
<1>3. QED
  BY <1>1, <1>2

LEMMA DisposeFailedSound ==
  ASSUME NEW f, Sound(f), NEW thread \in Thread, NEW reason \in Reason
  PROVE  Sound(DisposeFailed(f, thread, reason).facade)
<1> DEFINE named == [f EXCEPT !.handle = NoHandle, !.failure = <<"DISPOSE", reason>>]
<1>1. CASE thread = "main" /\ f.state = "CLOSING"
  <2>1. /\ named \in FacadeRecord /\ named.handle = NoHandle
        /\ named.failure = <<"DISPOSE", reason>> /\ named.last_sequence = f.last_sequence
    <3>1. NoHandle \in [surface_id : Int, generation : Int]
      BY DEF NoHandle
    <3>2. <<"DISPOSE", reason>> \in {"none", "CREATE", "DISPOSE"} \X ({"none"} \cup Reason)
      OBVIOUS
    <3>3. QED
      BY <3>1, <3>2 DEF Sound, FacadeRecord
  <2>2. Sound(Moved(named, "FAILED", "NONE").facade)
    BY <2>1, FailureSound
  <2>3. QED
    BY <1>1, <2>2 DEF DisposeFailed, OnMain
<1>2. CASE ~(thread = "main" /\ f.state = "CLOSING")
  BY <1>2 DEF DisposeFailed, OnMain, Answer, Invalid
<1>3. QED
  BY <1>1, <1>2

LEMMA CallbackSound ==
  ASSUME NEW f, Sound(f), NEW thread \in Thread, NEW h, NEW sequence
  PROVE  Sound(Callback(f, thread, h, sequence).facade)
  BY LongAssumption DEF Sound, FacadeRecord, ValidFacade, FacadeStates, NoHandle, NoFailure,
     Uncreated,
         QueuedFrom, Callback, Answer, OnMain

-----------------------------------------------------------------------------
(* Effects.  Only creation calls the native library to create, from a facade that is      *)
(* open, and only a callback is delivered.                                                *)

Open(f) == f.state \in {"NEW", "CREATE_QUEUED", "CREATING", "ACTIVE"}

Quiet(e) == e \notin {"CALL_NATIVE_CREATE", "DELIVER_CALLBACK"}

LEMMA CreationEffects ==
  ASSUME NEW f, NEW thread \in Thread
  PROVE  /\ ~Quiet(RequestCreate(f, thread).effect) =>
              Open(f) /\ RequestCreate(f, thread).effect # "DELIVER_CALLBACK"
         /\ ~Quiet(DrainCreate(f, thread).effect) =>
              Open(f) /\ DrainCreate(f, thread).effect # "DELIVER_CALLBACK"
<1>1. ~Quiet(RequestCreate(f, thread).effect) =>
        Open(f) /\ RequestCreate(f, thread).effect # "DELIVER_CALLBACK"
  BY DEF Thread, Quiet, Open, RequestCreate, Moved, Invalid, Answer
<1>2. ~Quiet(DrainCreate(f, thread).effect) =>
        Open(f) /\ DrainCreate(f, thread).effect # "DELIVER_CALLBACK"
  BY DEF Thread, Quiet, Open, DrainCreate, OnMain, Moved, Invalid, Answer
<1>3. QED
  BY <1>1, <1>2

LEMMA ClosingEffects ==
  ASSUME NEW f, Sound(f), NEW thread \in Thread
  PROVE  Quiet(RequestClose(f, thread).effect) /\ Quiet(DrainClose(f, thread).effect)
<1>1. ASSUME NEW state \in {"NEW", "CREATE_QUEUED", "CREATING", "ACTIVE"}
      PROVE  Quiet(CloseOnMain(f, state).effect)
  BY DEF Quiet, CloseOnMain, Moved, Answer
<1>2. Quiet(CloseFromWorker(f).effect)
  BY DEF Quiet, CloseFromWorker, Answer
<1>3. Quiet(RequestClose(f, thread).effect)
  BY <1>1, <1>2 DEF Thread, RequestClose, Quiet, Answer
<1>4. f.state = "CLOSE_QUEUED" => f.queued_from \in {"NEW", "CREATE_QUEUED", "CREATING", "ACTIVE"}
  BY DEF Sound, ValidFacade
<1>5. Quiet(DrainClose(f, thread).effect)
  BY <1>1, <1>4 DEF DrainClose, OnMain, Invalid, Quiet, Answer
<1>6. QED
  BY <1>3, <1>5

LEMMA NativeEffects ==
  ASSUME NEW f, NEW thread \in Thread
  PROVE  /\ \A h : Quiet(CreateSucceeded(f, thread, h).effect)
         /\ \A reason : Quiet(CreateFailed(f, thread, reason).effect)
         /\ Quiet(DisposeSucceeded(f, thread).effect)
         /\ \A reason : Quiet(DisposeFailed(f, thread, reason).effect)
<1>1. ASSUME NEW h PROVE Quiet(CreateSucceeded(f, thread, h).effect)
  BY DEF CreateSucceeded, OnMain, Moved, Invalid, Quiet, Answer
<1>2. ASSUME NEW reason PROVE Quiet(CreateFailed(f, thread, reason).effect)
  BY DEF CreateFailed, OnMain, Moved, Invalid, Quiet, Answer
<1>3. ASSUME NEW reason
      PROVE  Quiet(DisposeSucceeded(f, thread).effect) /\ Quiet(DisposeFailed(f, thread, reason).effect)
  BY DEF DisposeSucceeded, DisposeFailed, OnMain, Moved, Invalid, Quiet, Answer
<1>4. QED
  BY <1>1, <1>2, <1>3

LEMMA CallbackEffects ==
  ASSUME NEW f, NEW thread \in Thread, NEW h, NEW sequence,
         ~Quiet(Callback(f, thread, h, sequence).effect)
  PROVE  /\ Callback(f, thread, h, sequence).effect = "DELIVER_CALLBACK"
         /\ f.state = "ACTIVE" /\ h = f.handle /\ sequence > f.last_sequence
         /\ Callback(f, thread, h, sequence).facade = [f EXCEPT !.last_sequence = sequence]
  BY DEF Callback, OnMain, Answer, Quiet

-----------------------------------------------------------------------------
(* The container registry. *)

BindingRecord ==
  [host_id : Int, mount_id : Int, state : {"UNBOUND", "RESERVED", "ATTACHED"}, root_id : Int]

RegistryRecord ==
  [next_mount_id : Int, bindings : [ContainerId -> BindingRecord], retired_roots : SUBSET Int]

\* ValidRegistry with the types of the fields; a container without an entry in `bindings`
\* has nothing left of its last one.
SoundRegistry(r) ==
  /\ r \in RegistryRecord /\ ValidRegistry(r)
  /\ \A c \in ContainerId : r.bindings[c].state = "UNBOUND" => r.bindings[c] = Unbound

Bound(r, c) == r.bindings[c].state # "UNBOUND"

\* What ValidRegistry says of a sound registry, one binding at a time.
LEMMA RegistryFacts ==
  ASSUME NEW r, SoundRegistry(r)
  PROVE  /\ r.next_mount_id \in 1..MaxMountId + 1
         /\ \A c \in ContainerId :
              /\ r.bindings[c] \in BindingRecord
              /\ r.bindings[c] = Unbound <=> ~Bound(r, c)
              /\ ~Bound(r, c) => r.bindings[c].root_id = NoRoot
              /\ Bound(r, c) => r.bindings[c].host_id > 0 /\ r.bindings[c].mount_id \in 1..r.next_mount_id - 1
              /\ r.bindings[c].state = "RESERVED" => r.bindings[c].root_id = NoRoot
              /\ r.bindings[c].state = "ATTACHED" =>
                   r.bindings[c].root_id > 0 /\ r.bindings[c].root_id \notin r.retired_roots
         /\ \A c, d \in ContainerId : Bound(r, c) /\ Bound(r, d) /\ c # d =>
              r.bindings[c].mount_id # r.bindings[d].mount_id
         /\ \A c, d \in ContainerId : c # d /\ r.bindings[c].root_id = r.bindings[d].root_id =>
              r.bindings[c].root_id = NoRoot
<1>1. Unbound.state = "UNBOUND" /\ Unbound.root_id = NoRoot
  BY DEF Unbound, Binding
<1>2. \A c \in ContainerId : r.bindings[c] = Unbound <=> ~Bound(r, c)
  BY <1>1 DEF SoundRegistry, Bound
<1>3. QED
  BY <1>1, <1>2 DEF SoundRegistry, ValidRegistry, RegistryRecord, BindingRecord, Bound, NoRoot

\* What a registry with one binding rewritten, or none, needs to be sound.
LEMMA RebindSound ==
  ASSUME NEW r, SoundRegistry(r), NEW g \in RegistryRecord, NEW c \in ContainerId,
         g.next_mount_id \in r.next_mount_id..MaxMountId + 1,
         r.retired_roots \subseteq g.retired_roots,
         NEW b \in BindingRecord, g.bindings = [r.bindings EXCEPT ![c] = b],
         \/ b = Unbound
         \/ /\ b.host_id > 0 /\ b.mount_id \in 1..g.next_mount_id - 1
            /\ \/ b.state = "RESERVED" /\ b.root_id = NoRoot
               \/ b.state = "ATTACHED" /\ b.root_id > 0 /\ b.root_id \notin g.retired_roots
            /\ \A d \in ContainerId \ {c} :
                 Bound(r, d) => b.mount_id # r.bindings[d].mount_id
            /\ b.root_id # NoRoot => \A d \in ContainerId \ {c} : b.root_id # r.bindings[d].root_id,
         \A d \in ContainerId \ {c} :
           r.bindings[d].root_id \in g.retired_roots \ r.retired_roots => r.bindings[d].root_id = NoRoot
  PROVE  SoundRegistry(g)
<1>1. \A d \in ContainerId : g.bindings[d] = IF d = c THEN b ELSE r.bindings[d]
  BY DEF SoundRegistry, RegistryRecord
<1>2. Unbound.state = "UNBOUND" /\ Unbound.root_id = NoRoot
  BY DEF Unbound, Binding
<1>3. \A d \in ContainerId : g.bindings[d].state = "UNBOUND" => g.bindings[d] = Unbound
  BY <1>1, RegistryFacts DEF Bound
<1>4. g.next_mount_id \in 1..MaxMountId + 1
  BY RegistryFacts, MountAssumption
<1>5. ASSUME NEW d \in ContainerId, g.bindings[d] # Unbound
      PROVE  /\ g.bindings[d].host_id > 0 /\ g.bindings[d].mount_id \in 1..g.next_mount_id - 1
             /\ \/ g.bindings[d].state = "RESERVED" /\ g.bindings[d].root_id = NoRoot
                \/ /\ g.bindings[d].state = "ATTACHED" /\ g.bindings[d].root_id > 0
                   /\ g.bindings[d].root_id \notin g.retired_roots
  <2>1. CASE d = c
    BY <1>1, <1>5, <2>1
  <2>2. CASE d # c
    BY <1>1, <1>5, <2>2, RegistryFacts, MountAssumption DEF BindingRecord, NoRoot, Bound
  <2>3. QED
    BY <2>1, <2>2
<1>6. ASSUME NEW d \in ContainerId, NEW e \in ContainerId,
             g.bindings[d] # Unbound, g.bindings[e] # Unbound, d # e
      PROVE  /\ g.bindings[d].mount_id # g.bindings[e].mount_id
             /\ g.bindings[d].root_id = g.bindings[e].root_id => g.bindings[d].root_id = NoRoot
  BY <1>1, <1>6, RegistryFacts
<1>7. QED
  BY <1>3, <1>4, <1>5, <1>6 DEF SoundRegistry, ValidRegistry

LEMMA NewRegistrySound ==
  ASSUME NEW mount \in 1..MaxMountId + 1
  PROVE  SoundRegistry([NewRegistry EXCEPT !.next_mount_id = mount])
<1> DEFINE g == [NewRegistry EXCEPT !.next_mount_id = mount]
<1>1. g.next_mount_id = mount /\ g.retired_roots = {} /\ g.bindings = [c \in ContainerId |-> Unbound]
  BY DEF NewRegistry
<1>2. Unbound \in BindingRecord
  BY DEF Unbound, Binding, BindingRecord, NoRoot
<1>3. g \in RegistryRecord
  BY <1>2, MountAssumption DEF NewRegistry, RegistryRecord
<1> HIDE DEF g
<1>4. SoundRegistry(g)
  BY <1>1, <1>3 DEF SoundRegistry, ValidRegistry
<1>5. QED
  BY <1>4 DEF g

\* What retiring a root, and unbinding a container, leave of a registry.
LEMMA RetireFields ==
  ASSUME NEW r \in RegistryRecord, NEW root \in Int
  PROVE  /\ Retire(r, root) \in RegistryRecord
         /\ Retire(r, root).bindings = r.bindings
         /\ Retire(r, root).next_mount_id = r.next_mount_id
         /\ Retire(r, root).retired_roots = r.retired_roots \cup {root}
  BY DEF Retire, RegistryRecord

LEMMA BindFields ==
  ASSUME NEW r \in RegistryRecord, NEW c \in ContainerId, NEW b \in BindingRecord
  PROVE  LET g == [r EXCEPT !.bindings[c] = b]
         IN /\ g \in RegistryRecord
            /\ g.bindings = [r.bindings EXCEPT ![c] = b]
            /\ g.next_mount_id = r.next_mount_id
            /\ g.retired_roots = r.retired_roots
  BY DEF RegistryRecord

LEMMA UnbindFields ==
  ASSUME NEW r \in RegistryRecord, NEW c \in ContainerId
  PROVE  /\ Unbind(r, c) \in RegistryRecord
         /\ Unbind(r, c).bindings = [r.bindings EXCEPT ![c] = Unbound]
         /\ Unbind(r, c).next_mount_id = r.next_mount_id
         /\ Unbind(r, c).retired_roots = r.retired_roots
<1>1. Unbound \in BindingRecord
  BY DEF Unbound, Binding, BindingRecord, NoRoot
<1>2. QED
  BY <1>1, BindFields DEF Unbind

\* Claim: a fresh mount id for a container that nobody owns, or nothing.
LEMMA ClaimFacts ==
  ASSUME NEW r, SoundRegistry(r), NEW c \in ContainerId, NEW host \in Nat \ {0}
  PROVE  LET answer == Claim(r, c, host)
             g == answer.registry
         IN \/ answer.effect # "ADD_ROOT" /\ g = r
               /\ answer.effect \notin {"REMOVE_ROOT", "REMOVE_STALE_ROOT"}
            \/ /\ answer.effect = "ADD_ROOT" /\ answer.mount_id = r.next_mount_id
               /\ ~Bound(r, c) /\ r.next_mount_id \in 1..MaxMountId
               /\ SoundRegistry(g)
               /\ g.bindings = [r.bindings EXCEPT ![c] = Binding(host, r.next_mount_id, "RESERVED", NoRoot)]
               /\ g.next_mount_id = r.next_mount_id + 1
               /\ g.retired_roots = r.retired_roots
<1> DEFINE b == Binding(host, r.next_mount_id, "RESERVED", NoRoot)
           g == [r EXCEPT !.next_mount_id = @ + 1, !.bindings[c] = b]
<1>1. CASE Bound(r, c) \/ r.next_mount_id > MaxMountId
  BY <1>1 DEF Claim, Bound, Drops, Emits
<1>2. CASE ~Bound(r, c) /\ ~(r.next_mount_id > MaxMountId)
  <2>1. r.next_mount_id \in 1..MaxMountId
    BY <1>2, RegistryFacts, MountAssumption
  <2>2. b \in BindingRecord /\ b.host_id = host /\ b.mount_id = r.next_mount_id
        /\ b.state = "RESERVED" /\ b.root_id = NoRoot
    BY <2>1, MountAssumption DEF Binding, BindingRecord, NoRoot
  <2>3. Claim(r, c, host) = Emits(g, "ADD_ROOT", NoRoot, r.next_mount_id)
    BY <1>2 DEF Claim, Bound
  <2> HIDE DEF b
  <2>4. /\ g \in RegistryRecord /\ g.bindings = [r.bindings EXCEPT ![c] = b]
        /\ g.next_mount_id = r.next_mount_id + 1 /\ g.retired_roots = r.retired_roots
    <3>1. r \in RegistryRecord /\ r.next_mount_id + 1 \in Int /\ b \in BindingRecord
      BY <2>1, <2>2, MountAssumption DEF SoundRegistry
    <3>2. QED
      BY <3>1 DEF RegistryRecord
  <2> HIDE DEF g
  <2>5. \A d \in ContainerId : Bound(r, d) => r.bindings[d].mount_id # b.mount_id
    BY <2>1, <2>2, RegistryFacts, MountAssumption
  <2>6. SoundRegistry(g)
    BY <2>1, <2>2, <2>4, <2>5, RebindSound, MountAssumption
  <2>7. QED
    BY <1>2, <2>1, <2>3, <2>4, <2>6 DEF Emits, b
<1>3. QED
  BY <1>1, <1>2

\* A result for an obsolete mount retires its root, unless a container shows it.
LEMMA StaleResultFacts ==
  ASSUME NEW r, SoundRegistry(r), NEW c \in ContainerId, NEW host, NEW mount,
         NEW root \in Nat \ {0}, ~Reserved(r, c, host, mount)
  PROVE  LET answer == AttachSucceeded(r, c, host, mount, root)
             g == answer.registry
         IN \/ root \in ActiveRoots(r) /\ g = r /\ answer.effect = "DROP_STALE_RESULT"
            \/ /\ root \notin ActiveRoots(r)
               /\ answer.effect = "REMOVE_STALE_ROOT" /\ answer.root_id = root
               /\ SoundRegistry(g)
               /\ g.bindings = r.bindings /\ g.next_mount_id = r.next_mount_id
               /\ g.retired_roots = r.retired_roots \cup {root}
<1>1. CASE root \in ActiveRoots(r)
  BY <1>1 DEF AttachSucceeded, Drops, Emits
<1>2. CASE root \notin ActiveRoots(r)
  <2> DEFINE g == Retire(r, root)
  <2>1. AttachSucceeded(r, c, host, mount, root) = Emits(g, "REMOVE_STALE_ROOT", root, mount)
    BY <1>2 DEF AttachSucceeded
  <2>2. /\ g \in RegistryRecord /\ g.bindings = r.bindings /\ g.next_mount_id = r.next_mount_id
        /\ g.retired_roots = r.retired_roots \cup {root}
    BY RetireFields DEF SoundRegistry
  <2> HIDE DEF g
  <2>3. \A d \in ContainerId : r.bindings[d].root_id # root
    BY <1>2 DEF ActiveRoots, NoRoot
  <2>4. SoundRegistry(g)
    BY <2>2, <2>3, RegistryFacts DEF SoundRegistry, ValidRegistry, Bound
  <2>5. QED
    BY <1>2, <2>1, <2>2, <2>4 DEF Emits
<1>3. QED
  BY <1>1, <1>2

\* A result for the reserved mount attaches a root that nothing shows or ever showed.
LEMMA AttachFacts ==
  ASSUME NEW r, SoundRegistry(r), NEW c \in ContainerId, NEW host, NEW mount,
         NEW root \in Nat \ {0}, Reserved(r, c, host, mount)
  PROVE  LET answer == AttachSucceeded(r, c, host, mount, root)
             g == answer.registry
         IN \/ /\ root \in ActiveRoots(r) \cup r.retired_roots
               /\ g = r /\ answer.effect = "ROOT_NOT_DETACHED"
            \/ /\ root \notin ActiveRoots(r) \cup r.retired_roots
               /\ answer.effect = "NONE" /\ answer.root_id = root
               /\ SoundRegistry(g)
               /\ g.bindings = [r.bindings EXCEPT ![c] = Binding(host, mount, "ATTACHED", root)]
               /\ g.next_mount_id = r.next_mount_id /\ g.retired_roots = r.retired_roots
<1> DEFINE b == Binding(host, mount, "ATTACHED", root)
           g == [r EXCEPT !.bindings[c] = b]
<1>1. CASE root \in ActiveRoots(r) \cup r.retired_roots
  BY <1>1 DEF AttachSucceeded, Drops, Emits
<1>2. CASE root \notin ActiveRoots(r) \cup r.retired_roots
  <2>1. AttachSucceeded(r, c, host, mount, root) = Emits(g, "NONE", root, mount)
    BY <1>2 DEF AttachSucceeded
  <2>2. Bound(r, c) /\ r.bindings[c].host_id = host /\ r.bindings[c].mount_id = mount
    BY DEF Reserved, Current, Bound
  <2>3. b \in BindingRecord /\ b.host_id = host /\ b.mount_id = mount
        /\ b.state = "ATTACHED" /\ b.root_id = root
    BY <2>2, RegistryFacts DEF Binding, BindingRecord
  <2> HIDE DEF b
  <2>4. /\ g \in RegistryRecord /\ g.bindings = [r.bindings EXCEPT ![c] = b]
        /\ g.next_mount_id = r.next_mount_id /\ g.retired_roots = r.retired_roots
    BY <2>3, BindFields DEF SoundRegistry
  <2> HIDE DEF g
  <2>5. \A d \in ContainerId : r.bindings[d].root_id # root
    BY <1>2 DEF ActiveRoots, NoRoot
  <2>6. /\ b.host_id > 0 /\ b.mount_id \in 1..g.next_mount_id - 1
        /\ \A d \in ContainerId \ {c} : Bound(r, d) => b.mount_id # r.bindings[d].mount_id
    BY <2>2, <2>3, <2>4, RegistryFacts
  <2>7. r.next_mount_id \in r.next_mount_id..MaxMountId + 1
    BY RegistryFacts, MountAssumption
  <2>8. SoundRegistry(g)
    BY <1>2, <2>3, <2>4, <2>5, <2>6, <2>7, RebindSound
  <2>9. QED
    BY <1>2, <2>1, <2>4, <2>8 DEF Emits, b
<1>3. QED
  BY <1>1, <1>2

\* Unbinding a container keeps the registry sound, with its root retired or not.
LEMMA UnbindSound ==
  ASSUME NEW r, SoundRegistry(r), NEW c \in ContainerId, Bound(r, c)
  PROVE  /\ SoundRegistry(Unbind(r, c))
         /\ SoundRegistry(Retire(Unbind(r, c), r.bindings[c].root_id))
<1> DEFINE u == Unbind(r, c)
           root == r.bindings[c].root_id
           g == Retire(u, root)
<1>1. Unbound \in BindingRecord /\ root \in Int
  BY RegistryFacts DEF Unbound, Binding, BindingRecord, NoRoot
<1>2. /\ u \in RegistryRecord /\ u.bindings = [r.bindings EXCEPT ![c] = Unbound]
      /\ u.next_mount_id = r.next_mount_id /\ u.retired_roots = r.retired_roots
  BY UnbindFields DEF SoundRegistry
<1> HIDE DEF u
<1>3. /\ g \in RegistryRecord /\ g.bindings = [r.bindings EXCEPT ![c] = Unbound]
      /\ g.next_mount_id = r.next_mount_id /\ g.retired_roots = r.retired_roots \cup {root}
  BY <1>1, <1>2, RetireFields
<1> HIDE DEF g
<1>4. r.next_mount_id \in r.next_mount_id..MaxMountId + 1
  BY RegistryFacts, MountAssumption
<1>5. SoundRegistry(u)
  BY <1>1, <1>2, <1>4, RebindSound
<1>6. \A d \in ContainerId \ {c} : r.bindings[d].root_id = root => r.bindings[d].root_id = NoRoot
  BY RegistryFacts
<1>7. SoundRegistry(g)
  BY <1>1, <1>3, <1>4, <1>6, RebindSound
<1>8. QED
  BY <1>5, <1>7 DEF g, u

LEMMA AttachFailedFacts ==
  ASSUME NEW r, SoundRegistry(r), NEW c \in ContainerId, NEW host, NEW mount
  PROVE  LET answer == AttachFailed(r, c, host, mount)
             g == answer.registry
         IN /\ SoundRegistry(g)
            /\ answer.effect \in {"NONE", "DROP_STALE_RESULT"}
            /\ g.next_mount_id = r.next_mount_id /\ g.retired_roots = r.retired_roots
            /\ Reserved(r, c, host, mount) => g.bindings = [r.bindings EXCEPT ![c] = Unbound]
            /\ ~Reserved(r, c, host, mount) => g = r
<1>1. CASE Reserved(r, c, host, mount)
  <2>1. Bound(r, c)
    BY <1>1 DEF Reserved, Current, Bound
  <2>2. SoundRegistry(Unbind(r, c))
    BY <2>1, UnbindSound
  <2>3. QED
    BY <1>1, <2>2, UnbindFields DEF AttachFailed, Emits, SoundRegistry
<1>2. CASE ~Reserved(r, c, host, mount)
  BY <1>2 DEF AttachFailed, Drops, Emits
<1>3. QED
  BY <1>1, <1>2

\* A release unbinds the mount it names, and no other.
LEMMA ReleaseFacts ==
  ASSUME NEW r, SoundRegistry(r), NEW c \in ContainerId, NEW host, NEW mount
  PROVE  LET answer == Release(r, c, host, mount)
             g == answer.registry
         IN /\ SoundRegistry(g) /\ g.next_mount_id = r.next_mount_id
            /\ \/ /\ ~Current(r, c, host, mount)
                  /\ g = r /\ answer.effect = "DROP_STALE_RELEASE"
               \/ /\ Reserved(r, c, host, mount)
                  /\ answer.effect = "CANCEL_ATTACH"
                  /\ g.bindings = [r.bindings EXCEPT ![c] = Unbound]
                  /\ g.retired_roots = r.retired_roots
               \/ /\ Current(r, c, host, mount) /\ r.bindings[c].state = "ATTACHED"
                  /\ answer.effect = "REMOVE_ROOT" /\ answer.root_id = r.bindings[c].root_id
                  /\ g.bindings = [r.bindings EXCEPT ![c] = Unbound]
                  /\ g.retired_roots = r.retired_roots \cup {r.bindings[c].root_id}
<1>1. CASE ~Current(r, c, host, mount)
  BY <1>1 DEF Release, Reserved, Drops, Emits
<1>2. CASE Reserved(r, c, host, mount)
  <2>1. Bound(r, c) /\ Current(r, c, host, mount)
    BY <1>2 DEF Reserved, Current, Bound
  <2>2. SoundRegistry(Unbind(r, c))
    BY <2>1, UnbindSound
  <2>3. QED
    BY <1>2, <2>1, <2>2, UnbindFields DEF Release, Emits, SoundRegistry
<1>3. CASE Current(r, c, host, mount) /\ ~Reserved(r, c, host, mount)
  <2> DEFINE g == Retire(Unbind(r, c), r.bindings[c].root_id)
  <2>1. Bound(r, c) /\ r.bindings[c] \in BindingRecord
    BY <1>3, RegistryFacts DEF Current, Bound
  <2>2. SoundRegistry(g)
    BY <2>1, UnbindSound
  <2>3. r.bindings[c].state = "ATTACHED" /\ r.bindings[c].root_id \in Int
    BY <1>3, <2>1 DEF Reserved, Bound, BindingRecord
  <2>4. /\ g.bindings = [r.bindings EXCEPT ![c] = Unbound]
        /\ g.next_mount_id = r.next_mount_id
        /\ g.retired_roots = r.retired_roots \cup {r.bindings[c].root_id}
    <3> DEFINE u == Unbind(r, c)
    <3>1. /\ u \in RegistryRecord /\ u.bindings = [r.bindings EXCEPT ![c] = Unbound]
          /\ u.next_mount_id = r.next_mount_id /\ u.retired_roots = r.retired_roots
      BY UnbindFields DEF SoundRegistry
    <3> HIDE DEF u
    <3>2. QED
      BY <2>3, <3>1, RetireFields DEF u
  <2>5. Release(r, c, host, mount) = Emits(g, "REMOVE_ROOT", r.bindings[c].root_id, mount)
    BY <1>3 DEF Release
  <2> HIDE DEF g
  <2>6. QED
    BY <1>3, <2>2, <2>3, <2>4, <2>5 DEF Emits
<1>4. QED
  BY <1>1, <1>2, <1>3
=============================================================================
