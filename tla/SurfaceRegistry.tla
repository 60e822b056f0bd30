---------------------------- MODULE SurfaceRegistry ----------------------------
(***************************************************************************)
(* The runtime's surface registry: SurfaceRegistry in                      *)
(* crates/rmf-runtime/src/surface.rs behind Runtime in                     *)
(* crates/rmf-runtime/src/lib.rs.                                          *)
(*                                                                         *)
(* Callers keep every handle they were ever given (SurfaceHandle is Copy   *)
(* and cannot be forged) and may present it at any later time, so a        *)
(* dispose or a callback of an old generation can race with the surface    *)
(* that replaced it in the same slot.  Runtime::create_surface and         *)
(* dispose_surface borrow the runtime exclusively (&mut self), while       *)
(* dispatch_surface_callback holds a shared borrow (&self) for as long as  *)
(* the callback runs; callbacks of several callers may overlap.            *)
(***************************************************************************)
EXTENDS Integers, FiniteSets

CONSTANTS
  SurfaceId,      \* positive logical identities chosen by callers
  MaxGeneration,  \* stands for u64::MAX, the last generation
  Caller          \* threads that dispatch callbacks

ASSUME MaxGenerationAssumption == MaxGeneration \in Nat \ {0}

VARIABLES
  nextGeneration, \* Option<NonZeroU64>; None is the zero niche
  active,         \* BTreeMap<SurfaceId, SurfaceGeneration>; 0 where absent
  running,        \* pairs <<caller, handle>> of callbacks holding the borrow
  issued,         \* history: every handle create has returned
  outcome         \* history: code of the last answer

vars == <<nextGeneration, active, running, issued, outcome>>

Generation == 1..MaxGeneration
Handle == [surface_id : SurfaceId, generation : Generation]
Exhausted == 0

Live(h) == active[h.surface_id] = h.generation

\* Mutant: an increment without the overflow check.
UncheckedSuccessor(g) == g + 1
\* Mutant: wrapping_add, past the zero niche.
WrappingSuccessor(g) == (g % MaxGeneration) + 1

\* checked_add(1).and_then(NonZeroU64::new) on a u64
CheckedSuccessor(g) == IF g = MaxGeneration THEN Exhausted ELSE g + 1

-----------------------------------------------------------------------------

Init ==
  /\ nextGeneration = 1
  /\ active = [id \in SurfaceId |-> 0]
  /\ running = {}
  /\ issued = {}
  /\ outcome = "none"

\* Mutant: a registry with interior mutability, disposable through a shared borrow.
SharedBorrow == TRUE

ExclusiveBorrow == running = {}

RejectCreate(code) ==
  /\ outcome' = code
  /\ UNCHANGED <<nextGeneration, active, running, issued>>

\* SurfaceRegistry::create.  The occupied slot is reported before exhaustion.
Create(id) ==
  /\ ExclusiveBorrow
  /\ \/ /\ active[id] # 0
        /\ RejectCreate("SURFACE_ALREADY_ACTIVE")
     \/ /\ active[id] = 0
        /\ nextGeneration = Exhausted
        /\ RejectCreate("GENERATION_EXHAUSTED")
     \/ /\ active[id] = 0
        /\ nextGeneration # Exhausted
        /\ nextGeneration' = CheckedSuccessor(nextGeneration)
        /\ active' = [active EXCEPT ![id] = nextGeneration]
        /\ issued' = issued \cup {[surface_id |-> id, generation |-> nextGeneration]}
        /\ outcome' = "created"
        /\ UNCHANGED running

\* Mutant: disposal by logical identity, whatever the generation.
DisposeSlot(h) ==
  /\ ExclusiveBorrow
  /\ active' = [active EXCEPT ![h.surface_id] = 0]
  /\ outcome' = "disposed"
  /\ UNCHANGED <<nextGeneration, running, issued>>

\* SurfaceRegistry::dispose of any handle a caller still holds.
Dispose(h) ==
  /\ ExclusiveBorrow
  /\ \/ /\ ~Live(h)
        /\ outcome' = "STALE_SURFACE_HANDLE"
        /\ UNCHANGED active
     \/ /\ Live(h)
        /\ outcome' = "disposed"
        /\ active' = [active EXCEPT ![h.surface_id] = 0]
  /\ UNCHANGED <<nextGeneration, running, issued>>

\* Runtime::dispatch_surface_callback up to the call of the closure.
BeginCallback(c, h) ==
  /\ \A r \in running : r[1] # c
  /\ \/ /\ ~Live(h)
        /\ outcome' = "STALE_SURFACE_HANDLE"
        /\ UNCHANGED running
     \/ /\ Live(h)
        /\ outcome' = "callback_accepted"
        /\ running' = running \cup {<<c, h>>}
  /\ UNCHANGED <<nextGeneration, active, issued>>

\* The closure returns and the shared borrow ends.
EndCallback(r) ==
  /\ running' = running \ {r}
  /\ UNCHANGED <<nextGeneration, active, issued, outcome>>

Next ==
  \/ \E id \in SurfaceId : Create(id)
  \/ \E h \in issued : Dispose(h)
  \/ \E c \in Caller, h \in issued : BeginCallback(c, h)
  \/ \E r \in running : EndCallback(r)

Spec == Init /\ [][Next]_vars

-----------------------------------------------------------------------------

\* The registry's variables range over their Rust types.
TypeOK ==
  /\ nextGeneration \in 0..MaxGeneration
  /\ active \in [SurfaceId -> 0..MaxGeneration]
  /\ running \subseteq Caller \X Handle
  /\ issued \subseteq Handle
  /\ outcome \in {"none", "created", "SURFACE_ALREADY_ACTIVE", "GENERATION_EXHAUSTED",
                  "disposed", "STALE_SURFACE_HANDLE", "callback_accepted"}

\* Every generation below the allocator was handed out exactly once, whatever
\* creates were rejected in between, and the last one (u64::MAX) is handed out
\* before create answers GenerationExhausted.
GenerationsDense ==
  /\ \A g \in Generation :
       (nextGeneration = Exhausted \/ g < nextGeneration)
         <=> \E h \in issued : h.generation = g
  /\ \A h1, h2 \in issued : h1.generation = h2.generation => h1 = h2

\* Each live slot holds a handle that create returned; with GenerationsDense, two
\* live surfaces never share a generation.
LiveHandlesIssued ==
  \A id \in SurfaceId :
    active[id] # 0 => [surface_id |-> id, generation |-> active[id]] \in issued

\* A callback runs only while its own generation is live: no dispose and no
\* re-creation of the slot takes effect under it (the SurfaceAccess proof).
RunningCallbackIsLive == \A r \in running : Live(r[2])

\* Once a handle has stopped being live, no later create makes it live again:
\* a caller that kept it can never reach the slot's replacement.
DeadHandleStaysDead ==
  [][\A h \in issued : ~Live(h) => active'[h.surface_id] # h.generation]_vars

-----------------------------------------------------------------------------
(* The registry implements the language-independent lifecycle contract. *)

\* The registry as the contract's state: its live handles, and the allocator.
ContractState ==
  [allocator |-> IF nextGeneration = Exhausted
                 THEN [status |-> "exhausted", next |-> 0]
                 ELSE [status |-> "available", next |-> nextGeneration],
   active    |-> {h \in issued : Live(h)}]

Contract == INSTANCE SurfaceLifecycle WITH lifecycle <- ContractState

\* Every answer and every state change of the Rust registry is one the contract
\* model gives for the same call; its live handles are the contract's `active`.
ImplementsLifecycleContract == Contract!ContractSpec
=============================================================================
