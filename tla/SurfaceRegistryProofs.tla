------------------------- MODULE SurfaceRegistryProofs -------------------------
(***************************************************************************)
(* Proofs about the surface registry, for any slots, callers and last      *)
(* generation.  RegistryInv is inductive; everything else follows from it. *)
(***************************************************************************)
EXTENDS SurfaceRegistry, TLAPS

\* The inductive invariant: types, the allocator's position relative to every
\* handle ever issued, and what is live or running among those handles.
RegistryInv ==
  /\ TypeOK
  /\ GenerationsDense
  /\ LiveHandlesIssued
  /\ RunningCallbackIsLive

-----------------------------------------------------------------------------

\* The allocator's successor: Some(g + 1) below the maximum, None at it.
LEMMA SuccessorFacts ==
  ASSUME NEW g \in Generation
  PROVE  /\ CheckedSuccessor(g) \in 0..MaxGeneration
         /\ \A k \in Generation :
              (CheckedSuccessor(g) = Exhausted \/ k < CheckedSuccessor(g))
                <=> (k < g \/ k = g)
  BY MaxGenerationAssumption DEF Generation, CheckedSuccessor, Exhausted

LEMMA InitInv == Init => RegistryInv
  BY MaxGenerationAssumption
  DEF Init, RegistryInv, TypeOK, GenerationsDense, LiveHandlesIssued,
      RunningCallbackIsLive, Generation, Exhausted, Handle

LEMMA CreateInv ==
  ASSUME RegistryInv, NEW id \in SurfaceId, Create(id)
  PROVE  RegistryInv'
<1> USE DEF RegistryInv
<1>1. CASE UNCHANGED <<nextGeneration, active, running, issued>>
           /\ outcome' \in {"SURFACE_ALREADY_ACTIVE", "GENERATION_EXHAUSTED"}
  BY <1>1 DEF TypeOK, GenerationsDense, LiveHandlesIssued, RunningCallbackIsLive, Live
<1>2. CASE /\ active[id] = 0
           /\ nextGeneration # Exhausted
           /\ nextGeneration' = CheckedSuccessor(nextGeneration)
           /\ active' = [active EXCEPT ![id] = nextGeneration]
           /\ issued' = issued \cup {[surface_id |-> id, generation |-> nextGeneration]}
           /\ outcome' = "created"
           /\ UNCHANGED running
  <2> DEFINE new == [surface_id |-> id, generation |-> nextGeneration]
  <2>1. nextGeneration \in Generation /\ new \in Handle
    BY <1>2, MaxGenerationAssumption DEF TypeOK, Generation, Exhausted, Handle
  <2>2. running = {}
    BY DEF Create, ExclusiveBorrow
  <2>3. \A h \in issued : h.generation \in Generation /\ h.generation < nextGeneration
    BY <1>2 DEF GenerationsDense, TypeOK, Handle
  <2>4. TypeOK'
    BY <1>2, <2>1, SuccessorFacts DEF TypeOK, Generation
  <2>5. GenerationsDense'
    <3>1. \A g \in Generation :
            (nextGeneration' = Exhausted \/ g < nextGeneration')
              <=> (g < nextGeneration \/ g = nextGeneration)
      BY <1>2, <2>1, SuccessorFacts
    <3>2. \A g \in Generation :
            (\E h \in issued' : h.generation = g)
              <=> ((\E h \in issued : h.generation = g) \/ g = nextGeneration)
      <4>1. new \in issued' /\ new.generation = nextGeneration
        BY <1>2
      <4>2. issued \subseteq issued' /\ \A h \in issued' : h \in issued \/ h = new
        BY <1>2
      <4>3. QED
        BY <4>1, <4>2
    <3>3. \A g \in Generation :
            (g < nextGeneration) <=> \E h \in issued : h.generation = g
      BY <1>2 DEF GenerationsDense
    <3>4. \A h1, h2 \in issued' : h1.generation = h2.generation => h1 = h2
      BY <1>2, <2>1, <2>3 DEF GenerationsDense, Generation
    <3>5. QED
      BY <3>1, <3>2, <3>3, <3>4 DEF GenerationsDense
  <2>6. LiveHandlesIssued'
    BY <1>2 DEF LiveHandlesIssued, TypeOK
  <2>7. RunningCallbackIsLive'
    BY <1>2, <2>2 DEF RunningCallbackIsLive
  <2>8. QED
    BY <2>4, <2>5, <2>6, <2>7
<1>3. QED
  BY <1>1, <1>2 DEF Create, RejectCreate

LEMMA DisposeInv ==
  ASSUME RegistryInv, NEW h \in issued, Dispose(h)
  PROVE  RegistryInv'
<1> USE DEF RegistryInv
<1>1. h \in Handle /\ running = {}
  BY DEF TypeOK, Dispose, ExclusiveBorrow
<1>2. TypeOK'
  BY <1>1, MaxGenerationAssumption DEF TypeOK, Dispose, Handle
<1>3. GenerationsDense'
  BY DEF GenerationsDense, Dispose
<1>4. LiveHandlesIssued'
  BY <1>1 DEF LiveHandlesIssued, Dispose, TypeOK
<1>5. RunningCallbackIsLive'
  BY <1>1 DEF RunningCallbackIsLive, Dispose
<1>6. QED
  BY <1>2, <1>3, <1>4, <1>5

LEMMA CallbackInv ==
  ASSUME RegistryInv, NEW c \in Caller, NEW h \in issued, BeginCallback(c, h)
  PROVE  RegistryInv'
<1> USE DEF RegistryInv
<1>1. TypeOK'
  BY DEF TypeOK, BeginCallback
<1>2. GenerationsDense' /\ LiveHandlesIssued'
  BY DEF GenerationsDense, LiveHandlesIssued, BeginCallback
<1>3. RunningCallbackIsLive'
  BY DEF RunningCallbackIsLive, BeginCallback, Live
<1>4. QED
  BY <1>1, <1>2, <1>3

LEMMA EndCallbackInv ==
  ASSUME RegistryInv, NEW r \in running, EndCallback(r)
  PROVE  RegistryInv'
  BY DEF RegistryInv, TypeOK, GenerationsDense, LiveHandlesIssued,
         RunningCallbackIsLive, EndCallback, Live

LEMMA NextInv == RegistryInv /\ [Next]_vars => RegistryInv'
<1> SUFFICES ASSUME RegistryInv, [Next]_vars PROVE RegistryInv'
  OBVIOUS
<1>1. CASE UNCHANGED vars
  BY <1>1 DEF vars, RegistryInv, TypeOK, GenerationsDense, LiveHandlesIssued,
              RunningCallbackIsLive, Live
<1>2. CASE Next
  BY <1>2, CreateInv, DisposeInv, CallbackInv, EndCallbackInv DEF Next
<1>3. QED
  BY <1>1, <1>2

\* The inductive invariant holds in every reachable state of the registry.
THEOREM RegistryInvariant == Spec => []RegistryInv
  BY InitInv, NextInv, PTL DEF Spec

\* The state of the registry and of its callers keeps its types: in particular
\* the allocator never passes u64::MAX and every handle ever returned is one.
THEOREM RegistryStateIsTyped == Spec => []TypeOK
<1>1. RegistryInv => TypeOK
  BY DEF RegistryInv
<1>2. QED
  BY <1>1, RegistryInvariant, PTL

\* A generation is handed out exactly once and none is skipped, up to and
\* including the last one (create's allocator in surface.rs).
THEOREM GenerationsNeverReused == Spec => []GenerationsDense
<1>1. RegistryInv => GenerationsDense
  BY DEF RegistryInv
<1>2. QED
  BY <1>1, RegistryInvariant, PTL

\* dispatch_surface_callback: the generation under a running callback is live.
THEOREM CallbacksRunOnLiveSurfaces == Spec => []RunningCallbackIsLive
<1>1. RegistryInv => RunningCallbackIsLive
  BY DEF RegistryInv
<1>2. QED
  BY <1>1, RegistryInvariant, PTL

-----------------------------------------------------------------------------

\* One step never revives an issued handle.
LEMMA StepKeepsDead ==
  ASSUME RegistryInv, [Next]_vars, NEW h \in issued, ~Live(h)
  PROVE  active'[h.surface_id] # h.generation
<1> USE DEF RegistryInv
<1>1. /\ h \in Handle /\ h.generation # 0
      /\ nextGeneration # Exhausted => h.generation < nextGeneration
  BY DEF TypeOK, Handle, Generation, GenerationsDense
<1>2. ASSUME NEW id \in SurfaceId, Create(id)
      PROVE  active'[h.surface_id] # h.generation
  BY <1>1, <1>2 DEF Create, RejectCreate, TypeOK, Live, Handle, Generation
<1>3. ASSUME NEW g \in issued, Dispose(g)
      PROVE  active'[h.surface_id] # h.generation
  BY <1>1, <1>3 DEF Dispose, TypeOK, Live, Handle
<1>4. CASE UNCHANGED active
  BY <1>4 DEF Live
<1>5. QED
  BY <1>2, <1>3, <1>4 DEF Next, BeginCallback, EndCallback, vars

\* A disposed handle stays dead: dispose and resolve in surface.rs can never
\* accept it again, however the slot is re-created.
THEOREM DisposedHandlesStayDead == Spec => DeadHandleStaysDead
<1>1. RegistryInv /\ [Next]_vars
      => [\A h \in issued : ~Live(h) => active'[h.surface_id] # h.generation]_vars
  BY StepKeepsDead
<1>2. QED
  BY <1>1, RegistryInvariant, PTL DEF Spec, DeadHandleStaysDead

-----------------------------------------------------------------------------
(* The registry implements the lifecycle contract. *)

\* The contract's `active` has a handle for an identity iff the slot is occupied.
LEMMA SlotOccupied ==
  ASSUME RegistryInv, NEW id \in SurfaceId
  PROVE  (\E h \in ContractState.active : h.surface_id = id) <=> active[id] # 0
<1> USE DEF RegistryInv, ContractState, Live
<1>1. ASSUME NEW h \in issued, Live(h), h.surface_id = id
      PROVE  active[id] # 0
  BY <1>1 DEF TypeOK, Handle, Generation
<1>2. ASSUME active[id] # 0
      PROVE  \E h \in issued : Live(h) /\ h.surface_id = id
  BY <1>2 DEF LiveHandlesIssued
<1>3. QED
  BY <1>1, <1>2

LEMMA ContractAllocator ==
  ASSUME RegistryInv
  PROVE  /\ ContractState.allocator.next = nextGeneration
         /\ (ContractState.allocator = Contract!Exhausted) <=> nextGeneration = Exhausted
  BY DEF RegistryInv, TypeOK, ContractState, Contract!Exhausted, Exhausted

LEMMA CreateRefines ==
  ASSUME RegistryInv, NEW id \in SurfaceId, Create(id)
  PROVE  Contract!Create(id)
<1>1. CASE active[id] # 0
  BY <1>1, SlotOccupied
  DEF Create, RejectCreate, Contract!Create, Contract!CreateCode, Contract!AfterCreate,
      ContractState, Live
<1>2. CASE active[id] = 0 /\ nextGeneration = Exhausted
  BY <1>2, SlotOccupied, ContractAllocator
  DEF Create, RejectCreate, Contract!Create, Contract!CreateCode, Contract!AfterCreate,
      ContractState, Live
<1>3. CASE active[id] = 0 /\ nextGeneration # Exhausted
  <2> DEFINE new == [surface_id |-> id, generation |-> nextGeneration]
  <2>1. /\ nextGeneration' = CheckedSuccessor(nextGeneration)
        /\ active' = [active EXCEPT ![id] = nextGeneration]
        /\ issued' = issued \cup {new}
        /\ outcome' = "created"
    BY <1>3 DEF Create
  <2>2. Contract!CreateCode(ContractState, id) = "created"
    BY <1>3, SlotOccupied, ContractAllocator DEF Contract!CreateCode
  <2>3. ContractState'.active = ContractState.active \cup {new}
    <3>1. \A h \in issued : h.surface_id \in SurfaceId /\ h.generation \in Generation
      BY DEF RegistryInv, TypeOK, Handle
    <3>2. active \in [SurfaceId -> 0..MaxGeneration]
      BY DEF RegistryInv, TypeOK
    <3>3. active'[id] = nextGeneration
      BY <2>1, <3>2
    <3>4. \A h \in issued : h.generation # nextGeneration
      BY <1>3, <3>1 DEF RegistryInv, GenerationsDense, TypeOK, Generation
    <3>5. ASSUME NEW h \in issued PROVE Live(h)' <=> Live(h)
      BY <1>3, <2>1, <3>1, <3>2, <3>4 DEF Live, Generation
    <3>6. {h \in issued : Live(h)}' = {h \in issued : Live(h)} \cup {new}
      BY <2>1, <3>3, <3>5 DEF Live
    <3>7. QED
      BY <3>6 DEF ContractState
  <2>4. ContractState'.allocator
          = IF nextGeneration = MaxGeneration
            THEN Contract!Exhausted ELSE Contract!Available(nextGeneration + 1)
    BY <1>3, <2>1, MaxGenerationAssumption
    DEF ContractState, CheckedSuccessor, Exhausted, Contract!Exhausted,
        Contract!Available, RegistryInv, TypeOK
  <2>5. ContractState' = Contract!AfterCreate(ContractState, id)
    BY <2>2, <2>3, <2>4, ContractAllocator
    DEF Contract!AfterCreate, Contract!NewHandle, ContractState
  <2>6. QED
    BY <2>1, <2>2, <2>5 DEF Contract!Create
<1>4. QED
  BY <1>1, <1>2, <1>3

LEMMA DisposeRefines ==
  ASSUME RegistryInv, NEW h \in issued, Dispose(h)
  PROVE  Contract!Dispose(h)
<1>1. h \in ContractState.active <=> Live(h)
  BY DEF ContractState
<1>2. {k \in issued : Live(k)}' = {k \in issued : Live(k)} \ {h}
  <2>1. active \in [SurfaceId -> 0..MaxGeneration] /\ issued \subseteq Handle
    BY DEF RegistryInv, TypeOK
  <2>2. CASE ~Live(h)
    BY <2>2 DEF Dispose, Live
  <2>3. CASE Live(h)
    <3>1. active' = [active EXCEPT ![h.surface_id] = 0] /\ issued' = issued
      BY <2>3 DEF Dispose
    <3>2. ASSUME NEW k \in issued PROVE Live(k)' <=> (Live(k) /\ k # h)
      BY <2>1, <2>3, <3>1 DEF Live, Handle, Generation
    <3>3. QED
      BY <3>1, <3>2
  <2>4. QED
    BY <2>2, <2>3
<1>3. ContractState' = [ContractState EXCEPT !.active = @ \ {h}]
  <2>1. nextGeneration' = nextGeneration
    BY DEF Dispose
  <2>2. ContractState'.allocator = ContractState.allocator
    BY <2>1 DEF ContractState, Exhausted
  <2>3. ContractState'.active = ContractState.active \ {h}
    BY <1>2 DEF ContractState
  <2>4. QED
    BY <2>2, <2>3 DEF ContractState
<1>4. QED
  BY <1>1, <1>3 DEF Dispose, Contract!Dispose, Contract!HandleCode, Contract!AfterDispose

LEMMA CallbackRefines ==
  ASSUME NEW c \in Caller, NEW h \in issued, BeginCallback(c, h)
  PROVE  Contract!Callback(h)
  BY DEF BeginCallback, Contract!Callback, Contract!HandleCode, ContractState, Live

\* Every answer and state change of the Rust registry (surface.rs) is the one
\* transition() of surface_lifecycle_model.py gives for the same call.
THEOREM RegistryImplementsContract == Spec => ImplementsLifecycleContract
<1>1. Init => Contract!Init
  BY DEF Init, Contract!Init, Contract!Empty, Contract!Available, ContractState, Exhausted
<1>2. RegistryInv /\ [Next]_vars => [Contract!Next]_<<ContractState, outcome>>
  <2> SUFFICES ASSUME RegistryInv, [Next]_vars
               PROVE  [Contract!Next]_<<ContractState, outcome>>
    OBVIOUS
  <2>1. issued \subseteq Contract!Handle
    BY DEF RegistryInv, TypeOK, Handle, Generation, Contract!Handle
  <2>2. ASSUME NEW r \in running, EndCallback(r)
        PROVE  UNCHANGED <<ContractState, outcome>>
    BY <2>2 DEF EndCallback, ContractState, Live
  <2>3. CASE UNCHANGED vars
    BY <2>3 DEF vars, ContractState, Live
  <2>4. CASE Next
    BY <2>1, <2>2, <2>4, CreateRefines, DisposeRefines, CallbackRefines
    DEF Next, Contract!Next
  <2>5. QED
    BY <2>3, <2>4
<1>3. QED
  BY <1>1, <1>2, RegistryInvariant, PTL
  DEF Spec, ImplementsLifecycleContract, Contract!ContractSpec
=============================================================================
