--------------------------- MODULE SurfaceLifecycle ---------------------------
(***************************************************************************)
(* The language-independent surface lifecycle contract,                    *)
(* scripts/surface_lifecycle_model.py: `transition` maps a lifecycle state *)
(* and one action to the next state and a typed outcome.                   *)
(*                                                                         *)
(* The transition is given as operators on a lifecycle value, because the  *)
(* Android host composition chains several of them in one call, and as the *)
(* specification ContractSpec, which the Rust registry is shown to         *)
(* implement (SurfaceRegistry!ContractSpec).                               *)
(***************************************************************************)
EXTENDS Integers

CONSTANTS
  SurfaceId,      \* positive logical identities chosen by callers
  MaxGeneration   \* stands for MAX_U64, the last generation

VARIABLES
  lifecycle,      \* [allocator, active], the model's `state` argument
  outcome         \* code of the last answer: the result, or why it was rejected

Handle == [surface_id : SurfaceId, generation : 1..MaxGeneration]

Available(n) == [status |-> "available", next |-> n]
\* The Python allocator drops the field `next` when exhausted; 0 marks that here.
Exhausted == [status |-> "exhausted", next |-> 0]

Empty == [allocator |-> Available(1), active |-> {}]

-----------------------------------------------------------------------------
(* The operation "create". *)

CreateCode(s, id) ==
  IF \E h \in s.active : h.surface_id = id THEN "SURFACE_ALREADY_ACTIVE"
  ELSE IF s.allocator = Exhausted THEN "GENERATION_EXHAUSTED" ELSE "created"

NewHandle(s, id) == [surface_id |-> id, generation |-> s.allocator.next]

\* Mutant: the generation can be taken again.
AfterCreateReuses(s, id) ==
  IF CreateCode(s, id) # "created" THEN s
  ELSE [s EXCEPT !.active = @ \cup {NewHandle(s, id)}]

AfterCreate(s, id) ==
  IF CreateCode(s, id) # "created" THEN s
  ELSE [active    |-> s.active \cup {NewHandle(s, id)},
        allocator |-> IF s.allocator.next = MaxGeneration
                      THEN Exhausted
                      ELSE Available(s.allocator.next + 1)]

(* The operations "dispose" and "callback" on a complete handle. *)

HandleCode(s, h, accepted) ==
  IF h \in s.active THEN accepted ELSE "STALE_SURFACE_HANDLE"

AfterDispose(s, h) == [s EXCEPT !.active = @ \ {h}]

-----------------------------------------------------------------------------

Init == lifecycle = Empty /\ outcome = "none"

Create(id) ==
  /\ outcome' = CreateCode(lifecycle, id)
  /\ lifecycle' = AfterCreate(lifecycle, id)

Dispose(h) ==
  /\ outcome' = HandleCode(lifecycle, h, "disposed")
  /\ lifecycle' = AfterDispose(lifecycle, h)

Callback(h) ==
  /\ outcome' = HandleCode(lifecycle, h, "callback_accepted")
  /\ UNCHANGED lifecycle

Next ==
  \/ \E id \in SurfaceId : Create(id)
  \/ \E h \in Handle : Dispose(h) \/ Callback(h)

ContractSpec == Init /\ [][Next]_<<lifecycle, outcome>>
=============================================================================
