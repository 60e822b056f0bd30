----------------------------- MODULE AndroidFacade -----------------------------
(***************************************************************************)
(* The public Android surface facade: FacadeState and apply_action of      *)
(* scripts/android_facade_model.py.  One operator per action; each takes   *)
(* the facade's state and gives the next state with the one effect its     *)
(* caller has to carry out, or the unchanged state with an error code.     *)
(* They are operators and not a state machine because the host composition *)
(* chains several of them in one call; AndroidFacadeSystem puts threads, a *)
(* main queue and a native library around them.                            *)
(***************************************************************************)
EXTENDS Integers

CONSTANT MaxLong   \* stands for MAX_KOTLIN_LONG = 2^63 - 1

ASSUME LongAssumption == MaxLong \in Nat

Thread == {"main", "worker"}
Reason == {"HOST_UNAVAILABLE", "HOST_INTERNAL"}

\* `handle` is None before native creation and after disposal.
NoHandle == [surface_id |-> 0, generation |-> 0]

FacadeStates == {"NEW", "CREATE_QUEUED", "CREATING", "ACTIVE", "CLOSE_QUEUED",
                 "CLOSE_PENDING_CREATE", "CLOSING", "CLOSED", "FAILED"}

\* `failure` is CREATE_<reason> or DISPOSE_<reason>, as a pair.
NoFailure == <<"none", "none">>

NewFacade == [state |-> "NEW", handle |-> NoHandle, last_sequence |-> 0,
              failure |-> NoFailure, queued_from |-> "none"]

Answer(f, effect) == [facade |-> f, effect |-> effect]
Moved(f, state, effect) == Answer([f EXCEPT !.state = state, !.queued_from = "none"], effect)
Invalid(f) == Answer(f, "INVALID_TRANSITION")

\* Native results, callbacks and drained tasks are confined to the main thread.
OnMain(f, thread, answer) == IF thread = "main" THEN answer ELSE Answer(f, "WRONG_THREAD")

ValidHandle(h) == h.surface_id \in 1..MaxLong /\ h.generation \in 1..MaxLong

\* The close request took a worker's post to the main queue while in state `from`.
QueuedFrom(f, from) == f.state = "CLOSE_QUEUED" /\ f.queued_from = from

\* validate_state of android_facade_invariants.py: which fields go with which state.
ValidFacade(f) ==
  /\ f.state \in FacadeStates /\ f.last_sequence \in 0..MaxLong
  /\ f.handle # NoHandle <=> f.state \in {"ACTIVE", "CLOSING"} \/ QueuedFrom(f, "ACTIVE")
  /\ f.handle # NoHandle => ValidHandle(f.handle)
  /\ f.queued_from \in IF f.state = "CLOSE_QUEUED"
                       THEN {"NEW", "CREATE_QUEUED", "CREATING", "ACTIVE"} ELSE {"none"}
  /\ f.failure \in IF f.state = "FAILED" THEN {"CREATE", "DISPOSE"} \X Reason ELSE {NoFailure}
  /\ f.failure[1] = "CREATE" => f.last_sequence = 0

-----------------------------------------------------------------------------
(* Creation. *)

RequestCreate(f, thread) ==
  CASE f.state # "NEW"   -> Invalid(f)
    [] f.state = "NEW" /\ thread = "main"   -> Moved(f, "CREATING", "CALL_NATIVE_CREATE")
    [] f.state = "NEW" /\ thread = "worker" -> Moved(f, "CREATE_QUEUED", "POST_CREATE_TO_MAIN")

\* Mutant: a drained task is unexpected once its facade was closed.
DrainCreateStrict(f, thread) ==
  OnMain(f, thread,
    CASE f.state = "CREATE_QUEUED"      -> Moved(f, "CREATING", "CALL_NATIVE_CREATE")
      [] QueuedFrom(f, "CREATE_QUEUED") -> Moved(f, "CLOSED", "CANCEL_QUEUED_CREATE")
      [] OTHER                          -> Invalid(f))

\* Mutant: a queued close does not cancel the create posted before it.
DrainCreateUncancelled(f, thread) ==
  OnMain(f, thread,
    CASE f.state = "CREATE_QUEUED" \/ QueuedFrom(f, "CREATE_QUEUED")
           -> Moved(f, "CREATING", "CALL_NATIVE_CREATE")
      [] f.state = "CLOSED"             -> Answer(f, "IGNORE_CANCELLED_TASK")
      [] OTHER                          -> Invalid(f))

DrainCreate(f, thread) ==
  OnMain(f, thread,
    CASE f.state = "CREATE_QUEUED"      -> Moved(f, "CREATING", "CALL_NATIVE_CREATE")
      [] QueuedFrom(f, "CREATE_QUEUED") -> Moved(f, "CLOSED", "CANCEL_QUEUED_CREATE")
      [] f.state = "CLOSED"             -> Answer(f, "IGNORE_CANCELLED_TASK")
      [] OTHER                          -> Invalid(f))

\* Mutant: a late surface closes the facade but is not disposed.
CreateSucceededUndisposed(f, thread, h) ==
  OnMain(f, thread,
    CASE f.state = "CREATING" -> Moved([f EXCEPT !.handle = h], "ACTIVE", "NONE")
      [] f.state = "CLOSE_PENDING_CREATE" \/ QueuedFrom(f, "CREATING")
           -> Moved(f, "CLOSED", "NONE")
      [] OTHER -> Invalid(f))

\* Mutant: a late surface makes a closed facade active.
CreateSucceededAnyway(f, thread, h) ==
  OnMain(f, thread,
    IF f.state \in {"CREATING", "CLOSE_PENDING_CREATE"} \/ QueuedFrom(f, "CREATING")
    THEN Moved([f EXCEPT !.handle = h], "ACTIVE", "NONE")
    ELSE Invalid(f))

\* Mutant: a late surface is unexpected.
CreateSucceededStrict(f, thread, h) ==
  OnMain(f, thread, IF f.state = "CREATING" THEN Moved([f EXCEPT !.handle = h], "ACTIVE", "NONE")
                    ELSE Invalid(f))

CreateSucceeded(f, thread, h) ==
  OnMain(f, thread,
    CASE ~ValidHandle(h) -> Answer(f, "INVALID_HANDLE")
      [] ValidHandle(h) /\ f.state = "CREATING"
           -> Moved([f EXCEPT !.handle = h], "ACTIVE", "NONE")
      [] ValidHandle(h) /\ (f.state = "CLOSE_PENDING_CREATE" \/ QueuedFrom(f, "CREATING"))
           -> Moved([f EXCEPT !.handle = h], "CLOSING", "CALL_NATIVE_DISPOSE")
      [] OTHER -> Invalid(f))

CreateFailed(f, thread, reason) ==
  OnMain(f, thread,
    IF f.state \in {"CREATING", "CLOSE_PENDING_CREATE"} \/ QueuedFrom(f, "CREATING")
    THEN Moved([f EXCEPT !.failure = <<"CREATE", reason>>], "FAILED", "NONE")
    ELSE Invalid(f))

-----------------------------------------------------------------------------
(* Closing. *)

\* Mutant: every request posts a task.
CloseFromWorkerRepeats(f) ==
  Answer([f EXCEPT !.state = "CLOSE_QUEUED", !.queued_from = f.state], "POST_CLOSE_TO_MAIN")

\* A worker's request only posts a task, and remembers what the facade was doing.
CloseFromWorker(f) ==
  IF f.state \in {"NEW", "CREATE_QUEUED", "CREATING", "ACTIVE"}
  THEN Answer([f EXCEPT !.state = "CLOSE_QUEUED", !.queued_from = f.state],
              "POST_CLOSE_TO_MAIN")
  ELSE Answer(f, "NONE")

\* Mutant: disposal is requested without leaving ACTIVE.
CloseOnMainStays(f, state) ==
  CASE state = "NEW"           -> Moved(f, "CLOSED", "NONE")
    [] state = "CREATE_QUEUED" -> Moved(f, "CLOSED", "CANCEL_QUEUED_CREATE")
    [] state = "CREATING"      -> Moved(f, "CLOSE_PENDING_CREATE", "NONE")
    [] state = "ACTIVE"        -> Answer(f, "CALL_NATIVE_DISPOSE")

\* What closing on the main thread does when the facade is, or was, in `state`.
CloseOnMain(f, state) ==
  CASE state = "NEW"           -> Moved(f, "CLOSED", "NONE")
    [] state = "CREATE_QUEUED" -> Moved(f, "CLOSED", "CANCEL_QUEUED_CREATE")
    [] state = "CREATING"      -> Moved(f, "CLOSE_PENDING_CREATE", "NONE")
    [] state = "ACTIVE"        -> Moved(f, "CLOSING", "CALL_NATIVE_DISPOSE")

RequestClose(f, thread) ==
  CASE thread = "worker" -> CloseFromWorker(f)
    [] thread = "main" /\ f.state \in {"NEW", "CREATE_QUEUED", "CREATING", "ACTIVE"}
         -> CloseOnMain(f, f.state)
    [] OTHER -> Answer(f, "NONE")

DrainClose(f, thread) ==
  OnMain(f, thread,
    CASE f.state = "CLOSE_QUEUED" -> CloseOnMain(f, f.queued_from)
      [] f.state \in {"CLOSING", "CLOSED", "FAILED"} -> Answer(f, "IGNORE_CANCELLED_TASK")
      [] OTHER -> Invalid(f))

DisposeSucceeded(f, thread) ==
  OnMain(f, thread,
    IF f.state = "CLOSING" THEN Moved([f EXCEPT !.handle = NoHandle], "CLOSED", "NONE")
    ELSE Invalid(f))

DisposeFailed(f, thread, reason) ==
  OnMain(f, thread,
    IF f.state = "CLOSING"
    THEN Moved([f EXCEPT !.handle = NoHandle, !.failure = <<"DISPOSE", reason>>],
               "FAILED", "NONE")
    ELSE Invalid(f))

-----------------------------------------------------------------------------
(* Callbacks: the current handle, a strictly increasing sequence, while ACTIVE. *)

Callback(f, thread, h, sequence) ==
  OnMain(f, thread,
    CASE ~ValidHandle(h) -> Answer(f, "INVALID_HANDLE")
      [] ValidHandle(h) /\ sequence \notin 1..MaxLong -> Answer(f, "INVALID_SEQUENCE")
      [] /\ ValidHandle(h) /\ sequence \in 1..MaxLong
         /\ f.state = "ACTIVE" /\ h = f.handle /\ sequence > f.last_sequence
           -> Answer([f EXCEPT !.last_sequence = sequence], "DELIVER_CALLBACK")
      [] OTHER -> Answer(f, "DROP_CALLBACK"))
=============================================================================
