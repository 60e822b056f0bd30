-------------------------- MODULE AndroidFacadeSystem --------------------------
(***************************************************************************)
(* One facade with what surrounds it: application threads that request     *)
(* creation and closing, the main queue the facade posts tasks to, and the *)
(* native library that answers create and dispose calls later.             *)
(*                                                                         *)
(* The main queue drains posted tasks in any order relative to native      *)
(* results and to each other (two worker threads may post in either        *)
(* order), and a cancelled task may or may not still be drained.  Native   *)
(* callbacks come for any handle and sequence, in any order and repeatedly.*)
(* An event delivered off the main thread is refused and stays pending.    *)
(***************************************************************************)
EXTENDS AndroidFacade, Sequences

CONSTANT
  Native   \* handles the native library may return for this facade's surface

ASSUME NativeAssumption ==
  Native \subseteq [surface_id : 1..MaxLong, generation : 1..MaxLong]

VARIABLES
  facade,     \* the FacadeState
  effect,     \* effect or error of the last action
  posted,     \* tasks in the main queue, of each kind
  creating,   \* native create calls not yet answered
  disposing,  \* native dispose calls not yet answered
  live,       \* native surfaces alive
  closing,    \* history: a close was requested
  delivered   \* history: the sequences delivered to the application

vars == <<facade, effect, posted, creating, disposing, live, closing, delivered>>

Nothing == [create |-> 0, close |-> 0]

Init ==
  /\ facade = NewFacade
  /\ effect = "NONE"
  /\ posted = Nothing
  /\ creating = 0
  /\ disposing = 0
  /\ live = {}
  /\ closing = FALSE
  /\ delivered = <<>>

-----------------------------------------------------------------------------
(* Carrying out an answer of the facade: what the event left of the queue   *)
(* and of the native calls, plus what the effect adds to them.              *)

Calls(answer, name) == IF answer.effect = name THEN 1 ELSE 0

PostedAfter(answer, left) ==
  LET after == [create |-> left.create + Calls(answer, "POST_CREATE_TO_MAIN"),
                close |-> left.close + Calls(answer, "POST_CLOSE_TO_MAIN")]
  IN IF answer.effect = "CANCEL_QUEUED_CREATE"
     THEN {after, [after EXCEPT !.create = 0]}
     ELSE {after}

CarryOut(answer, left, creates, disposes) ==
  /\ facade' = answer.facade
  /\ effect' = answer.effect
  /\ posted' \in PostedAfter(answer, left)
  /\ creating' = creates + Calls(answer, "CALL_NATIVE_CREATE")
  /\ disposing' = disposes + Calls(answer, "CALL_NATIVE_DISPOSE")
  /\ delivered' = IF answer.effect = "DELIVER_CALLBACK"
                  THEN delivered \o <<answer.facade.last_sequence>> ELSE delivered

\* One event leaves its source only when it is delivered on the main thread.
Taken(thread, n) == IF thread = "main" THEN n - 1 ELSE n

-----------------------------------------------------------------------------

AppCreates(thread) ==
  /\ CarryOut(RequestCreate(facade, thread), posted, creating, disposing)
  /\ UNCHANGED <<live, closing>>

AppCloses(thread) ==
  /\ CarryOut(RequestClose(facade, thread), posted, creating, disposing)
  /\ closing' = TRUE
  /\ UNCHANGED live

QueueDrainsCreate(thread) ==
  /\ posted.create > 0
  /\ CarryOut(DrainCreate(facade, thread),
              [posted EXCEPT !.create = Taken(thread, @)], creating, disposing)
  /\ UNCHANGED <<live, closing>>

QueueDrainsClose(thread) ==
  /\ posted.close > 0
  /\ CarryOut(DrainClose(facade, thread),
              [posted EXCEPT !.close = Taken(thread, @)], creating, disposing)
  /\ UNCHANGED <<live, closing>>

\* The native surface is alive from the result that names it.
NativeCreated(thread, h) ==
  /\ creating > 0
  /\ CarryOut(CreateSucceeded(facade, thread, h), posted, Taken(thread, creating), disposing)
  /\ live' = IF thread = "main" THEN live \cup {h} ELSE live
  /\ UNCHANGED closing

NativeCreateFails(thread, reason) ==
  /\ creating > 0
  /\ CarryOut(CreateFailed(facade, thread, reason), posted, Taken(thread, creating), disposing)
  /\ UNCHANGED <<live, closing>>

NativeDisposed(thread) ==
  /\ disposing > 0
  /\ CarryOut(DisposeSucceeded(facade, thread), posted, creating, Taken(thread, disposing))
  /\ live' = IF thread = "main" THEN live \ {facade.handle} ELSE live
  /\ UNCHANGED closing

NativeDisposeFails(thread, reason) ==
  /\ disposing > 0
  /\ CarryOut(DisposeFailed(facade, thread, reason), posted, creating, Taken(thread, disposing))
  /\ UNCHANGED <<live, closing>>

NativeCallback(thread, h, sequence) ==
  /\ CarryOut(Callback(facade, thread, h, sequence), posted, creating, disposing)
  /\ UNCHANGED <<live, closing>>

Next ==
  \E thread \in Thread :
    \/ AppCreates(thread) \/ AppCloses(thread)
    \/ QueueDrainsCreate(thread) \/ QueueDrainsClose(thread)
    \/ \E h \in Native : NativeCreated(thread, h)
    \/ \E reason \in Reason : NativeCreateFails(thread, reason)
    \/ NativeDisposed(thread)
    \/ \E reason \in Reason : NativeDisposeFails(thread, reason)
    \/ \E h \in Native \cup {NoHandle}, sequence \in 0..MaxLong + 1 :
         NativeCallback(thread, h, sequence)

Spec == Init /\ [][Next]_vars

\* The main looper runs every task posted to it, and the native library answers
\* every call; the application owes nothing.
Fairness ==
  /\ WF_vars(QueueDrainsCreate("main"))
  /\ WF_vars(QueueDrainsClose("main"))
  /\ WF_vars(\/ \E h \in Native : NativeCreated("main", h)
             \/ \E reason \in Reason : NativeCreateFails("main", reason))
  /\ WF_vars(\/ NativeDisposed("main")
             \/ \E reason \in Reason : NativeDisposeFails("main", reason))

FairSpec == Spec /\ Fairness

-----------------------------------------------------------------------------

\* The facade is in a state that the repository's own invariants allow: it has a handle, a
\* queued origin and a failure exactly when its lifecycle state calls for one.  What
\* surrounds it has the types of the model.
TypeOK ==
  /\ ValidFacade(facade) /\ facade.handle \in Native \cup {NoHandle}
  /\ posted \in [create : {0, 1}, close : {0, 1}]
  /\ creating \in {0, 1} /\ disposing \in {0, 1}
  /\ live \subseteq Native
  /\ closing \in BOOLEAN

\* No task that was posted and no native result that is due can reach the facade in
\* a state that answers INVALID_TRANSITION, whatever overtook it: requests on both
\* threads, cancelled tasks, results that arrive during a queued close.
DueEventsAreExpected ==
  LET Expected(answer) == answer.effect # "INVALID_TRANSITION"
  IN /\ posted.create > 0 => Expected(DrainCreate(facade, "main"))
     /\ posted.close > 0 => Expected(DrainClose(facade, "main"))
     /\ creating > 0 => \A h \in Native : Expected(CreateSucceeded(facade, "main", h))
     /\ creating > 0 => \A r \in Reason : Expected(CreateFailed(facade, "main", r))
     /\ disposing > 0 => Expected(DisposeSucceeded(facade, "main"))

\* A live native surface is the one the facade holds, until a failed disposal is
\* reported as the failure of the facade: it is never lost in a race between native
\* creation and closing, and CLOSED means that there is none.  "native disposal is
\* requested at most once": one is in flight only for a CLOSING facade's live surface.
NoSurfaceIsLost ==
  /\ \A h \in live :
       \/ facade.handle = h /\ facade.state \in {"ACTIVE", "CLOSE_QUEUED", "CLOSING"}
       \/ facade.state = "FAILED" /\ facade.failure[1] = "DISPOSE"
  /\ disposing > 0 => disposing = 1 /\ facade.state = "CLOSING" /\ facade.handle \in live

\* "cancelled queued tasks cannot resurrect a closed facade", "callbacks are never
\* delivered after close has been requested": from a close request on any thread, no
\* native create call starts and nothing is delivered, whatever was queued before it.
\* Until then only a live surface's callbacks are, in increasing order.
NothingAfterClose ==
  [][/\ closing => creating' <= creating /\ UNCHANGED delivered
     /\ delivered' # delivered =>
          /\ facade.handle \in live
          /\ \A i \in DOMAIN delivered : delivered[i] < delivered'[Len(delivered')]]_vars

\* Closing ends: after a close request the facade reaches a terminal state, and
\* stays there.
ClosingTerminates == closing ~> [](facade.state \in {"CLOSED", "FAILED"})
=============================================================================
