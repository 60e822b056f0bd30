----------------------- MODULE AndroidFacadeSystemProofs -----------------------
(***************************************************************************)
(* Proofs about the facade with its threads, main queue and native         *)
(* library, for any limit on Kotlin longs and any native handles.          *)
(***************************************************************************)
EXTENDS AndroidFacadeSystem, AndroidPartsProofs

\* A native surface exists (Held), the create runnable is still in the main queue
\* or was dropped (AwaitsDrain), or a native create is still to answer
\* (AwaitsNative): the state at the time of a worker's close counts while that close is queued.
Held(f) == f.state \in {"ACTIVE", "CLOSING"} \/ QueuedFrom(f, "ACTIVE")
AwaitsDrain(f) == f.state \in {"CREATE_QUEUED", "CLOSED"} \/ QueuedFrom(f, "CREATE_QUEUED")
AwaitsNative(f) == f.state \in {"CREATING", "CLOSE_PENDING_CREATE"} \/ QueuedFrom(f, "CREATING")

\* What is under way tells the state of the facade, and the facade's state what is alive.
FacadeInv ==
  /\ Sound(facade) /\ facade.handle \in Native \cup {NoHandle}
  /\ posted \in [create : {0, 1}, close : {0, 1}]
  /\ creating \in {0, 1} /\ disposing \in {0, 1}
  /\ live \subseteq Native
  /\ closing \in BOOLEAN
  /\ delivered \in Seq(1..MaxLong)
  /\ \A i \in 1..Len(delivered) : delivered[i] <= facade.last_sequence
  /\ posted.create > 0 => AwaitsDrain(facade)
  /\ posted.close > 0 => facade.state \in {"CLOSE_QUEUED", "CLOSING", "CLOSED", "FAILED"}
  /\ creating > 0 => AwaitsNative(facade)
  /\ disposing > 0 => facade.state = "CLOSING"
  /\ Held(facade) => facade.handle \in live
  /\ \A h \in live : \/ Held(facade) /\ facade.handle = h
                     \/ facade.state = "FAILED" /\ facade.failure[1] = "DISPOSE"
  /\ closing => ~Open(facade)

-----------------------------------------------------------------------------

LEMMA InitInv == Init => FacadeInv
<1> SUFFICES ASSUME Init PROVE FacadeInv
  OBVIOUS
<1>1. Sound(facade)
  BY NewFacadeSound DEF Init
<1>2. facade.state = "NEW" /\ facade.handle = NoHandle
  BY DEF Init, NewFacade
<1>3. ~Held(facade)
  BY <1>2 DEF Held, QueuedFrom
<1>4. posted \in [create : {0, 1}, close : {0, 1}] /\ posted.create = 0 /\ posted.close = 0
  BY DEF Init, Nothing
<1>5. delivered \in Seq(1..MaxLong) /\ Len(delivered) = 0
  BY DEF Init
<1>6. creating = 0 /\ disposing = 0 /\ live = {}
  BY DEF Init
<1>7. closing \in BOOLEAN /\ ~closing
  BY DEF Init
<1>8. \A i \in 1..Len(delivered) : delivered[i] <= facade.last_sequence
  BY <1>5
<1>9. QED
  BY <1>1, <1>2, <1>3, <1>4, <1>5, <1>6, <1>7, <1>8 DEF FacadeInv

LEMMA AppCreatesInv ==
  ASSUME FacadeInv, NEW thread \in Thread, AppCreates(thread)
  PROVE  FacadeInv'
<1>1. Sound(facade')
  BY RequestCreateSound DEF FacadeInv, AppCreates, CarryOut
<1>2. QED
  BY <1>1 DEF FacadeInv, AppCreates, CarryOut, RequestCreate, Invalid, Moved, Answer,
     PostedAfter, Calls,
     Held, AwaitsDrain, AwaitsNative, Open, QueuedFrom, Thread

LEMMA AppClosesInv ==
  ASSUME FacadeInv, NEW thread \in Thread, AppCloses(thread)
  PROVE  FacadeInv'
<1>1. Sound(facade')
  BY RequestCloseSound DEF FacadeInv, AppCloses, CarryOut
<1>2. CASE RequestClose(facade, thread) = Answer(facade, "NONE") /\ ~Open(facade)
  BY <1>1, <1>2 DEF FacadeInv, AppCloses, CarryOut, Answer, PostedAfter, Calls
<1>3. CASE thread = "worker" /\ Open(facade)
  <2>1. /\ facade' = [facade EXCEPT !.state = "CLOSE_QUEUED", !.queued_from = facade.state]
        /\ effect' = "POST_CLOSE_TO_MAIN"
        /\ posted' = [create |-> posted.create, close |-> posted.close + 1]
        /\ UNCHANGED <<creating, disposing, delivered, live>> /\ closing' = TRUE
    BY <1>3 DEF FacadeInv, AppCloses, CarryOut, RequestClose, CloseFromWorker, Answer,
       PostedAfter, Calls, Open
  <2>2. /\ facade'.state = "CLOSE_QUEUED" /\ facade'.queued_from = facade.state
        /\ facade'.handle = facade.handle /\ facade'.failure = facade.failure
        /\ facade'.last_sequence = facade.last_sequence
    BY <2>1 DEF FacadeInv, Sound, FacadeRecord
  <2>3. posted.close = 0
    BY <1>3 DEF FacadeInv, Open
  <2>4. QED
    BY <1>1, <1>3, <2>1, <2>2, <2>3 DEF FacadeInv, Held, AwaitsDrain, AwaitsNative, Open,
       QueuedFrom
<1>4. CASE thread = "main" /\ Open(facade)
  BY <1>1, <1>4 DEF FacadeInv, AppCloses, CarryOut, RequestClose, CloseOnMain, Moved, Answer,
     PostedAfter, Calls,
     Held, AwaitsDrain, AwaitsNative, Open, QueuedFrom, Sound, FacadeRecord
<1>5. QED
  BY <1>2, <1>3, <1>4 DEF RequestClose, CloseFromWorker, Thread, Open, Answer

LEMMA QueueDrainsCreateInv ==
  ASSUME FacadeInv, NEW thread \in Thread, QueueDrainsCreate(thread)
  PROVE  FacadeInv'
<1>1. Sound(facade')
  BY DrainCreateSound DEF FacadeInv, QueueDrainsCreate, CarryOut
<1>2. CASE thread # "main"
  BY <1>1, <1>2 DEF FacadeInv, QueueDrainsCreate, DrainCreate, OnMain, CarryOut, Answer,
     PostedAfter, Calls, Taken
<1>3. CASE thread = "main"
  BY <1>1, <1>3 DEF FacadeInv, QueueDrainsCreate, CarryOut, DrainCreate, OnMain, Taken, Moved,
     Answer, PostedAfter, Calls,
     Held, AwaitsDrain, AwaitsNative, Open, QueuedFrom, Sound, FacadeRecord
<1>4. QED
  BY <1>2, <1>3

\* An event that does not arrive on the main thread is refused, and stays pending.
LEMMA RefusedInv ==
  ASSUME FacadeInv, UNCHANGED <<facade, posted, creating, disposing, live, closing, delivered>>
  PROVE  FacadeInv'
  BY DEF FacadeInv

LEMMA QueueDrainsCloseInv ==
  ASSUME FacadeInv, NEW thread \in Thread, QueueDrainsClose(thread)
  PROVE  FacadeInv'
<1>1. Sound(facade')
  BY DrainCloseSound DEF FacadeInv, QueueDrainsClose, CarryOut
<1>2. CASE thread # "main"
  BY <1>1, <1>2 DEF FacadeInv, QueueDrainsClose, DrainClose, OnMain, CarryOut, Answer,
     PostedAfter, Calls, Taken
<1>3. CASE thread = "main"
  BY <1>1, <1>3 DEF FacadeInv, QueueDrainsClose, CarryOut, DrainClose, OnMain, CloseOnMain,
     Taken, Moved, Answer, PostedAfter, Calls,
     Held, AwaitsDrain, AwaitsNative, Open, QueuedFrom, Sound, FacadeRecord, ValidFacade
<1>4. QED
  BY <1>2, <1>3

LEMMA NativeCreatedInv ==
  ASSUME FacadeInv, NEW thread \in Thread, NEW h \in Native, NativeCreated(thread, h)
  PROVE  FacadeInv'
<1>0. h \in [surface_id : Int, generation : Int] /\ ValidHandle(h)
  BY NativeAssumption, LongAssumption DEF ValidHandle
<1>1. Sound(facade')
  BY <1>0, CreateSucceededSound DEF FacadeInv, NativeCreated, CarryOut
<1>2. CASE thread # "main"
  BY <1>1, <1>2 DEF FacadeInv, NativeCreated, CreateSucceeded, OnMain, CarryOut, Answer,
     PostedAfter, Calls, Taken
<1>3. CASE thread = "main"
  BY <1>0, <1>1, <1>3 DEF FacadeInv, NativeCreated, CarryOut, CreateSucceeded, OnMain, Taken,
     Moved, Answer, PostedAfter, Calls,
     Held, AwaitsDrain, AwaitsNative, Open, QueuedFrom, Sound, FacadeRecord
<1>4. QED
  BY <1>2, <1>3

LEMMA NativeCreateFailsInv ==
  ASSUME FacadeInv, NEW thread \in Thread, NEW reason \in Reason, NativeCreateFails(thread, reason)
  PROVE  FacadeInv'
<1>1. Sound(facade')
  BY CreateFailedSound DEF FacadeInv, NativeCreateFails, CarryOut
<1>2. CASE thread # "main"
  BY <1>1, <1>2 DEF FacadeInv, NativeCreateFails, CreateFailed, OnMain, CarryOut, Answer,
     PostedAfter, Calls, Taken
<1>3. CASE thread = "main"
  BY <1>1, <1>3 DEF FacadeInv, NativeCreateFails, CarryOut, CreateFailed, OnMain, Taken, Moved,
     Answer, PostedAfter, Calls,
     Held, AwaitsDrain, AwaitsNative, Open, QueuedFrom, Sound, FacadeRecord
<1>4. QED
  BY <1>2, <1>3

LEMMA NativeDisposedInv ==
  ASSUME FacadeInv, NEW thread \in Thread, NativeDisposed(thread)
  PROVE  FacadeInv'
<1>1. Sound(facade')
  BY DisposeSucceededSound DEF FacadeInv, NativeDisposed, CarryOut
<1>2. CASE thread # "main"
  BY <1>1, <1>2 DEF FacadeInv, NativeDisposed, DisposeSucceeded, OnMain, CarryOut, Answer,
     PostedAfter, Calls, Taken
<1>3. CASE thread = "main"
  BY <1>1, <1>3 DEF FacadeInv, NativeDisposed, CarryOut, DisposeSucceeded, OnMain, Taken, Moved,
     Answer, PostedAfter, Calls,
     Held, AwaitsDrain, AwaitsNative, Open, QueuedFrom, Sound, FacadeRecord
<1>4. QED
  BY <1>2, <1>3

LEMMA NativeDisposeFailsInv ==
  ASSUME FacadeInv, NEW thread \in Thread, NEW reason \in Reason, NativeDisposeFails(thread, reason)
  PROVE  FacadeInv'
<1>1. Sound(facade')
  BY DisposeFailedSound DEF FacadeInv, NativeDisposeFails, CarryOut
<1>2. CASE thread # "main"
  BY <1>1, <1>2 DEF FacadeInv, NativeDisposeFails, DisposeFailed, OnMain, CarryOut, Answer,
     PostedAfter, Calls, Taken
<1>3. CASE thread = "main"
  BY <1>1, <1>3 DEF FacadeInv, NativeDisposeFails, CarryOut, DisposeFailed, OnMain, Taken,
     Moved, Answer, PostedAfter, Calls,
     Held, AwaitsDrain, AwaitsNative, Open, QueuedFrom, Sound, FacadeRecord
<1>4. QED
  BY <1>2, <1>3

LEMMA NativeCallbackInv ==
  ASSUME FacadeInv, NEW thread \in Thread, NEW h \in Native \cup {NoHandle},
         NEW sequence \in 0..MaxLong + 1, NativeCallback(thread, h, sequence)
  PROVE  FacadeInv'
<1> DEFINE answer == Callback(facade, thread, h, sequence)
<1>1. Sound(facade')
  BY CallbackSound DEF FacadeInv, NativeCallback, CarryOut
<1>2. CASE answer.effect # "DELIVER_CALLBACK"
  BY <1>1, <1>2 DEF FacadeInv, NativeCallback, Callback, OnMain, CarryOut, Answer, PostedAfter,
     Calls
<1>3. CASE answer.effect = "DELIVER_CALLBACK"
  BY <1>1, <1>3, LongAssumption DEF FacadeInv, NativeCallback, CarryOut, Callback, OnMain,
     Answer, PostedAfter, Calls,
     Held, AwaitsDrain, AwaitsNative, Open, QueuedFrom, Sound, FacadeRecord
<1>4. QED
  BY <1>2, <1>3

LEMMA NextInv == FacadeInv /\ [Next]_vars => FacadeInv'
<1> SUFFICES ASSUME FacadeInv, [Next]_vars PROVE FacadeInv'
  OBVIOUS
<1>1. CASE UNCHANGED vars
  BY <1>1, RefusedInv DEF vars
<1>2. CASE Next
  BY <1>2, AppCreatesInv, AppClosesInv, QueueDrainsCreateInv, QueueDrainsCloseInv,
     NativeCreatedInv, NativeCreateFailsInv, NativeDisposedInv, NativeDisposeFailsInv,
     NativeCallbackInv DEF Next
<1>3. QED
  BY <1>1, <1>2

\* The inductive invariant holds in every reachable state of the facade system.
THEOREM FacadeInvariant == Spec => []FacadeInv
  BY InitInv, NextInv, PTL DEF Spec

\* The facade always satisfies validate_state of android_facade_invariants.py, whatever
\* threads, tasks and native results reach it.
THEOREM FacadeStaysValid == Spec => []TypeOK
<1>1. FacadeInv => TypeOK
  BY DEF FacadeInv, TypeOK, Sound
<1>2. QED
  BY <1>1, FacadeInvariant, PTL

\* No posted task and no native result that is due finds the facade of
\* android_facade_model.py in a state that answers INVALID_TRANSITION.
THEOREM DueEventsExpected == Spec => []DueEventsAreExpected
<1>1. FacadeInv => DueEventsAreExpected
  <2> SUFFICES ASSUME FacadeInv PROVE DueEventsAreExpected
    OBVIOUS
  <2>1. posted.create > 0 => DrainCreate(facade, "main").effect # "INVALID_TRANSITION"
    BY DEF FacadeInv, AwaitsDrain, DrainCreate, OnMain, Moved, Answer
  <2>2. posted.close > 0 => DrainClose(facade, "main").effect # "INVALID_TRANSITION"
    BY DEF FacadeInv, Sound, ValidFacade, DrainClose, OnMain, CloseOnMain, Moved, Answer
  <2>3. ASSUME creating > 0, NEW h \in Native
        PROVE  CreateSucceeded(facade, "main", h).effect # "INVALID_TRANSITION"
    <3>1. ValidHandle(h)
      BY NativeAssumption, LongAssumption DEF ValidHandle
    <3>2. QED
      BY <2>3, <3>1 DEF FacadeInv, AwaitsNative, CreateSucceeded, OnMain, Moved, Answer
  <2>4. ASSUME creating > 0, NEW r \in Reason
        PROVE  CreateFailed(facade, "main", r).effect # "INVALID_TRANSITION"
    BY <2>4 DEF FacadeInv, AwaitsNative, CreateFailed, OnMain, Moved, Answer
  <2>5. disposing > 0 => DisposeSucceeded(facade, "main").effect # "INVALID_TRANSITION"
    BY DEF FacadeInv, DisposeSucceeded, OnMain, Moved, Answer
  <2>6. QED
    BY <2>1, <2>2, <2>3, <2>4, <2>5 DEF DueEventsAreExpected
<1>2. QED
  BY <1>1, FacadeInvariant, PTL

\* A native surface is never lost in a race of its creation with a close, and is disposed
\* of once.
THEOREM NoSurfaceLost == Spec => []NoSurfaceIsLost
<1>1. FacadeInv => NoSurfaceIsLost
  BY DEF FacadeInv, NoSurfaceIsLost, Held, QueuedFrom
<1>2. QED
  BY <1>1, FacadeInvariant, PTL

-----------------------------------------------------------------------------
(* What a step may not do. *)

\* A quiet answer starts no native creation and delivers nothing.
LEMMA QuietAnswer ==
  ASSUME NEW answer, NEW left, NEW creates \in Int, NEW disposes, CarryOut(answer, left, creates, disposes)
  PROVE  /\ answer.effect # "CALL_NATIVE_CREATE" => creating' = creates
         /\ answer.effect # "DELIVER_CALLBACK" => delivered' = delivered
  BY DEF CarryOut, Calls

\* What a step may add: a native creation while the facade is open, or the delivery of a
\* later callback while it is active.
Unmoved == creating' <= creating /\ UNCHANGED delivered
Creates == Open(facade) /\ UNCHANGED delivered
Delivers ==
  /\ facade.state = "ACTIVE"
  /\ \E sequence \in 0..MaxLong + 1 :
       sequence > facade.last_sequence /\ delivered' = delivered \o <<sequence>>

LEMMA StepAdds ==
  ASSUME FacadeInv, [Next]_vars
  PROVE  Unmoved \/ Creates \/ Delivers
<1>1. /\ Sound(facade) /\ creating \in Int
      /\ \A thread \in Thread : Taken(thread, creating) \in Int /\ Taken(thread, creating) <= creating
  BY DEF FacadeInv, Taken
<1>2. CASE UNCHANGED vars
  BY <1>1, <1>2 DEF vars, Unmoved
<1>3. ASSUME NEW answer, NEW left, NEW creates \in Int, NEW disposes,
             CarryOut(answer, left, creates, disposes), creates <= creating, Quiet(answer.effect)
      PROVE  Unmoved
  BY <1>3, QuietAnswer DEF Quiet, Unmoved
<1>4. ASSUME NEW answer, NEW left, NEW creates \in Int, NEW disposes,
             CarryOut(answer, left, creates, disposes), creates <= creating,
             ~Quiet(answer.effect) => Open(facade) /\ answer.effect # "DELIVER_CALLBACK"
      PROVE  Unmoved \/ Creates
  BY <1>4, QuietAnswer DEF Quiet, Unmoved, Creates
<1>5. ASSUME NEW thread \in Thread, AppCreates(thread) PROVE Unmoved \/ Creates
  BY <1>1, <1>4, <1>5, CreationEffects DEF AppCreates
<1>6. ASSUME NEW thread \in Thread, QueueDrainsCreate(thread) PROVE Unmoved \/ Creates
  BY <1>1, <1>4, <1>6, CreationEffects DEF QueueDrainsCreate
<1>7. ASSUME NEW thread \in Thread, AppCloses(thread) PROVE Unmoved
  BY <1>1, <1>3, <1>7, ClosingEffects DEF AppCloses
<1>8. ASSUME NEW thread \in Thread, QueueDrainsClose(thread) PROVE Unmoved
  BY <1>1, <1>3, <1>8, ClosingEffects DEF QueueDrainsClose
<1>9. ASSUME NEW thread \in Thread, NEW h \in Native, NativeCreated(thread, h) PROVE Unmoved
  BY <1>1, <1>3, <1>9, NativeEffects DEF NativeCreated
<1>10. ASSUME NEW thread \in Thread, NEW reason \in Reason, NativeCreateFails(thread, reason)
       PROVE  Unmoved
  BY <1>1, <1>3, <1>10, NativeEffects DEF NativeCreateFails
<1>11. ASSUME NEW thread \in Thread, NativeDisposed(thread) PROVE Unmoved
  BY <1>1, <1>3, <1>11, NativeEffects DEF NativeDisposed
<1>12. ASSUME NEW thread \in Thread, NEW reason \in Reason, NativeDisposeFails(thread, reason)
       PROVE  Unmoved
  <2>1. Quiet(DisposeFailed(facade, thread, reason).effect)
    BY NativeEffects
  <2>2. QED
    BY <1>1, <1>3, <1>12, <2>1 DEF NativeDisposeFails
<1>13. ASSUME NEW thread \in Thread, NEW h \in Native \cup {NoHandle},
              NEW sequence \in 0..MaxLong + 1, NativeCallback(thread, h, sequence)
       PROVE  Unmoved \/ Delivers
  <2> DEFINE answer == Callback(facade, thread, h, sequence)
  <2>1. CarryOut(answer, posted, creating, disposing)
    BY <1>13 DEF NativeCallback
  <2>2. CASE Quiet(answer.effect)
    <3> HIDE DEF answer
    <3>1. QED
      BY <1>1, <1>3, <2>1, <2>2
  <2>3. CASE ~Quiet(answer.effect)
    <3>1. /\ answer.effect = "DELIVER_CALLBACK"
          /\ facade.state = "ACTIVE" /\ sequence > facade.last_sequence
          /\ answer.facade = [facade EXCEPT !.last_sequence = sequence]
      BY <2>3, CallbackEffects
    <3>2. answer.facade.last_sequence = sequence
      BY <1>1, <3>1 DEF Sound, FacadeRecord
    <3>3. delivered' = delivered \o <<sequence>>
      BY <2>1, <3>1, <3>2 DEF CarryOut
    <3>4. QED
      BY <3>1, <3>3 DEF Delivers
  <2>4. QED
    BY <2>2, <2>3
<1>14. QED
  BY <1>2, <1>5, <1>6, <1>7, <1>8, <1>9, <1>10, <1>11, <1>12, <1>13 DEF Next

\* Closing is final for creation and delivery, and until then only a live surface's
\* callbacks are delivered, in order.
THEOREM ClosedStaysQuiet == Spec => NothingAfterClose
<1>1. ASSUME FacadeInv, [Next]_vars
      PROVE  /\ closing => creating' <= creating /\ UNCHANGED delivered
             /\ delivered' # delivered =>
                  /\ facade.handle \in live
                  /\ \A i \in DOMAIN delivered : delivered[i] < delivered'[Len(delivered')]
  <2>1. closing => ~Open(facade)
    BY <1>1 DEF FacadeInv
  <2>2. CASE Unmoved
    BY <2>2 DEF Unmoved
  <2>3. CASE Creates
    BY <2>1, <2>3 DEF Creates
  <2>4. CASE Delivers
    <3>1. PICK sequence \in 0..MaxLong + 1 :
            sequence > facade.last_sequence /\ delivered' = delivered \o <<sequence>>
      BY <2>4 DEF Delivers
    <3>2. Open(facade) /\ facade.handle \in live
      BY <1>1, <2>4 DEF Delivers, Open, FacadeInv, Held
    <3>3. delivered \in Seq(Int) /\ \A i \in 1..Len(delivered) : delivered[i] <= facade.last_sequence
      BY <1>1, LongAssumption DEF FacadeInv
    <3>4. DOMAIN delivered = 1..Len(delivered) /\ delivered'[Len(delivered')] = sequence
      BY <3>1, <3>3, LongAssumption
    <3>5. facade.last_sequence \in Int
      BY <1>1 DEF FacadeInv, Sound, FacadeRecord
    <3>6. \A i \in 1..Len(delivered) : delivered[i] < sequence
      BY <3>1, <3>3, <3>5, LongAssumption
    <3>7. QED
      BY <2>1, <3>2, <3>4, <3>6
  <2>5. QED
    BY <1>1, <2>2, <2>3, <2>4, StepAdds
<1>2. QED
  BY <1>1, FacadeInvariant, PTL DEF Spec, NothingAfterClose
=============================================================================
