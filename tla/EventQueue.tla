----------------------------- MODULE EventQueue -----------------------------
(***************************************************************************)
(* The way of an event from a session to Python (src/src/python/events.rs):*)
(* threads of the tokio runtime queue events, the one that flips           *)
(* `scheduled' schedules a drain on the captured asyncio loop, and the     *)
(* drain takes the whole queue and calls one callback per event.           *)
(*                                                                         *)
(* Abstracted: what an event says.  An event is its number, the callback   *)
(* it is for and, a ghost, the loop connect() was last called on.  The     *)
(* session has an event callback; without one schedule returns at once.    *)
(*                                                                         *)
(* The GIL is held from the attach to the call of call_soon_threadsafe,    *)
(* which is Python code and may hand it over.  set_progress_callback runs  *)
(* without it.                                                             *)
(***************************************************************************)
EXTENDS Integers, Sequences

CONSTANTS Threads,      \* tokio worker threads that report events
          Loops,        \* asyncio loops the program runs, one after another
          Callbacks,    \* progress callbacks given to run()
          Events,       \* the event callback
          None,         \* no loop, no callback
          MaxEvents     \* bound: events reported

ASSUME NamesAssumption == None \notin Loops \cup Callbacks \cup {Events} /\ Events \notin Callbacks
ASSUME BoundsAssumption == MaxEvents \in Nat

VARIABLES
    running, ended,                \* asyncio: the loop being run, the closed ones
    ready,                         \* the drainers call_soon_threadsafe has left on loop_
    loop_, progress_callback,      \* PyEvents
    pending, scheduled,            \* EventQueue
    pc, held,                      \* each thread, and the progress callback it has read
    drainer, batch,                \* take_and_deliver: its `progress', the events left to deliver
    caller, reported, delivered,   \* ghosts: connect()'s loop, events queued, callbacks called
    recent                         \* ghost: the progress callbacks since nothing was under way

loopVars == <<running, ended, ready>>
queueVars == <<pending, scheduled>>
drainVars == <<drainer, batch, delivered>>
vars == <<loopVars, loop_, progress_callback, queueVars, pc, held, drainVars, caller, reported, recent>>

Event == [id : Nat, to : Callbacks \cup {Events}, caller : Loops \cup {None}]

Init ==
    /\ running = None /\ ended = {} /\ ready = <<>>
    /\ loop_ = None /\ progress_callback = None
    /\ pending = <<>> /\ scheduled = FALSE
    /\ pc = [t \in Threads |-> "idle"] /\ held = [t \in Threads |-> None]
    /\ drainer = None /\ batch = <<>>
    /\ caller = None /\ reported = 0 /\ delivered = <<>> /\ recent = {None}

Goto(t, label) == pc' = [pc EXCEPT ![t] = label]
\* no thread is between its push and its read of the progress callback, in either order
GilFree == \A t \in Threads : pc[t] \notin {"progress", "session"}

(***************************************************************************)
(* The program's asyncio loops, and the calls made on them                 *)
(***************************************************************************)
StartLoop(l) ==
    /\ running = None /\ l \notin ended /\ GilFree /\ running' = l
    /\ UNCHANGED <<ended, ready, loop_, progress_callback, queueVars, pc, held, drainVars, caller, reported, recent>>

\* asyncio.run returns: what is scheduled on the loop is never called
EndLoop ==
    /\ running # None /\ batch = <<>> /\ GilFree
    /\ running' = None /\ ended' = ended \cup {running}
    /\ ready' = IF loop_ = running THEN <<>> ELSE ready
    /\ UNCHANGED <<loop_, progress_callback, queueVars, pc, held, drainVars, caller, reported, recent>>

capture_loop ==
    /\ running # None /\ GilFree
    /\ loop_' = IF loop_ = None THEN running ELSE loop_
    /\ caller' = running
    /\ UNCHANGED <<loopVars, progress_callback, queueVars, pc, held, drainVars, reported, recent>>

NothingUnderWay == batch = <<>> /\ pending = <<>>

set_progress_callback(cb) ==
    /\ progress_callback' = cb
    /\ recent' = IF NothingUnderWay THEN {cb} ELSE recent \cup {cb}
    /\ UNCHANGED <<loopVars, loop_, queueVars, pc, held, drainVars, caller, reported>>

(***************************************************************************)
(* schedule and schedule_progress, on a thread of the runtime              *)
(***************************************************************************)
\* The queue as push leaves it; the flag is the callers' part: who flips it schedules
push(to) ==
    /\ reported' = reported + 1
    /\ pending' = Append(pending, [id |-> reported + 1, to |-> to, caller |-> caller])
    /\ recent' = recent \cup ({to} \cap Callbacks)

\* mutant: without a loop, the flag stays set
schedule_no_unschedule(t) ==
    /\ pc[t] = "idle" /\ GilFree /\ reported < MaxEvents
    /\ push(Events) /\ scheduled' = TRUE
    /\ IF scheduled \/ loop_ = None THEN UNCHANGED pc ELSE Goto(t, "session")
    /\ UNCHANGED <<loopVars, loop_, progress_callback, held, drainVars, caller>>

schedule(t) ==
    /\ pc[t] = "idle" /\ GilFree /\ reported < MaxEvents
    /\ push(Events)
    /\ \/ scheduled /\ UNCHANGED <<scheduled, pc>>
       \/ ~scheduled /\ loop_ = None /\ UNCHANGED <<scheduled, pc>>    \* push, then unschedule
       \/ ~scheduled /\ loop_ # None /\ scheduled' = TRUE /\ Goto(t, "session")
    /\ UNCHANGED <<loopVars, loop_, progress_callback, held, drainVars, caller>>

\* The drain gets the progress callback there is now
ReadProgress(t) ==
    /\ pc[t] = "session"
    /\ held' = [held EXCEPT ![t] = progress_callback] /\ Goto(t, "call")
    /\ UNCHANGED <<loopVars, loop_, progress_callback, queueVars, drainVars, caller, reported, recent>>

\* Without a callback or a loop the report is dropped: no step
schedule_progress(t) ==
    /\ pc[t] = "idle" /\ GilFree /\ reported < MaxEvents
    /\ progress_callback # None /\ loop_ # None
    /\ held' = [held EXCEPT ![t] = progress_callback] /\ Goto(t, "progress")
    /\ UNCHANGED <<loopVars, loop_, progress_callback, queueVars, drainVars, caller, reported, recent>>

PushProgress(t) ==
    /\ pc[t] = "progress"
    /\ push(held[t])
    /\ scheduled' = TRUE /\ Goto(t, IF scheduled THEN "idle" ELSE "call")
    /\ UNCHANGED <<loopVars, loop_, progress_callback, held, drainVars, caller>>

CallSoon(t) ==
    /\ pc[t] = "call" /\ loop_ \notin ended
    /\ ready' = Append(ready, held[t]) /\ Goto(t, "idle")
    /\ UNCHANGED <<running, ended, loop_, progress_callback, queueVars, held, drainVars, caller, reported, recent>>

\* call_soon_threadsafe raises: the loop is closed
CallFails(t) ==
    /\ pc[t] = "call" /\ loop_ \in ended
    /\ Goto(t, "failed")
    /\ UNCHANGED <<loopVars, loop_, progress_callback, queueVars, held, drainVars, caller, reported, recent>>

unschedule(t) ==
    /\ pc[t] = "failed"
    /\ scheduled' = FALSE /\ Goto(t, "idle")
    /\ UNCHANGED <<loopVars, loop_, progress_callback, pending, held, drainVars, caller, reported, recent>>

(***************************************************************************)
(* The drain, on the loop's thread                                         *)
(***************************************************************************)
\* mutant: the events are copied, not taken
take_keeps_queue ==
    /\ running = loop_ /\ ready # <<>> /\ batch = <<>> /\ GilFree
    /\ drainer' = Head(ready) /\ ready' = Tail(ready)
    /\ batch' = pending /\ scheduled' = FALSE
    /\ UNCHANGED <<running, ended, loop_, progress_callback, pending, pc, held, caller, reported, delivered, recent>>

\* mutant: the scheduled flag is not cleared
take_keeps_flag ==
    /\ running = loop_ /\ ready # <<>> /\ batch = <<>> /\ GilFree
    /\ drainer' = Head(ready) /\ ready' = Tail(ready)
    /\ batch' = pending /\ pending' = <<>>
    /\ UNCHANGED <<running, ended, loop_, progress_callback, scheduled, pc, held, caller, reported, delivered, recent>>

\* mutant: every drain uses the progress callback of the first
take_keeps_callback ==
    /\ running = loop_ /\ ready # <<>> /\ batch = <<>> /\ GilFree
    /\ drainer' = (IF drainer = None THEN Head(ready) ELSE drainer) /\ ready' = Tail(ready)
    /\ batch' = pending /\ pending' = <<>> /\ scheduled' = FALSE
    /\ UNCHANGED <<running, ended, loop_, progress_callback, pc, held, caller, reported, delivered, recent>>

take ==
    /\ running = loop_ /\ ready # <<>> /\ batch = <<>> /\ GilFree
    /\ drainer' = Head(ready) /\ ready' = Tail(ready)
    /\ batch' = pending /\ pending' = <<>> /\ scheduled' = FALSE
    /\ UNCHANGED <<running, ended, loop_, progress_callback, pc, held, caller, reported, delivered, recent>>

\* got: the callback called with the event; None, none was
Deliver ==
    /\ batch # <<>> /\ GilFree
    /\ LET e == Head(batch)
       IN delivered' = Append(delivered, [id |-> e.id, to |-> e.to, got |-> IF e.to = Events THEN Events ELSE drainer])
    /\ batch' = Tail(batch)
    /\ recent' = IF Tail(batch) = <<>> /\ pending = <<>> THEN {progress_callback} ELSE recent
    /\ UNCHANGED <<loopVars, loop_, progress_callback, queueVars, pc, held, drainer, caller, reported>>

Next ==
    \/ \E l \in Loops : StartLoop(l)
    \/ EndLoop \/ capture_loop \/ take \/ Deliver
    \/ \E cb \in Callbacks \cup {None} : set_progress_callback(cb)
    \/ \E t \in Threads : schedule(t) \/ ReadProgress(t) \/ schedule_progress(t) \/ PushProgress(t) \/ CallSoon(t) \/ CallFails(t) \/ unschedule(t)

Spec == Init /\ [][Next]_vars

\* A thread inside a call goes on, and asyncio runs what is ready.
Fairness ==
    /\ \A t \in Threads : WF_vars(ReadProgress(t) \/ PushProgress(t) \/ CallSoon(t) \/ CallFails(t) \/ unschedule(t))
    /\ WF_vars(take) /\ WF_vars(Deliver)
FairSpec == Spec /\ Fairness
-----------------------------------------------------------------------------
\* Every variable of PyEvents, of its EventQueue and of the drain keeps its type.
TypeOK ==
    /\ running \in Loops \cup {None} /\ ended \subseteq Loops /\ loop_ \in Loops \cup {None}
    /\ ready \in Seq(Callbacks \cup {None}) /\ progress_callback \in Callbacks \cup {None}
    /\ pending \in Seq(Event) /\ scheduled \in BOOLEAN
    /\ pc \in [Threads -> {"idle", "progress", "session", "call", "failed"}]
    /\ held \in [Threads -> Callbacks \cup {None}]
    /\ \A t \in Threads : pc[t] = "progress" => held[t] # None
    /\ drainer \in Callbacks \cup {None} /\ batch \in Seq(Event)
    /\ caller \in Loops \cup {None} /\ reported \in Nat
    /\ recent \subseteq Callbacks \cup {None}
    /\ delivered \in Seq([id : Nat, to : Callbacks \cup {Events}, got : Callbacks \cup {Events, None}])

\* Events leave in the order in which they were queued, each of them once: what has been
\* delivered, what a drain still holds and what is queued are the events 1, 2, ... reported.
OnceInOrder ==
    /\ reported = Len(delivered) + Len(batch) + Len(pending)
    /\ \A n \in 1 .. Len(delivered) : delivered[n].id = n
    /\ \A n \in 1 .. Len(batch) : batch[n].id = Len(delivered) + n
    /\ \A n \in 1 .. Len(pending) : pending[n].id = Len(delivered) + Len(batch) + n

\* What the events say of themselves, without the ghosts
Labels(s) == [n \in 1 .. Len(s) |-> [id |-> s[n].id, to |-> s[n].to]]
\* under way: what the drain still holds, then what is queued
UnderWay(front, queued) == [n \in 1 .. Len(front) + Len(queued) |->
                               IF n <= Len(front) THEN Labels(front)[n] ELSE Labels(queued)[n - Len(front)]]
Stream == INSTANCE EventStream WITH count <- reported, queue <- UnderWay(batch, pending), out <- delivered,
                                    current <- progress_callback

\* The queue, the flag and the drains implement a first-in first-out stream with fresh callbacks:
\* every step of the threads and loops queues one event, sets the progress callback, or delivers
\* the oldest event: a session event to the event callback, a progress report to a callback from
\* since nothing was under way.  The drain that takes a report may carry the callback of the
\* event that scheduled it (EventDrainer), but never one of a run whose events are all delivered.
ImplementsStream == Stream!Spec

\* A drain is ready on the loop, or a thread is about to put it there.
DrainComing == ready # <<>> \/ \E t \in Threads : pc[t] \in {"session", "call"}

\* The queue never wedges: while the captured loop is not closed, an event queued since
\* connect() has a drain coming, whichever thread flipped the flag and whatever drain has
\* cleared it since.
NoStranded ==
    loop_ \notin ended /\ pending # <<>> /\ pending[Len(pending)].caller # None => DrainComing

\* An event queued after connect() reaches Python unless the captured loop is closed.
EventsArrive ==
    \A n \in 1 .. MaxEvents :
        (\E k \in DOMAIN pending : pending[k].id = n /\ pending[k].caller # None) ~> (Len(delivered) >= n \/ loop_ \in ended \/ running # loop_)

\* "Carries both callbacks so each queued event routes to its own callback no matter which
\* schedule call drained the batch" (events.rs:104-107).
RoutesToOwnCallback == \A n \in 1 .. Len(delivered) : delivered[n].got = delivered[n].to

\* "Implements SessionEvents by marshaling each event onto the caller's asyncio loop"
\* (events.rs:3-4): an event queued while connect()'s loop runs arrives, or that loop ends.
ReachesCallersLoop ==
    \A n \in 1 .. MaxEvents :
        (running # None /\ \E k \in DOMAIN pending : pending[k].id = n /\ pending[k].caller = running) ~> (Len(delivered) >= n \/ running = None)
=============================================================================
