---------------------------- MODULE EventStream ----------------------------
(***************************************************************************)
(* What PyEvents promises to the sessions (src/src/python/events.rs): the  *)
(* events that they report are delivered one by one, in the order of the   *)
(* reports and each once; a session event to the event callback, and a     *)
(* progress report to a callback that is not stale: one that was set, or   *)
(* that an event was reported for, since nothing was under way.  Threads,  *)
(* loops, drains and the scheduled flag are the business of EventQueue,    *)
(* which implements this specification.                                    *)
(***************************************************************************)
EXTENDS Integers, Sequences

CONSTANTS Callbacks,        \* progress callbacks
          Events,           \* the event callback
          None              \* no callback

VARIABLES count,            \* events reported
          queue, out,       \* events under way, and delivered
          current,          \* the progress callback
          recent            \* those set or reported for since nothing was under way

vars == <<count, queue, out, current, recent>>

Init == count = 0 /\ queue = <<>> /\ out = <<>> /\ current = None /\ recent = {None}

SetCallback(cb) ==
    /\ current' = cb
    /\ recent' = IF queue = <<>> THEN {cb} ELSE recent \cup {cb}
    /\ UNCHANGED <<count, queue, out>>

Report(to) ==
    /\ count' = count + 1
    /\ queue' = Append(queue, [id |-> count + 1, to |-> to])
    /\ recent' = recent \cup ({to} \cap Callbacks)
    /\ UNCHANGED <<out, current>>

\* got: the callback called with the event; None, none was
Deliver(got) ==
    /\ queue # <<>>
    /\ got \in IF Head(queue).to = Events THEN {Events} ELSE recent
    /\ out' = Append(out, [id |-> Head(queue).id, to |-> Head(queue).to, got |-> got])
    /\ queue' = Tail(queue)
    /\ recent' = IF Tail(queue) = <<>> THEN {current} ELSE recent
    /\ UNCHANGED <<count, current>>

Next ==
    \/ \E cb \in Callbacks \cup {None} : SetCallback(cb)
    \/ \E to \in Callbacks \cup {Events} : Report(to)
    \/ \E got \in Callbacks \cup {Events, None} : Deliver(got)

Spec == Init /\ [][Next]_vars
=============================================================================
