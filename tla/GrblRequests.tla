---------------------------- MODULE GrblRequests ----------------------------
(***************************************************************************)
(* The single commands of the GRBL session (src/src/grbl/session.rs): the  *)
(* calls of execute_command, which go through a channel to the command     *)
(* loop, the calls of execute_interactive_command, which wait for the      *)
(* pending queue to drain, and the answers, which handle_ok gives to the   *)
(* interactive request or else to the current one, whatever they answer.   *)
(* A job's lines, cancel() and the tool-off commands share the link.       *)
(* connect() and cleanup() abort the tasks of the session, and with them   *)
(* what the command loop and the connection loop (its $I) are doing.       *)
(*                                                                         *)
(* A command is named after the call that makes it.  finished_by is a      *)
(* ghost: whose answer, or what else, finished a request.                  *)
(*                                                                         *)
(* Abstracted: text and response lines; buffer space, and the wake-ups of  *)
(* wait_pending_empty (module FlowControl); the streaming task, of which   *)
(* which only the flag job_running is kept (module GrblJob); how the       *)
(* connection loop opens the link (module GrblConnection).                 *)
(***************************************************************************)
EXTENDS Integers, Sequences, SequencesExt

CONSTANTS Queued,        \* calls of execute_command
          Interactive,   \* calls of execute_interactive_command
          Loop,          \* command_queue_loop, as holder of cmd_lock
          Line, Safety,  \* a line of the job; a tool-off command
          None,          \* no request, lock free, not finished
          Cancelled, Dropped, TimedOut,    \* what finishes a request without an answer
          MaxOthers,                       \* bound: lines of jobs and calls of cancel()
          Faults         \* what may go wrong: "timeout", "link", "abort" (connect(), cleanup())

Requests == Queued \cup Interactive
Endings == {Cancelled, Dropped, TimedOut}

ASSUME NamesAssumption == /\ Queued \cap Interactive = {} /\ Loop # None
                          /\ ({Loop, Line, Safety, None} \cup Endings) \cap Requests = {}
                          /\ {Line, Safety, None} \cap Endings = {}
ASSUME BoundsAssumption == MaxOthers \in Nat /\ Faults \subseteq {"timeout", "link", "abort"}

VARIABLES
    is_cancelled, job_running, cmd_lock,     \* SessionCore
    interactive_request, current_request,    \* SessionCore
    channel, queued_requests,                \* cmd_tx's messages; the requests cancel() finishes
    finished_by, pc,                         \* each request, the call that made it
    loop_pc,                                 \* command_queue_loop
    open,                                    \* transport.is_open()
    pending, wire, parsed,                   \* counted; not yet answered; answers not yet handled
    cancel_pc, lines, cancels,               \* cancel(); counters of the bounds
    disorder                                 \* ghost: steps after which answers may be out of step

slots == <<interactive_request, current_request>>
queue == <<channel, queued_requests>>
traffic == <<pending, wire, parsed>>
bounds == <<lines, cancels>>
vars == <<is_cancelled, job_running, cmd_lock, slots, queue, finished_by, pc, loop_pc, open, traffic, cancel_pc, bounds, disorder>>

Init ==
    /\ is_cancelled = FALSE /\ job_running = FALSE /\ cmd_lock = None
    /\ interactive_request = None /\ current_request = None
    /\ channel = <<>> /\ queued_requests = {}
    /\ finished_by = [r \in Requests |-> None] /\ pc = [r \in Requests |-> "idle"]
    /\ loop_pc = "recv" /\ open = TRUE
    /\ pending = <<>> /\ wire = <<>> /\ parsed = <<>>
    /\ cancel_pc = "idle" /\ lines = 0 /\ cancels = 0 /\ disorder = {}

Goto(r, label) == pc' = [pc EXCEPT ![r] = label]
Finish(r, how) == finished_by' = [finished_by EXCEPT ![r] = IF @ = None THEN how ELSE @]
\* send_command_bytes, send_gcode_simple: the command is counted and written
Send(c) == pending' = Append(pending, c) /\ wire' = Append(wire, c) /\ UNCHANGED parsed
\* answers on their way that go to the current request
Underway == \E c \in ToSet(wire) \cup ToSet(parsed) : c \notin Interactive
\* "other": a timeout, a cancel(), a reset of pending commands, a link opened again
Disorder(what, when) == disorder' = IF when THEN disorder \cup {what} ELSE disorder

(***************************************************************************)
(* execute_command and command_queue_loop                                  *)
(***************************************************************************)
\* after cleanup() the channel has no receiver, and the call fails at once
execute_command(q) ==
    /\ pc[q] = "idle"
    /\ is_cancelled' = (is_cancelled /\ job_running)
    /\ IF loop_pc = "gone"
       THEN Goto(q, "done") /\ UNCHANGED queue
       ELSE Goto(q, "wait") /\ queued_requests' = queued_requests \cup {q} /\ channel' = Append(channel, q)
    /\ UNCHANGED <<job_running, cmd_lock, slots, finished_by, loop_pc, open, traffic, cancel_pc, bounds, disorder>>

Return(q) ==
    /\ q \in Queued /\ pc[q] = "wait" /\ finished_by[q] # None
    /\ Goto(q, "done")
    /\ UNCHANGED <<is_cancelled, job_running, cmd_lock, slots, queue, finished_by, loop_pc, open, traffic, cancel_pc, bounds, disorder>>


\* command_timeout: the request is finished, which lets go of the command loop
QueuedTimeout(q) ==
    /\ pc[q] = "wait" /\ finished_by[q] = None
    /\ "timeout" \in Faults \/ ~open \/ disorder # {}
    /\ Finish(q, TimedOut) /\ Goto(q, "done") /\ Disorder("other", TRUE)
    /\ UNCHANGED <<is_cancelled, job_running, cmd_lock, slots, queue, loop_pc, open, traffic, cancel_pc, bounds>>

\* the request becomes the current one before the loop has cmd_lock, or it is dropped
LoopTake ==
    /\ loop_pc = "recv" /\ channel # <<>>
    /\ channel' = Tail(channel) /\ queued_requests' = queued_requests \ {Head(channel)}
    /\ IF ~open \/ is_cancelled
       THEN Finish(Head(channel), Dropped) /\ UNCHANGED <<current_request, loop_pc, disorder>>
       ELSE /\ current_request' = Head(channel) /\ loop_pc' = "lock"
            /\ Disorder("early", Underway) /\ UNCHANGED finished_by
    /\ UNCHANGED <<is_cancelled, job_running, cmd_lock, interactive_request, pc, open, traffic, cancel_pc, bounds>>

LoopLock ==
    /\ loop_pc = "lock" /\ cmd_lock = None
    /\ cmd_lock' = Loop /\ loop_pc' = "send"
    /\ UNCHANGED <<is_cancelled, job_running, slots, queue, finished_by, pc, open, traffic, cancel_pc, bounds, disorder>>

\* a failed send leaves the request to its timeout
LoopSend ==
    /\ loop_pc = "send"
    /\ cmd_lock' = None
    /\ IF open THEN Send(current_request) /\ loop_pc' = "wait"
               ELSE UNCHANGED traffic /\ loop_pc' = "clear"
    /\ UNCHANGED <<is_cancelled, job_running, slots, queue, finished_by, pc, open, cancel_pc, bounds, disorder>>

LoopWait ==
    /\ loop_pc = "wait" /\ finished_by[current_request] # None
    /\ loop_pc' = "clear"
    /\ UNCHANGED <<is_cancelled, job_running, cmd_lock, slots, queue, finished_by, pc, open, traffic, cancel_pc, bounds, disorder>>

LoopClear ==
    /\ loop_pc = "clear"
    /\ current_request' = None /\ loop_pc' = "recv"
    /\ UNCHANGED <<is_cancelled, job_running, cmd_lock, interactive_request, queue, finished_by, pc, open, traffic, cancel_pc, bounds, disorder>>

(***************************************************************************)
(* execute_interactive_command                                             *)
(***************************************************************************)
Ask(i) ==
    /\ pc[i] = "idle"
    /\ Goto(i, IF open THEN "lock" ELSE "done")
    /\ UNCHANGED <<is_cancelled, job_running, cmd_lock, slots, queue, finished_by, loop_pc, open, traffic, cancel_pc, bounds, disorder>>

Lock(i) ==
    /\ i \in Interactive /\ pc[i] = "lock" /\ cmd_lock = None
    /\ cmd_lock' = i /\ Goto(i, "drain")
    /\ UNCHANGED <<is_cancelled, job_running, slots, queue, finished_by, loop_pc, open, traffic, cancel_pc, bounds, disorder>>

\* mutant: no wait for the pending queue
Drain_skipped(i) ==
    /\ pc[i] = "drain"
    /\ Goto(i, "publish")
    /\ UNCHANGED <<is_cancelled, job_running, cmd_lock, slots, queue, finished_by, loop_pc, open, traffic, cancel_pc, bounds, disorder>>

\* wait_pending_empty(None)
Drain(i) ==
    /\ pc[i] = "drain" /\ pending = <<>>
    /\ Goto(i, "publish")
    /\ UNCHANGED <<is_cancelled, job_running, cmd_lock, slots, queue, finished_by, loop_pc, open, traffic, cancel_pc, bounds, disorder>>

\* an answer that was counted off but not handled yet is still to come
Publish(i) ==
    /\ pc[i] = "publish"
    /\ interactive_request' = i /\ Goto(i, "send")
    /\ Disorder("unhandled", parsed # <<>>)
    /\ UNCHANGED <<is_cancelled, job_running, cmd_lock, current_request, queue, finished_by, loop_pc, open, traffic, cancel_pc, bounds>>

AskSend(i) ==
    /\ pc[i] = "send"
    /\ IF open THEN Send(i) /\ Goto(i, "await") ELSE UNCHANGED traffic /\ Goto(i, "leave")
    /\ UNCHANGED <<is_cancelled, job_running, cmd_lock, slots, queue, finished_by, loop_pc, open, cancel_pc, bounds, disorder>>

\* request.finished, or command_timeout
AskWait(i) ==
    /\ pc[i] = "await"
    /\ finished_by[i] # None \/ "timeout" \in Faults \/ ~open \/ disorder # {}
    /\ Disorder("other", finished_by[i] = None)
    /\ Goto(i, "leave")
    /\ UNCHANGED <<is_cancelled, job_running, cmd_lock, slots, queue, finished_by, loop_pc, open, traffic, cancel_pc, bounds>>

\* mutant: an early return skips the reset of the slot
Leave_keeps_slot(i) ==
    /\ pc[i] = "leave"
    /\ interactive_request' = IF finished_by[i] = None THEN i ELSE None
    /\ cmd_lock' = None /\ Goto(i, "done")
    /\ UNCHANGED <<is_cancelled, job_running, current_request, queue, finished_by, loop_pc, open, traffic, cancel_pc, bounds, disorder>>

\* the slot is cleared on every path, then the guard is dropped
Leave(i) ==
    /\ pc[i] = "leave"
    /\ interactive_request' = None /\ cmd_lock' = None /\ Goto(i, "done")
    /\ UNCHANGED <<is_cancelled, job_running, current_request, queue, finished_by, loop_pc, open, traffic, cancel_pc, bounds, disorder>>

(***************************************************************************)
(* handle_rx: the acknowledgements of a chunk are counted off the pending  *)
(* queue, then handled one after the other.                                *)
(***************************************************************************)
parse_incoming ==
    /\ parsed = <<>> /\ open
    /\ \E n \in 1 .. Len(wire) :
        /\ parsed' = SubSeq(wire, 1, n) /\ wire' = SubSeq(wire, n + 1, Len(wire))
        /\ pending' = SubSeq(pending, n + 1, Len(pending))
    /\ UNCHANGED <<is_cancelled, job_running, cmd_lock, slots, queue, finished_by, pc, loop_pc, open, cancel_pc, bounds, disorder>>

\* handle_ok, handle_error: the interactive request comes before the current one
handle_ok ==
    /\ parsed # <<>>
    /\ parsed' = Tail(parsed)
    /\ LET request == IF interactive_request # None THEN interactive_request ELSE current_request
       IN IF request # None THEN Finish(request, Head(parsed)) ELSE UNCHANGED finished_by
    /\ UNCHANGED <<is_cancelled, job_running, cmd_lock, slots, queue, pc, loop_pc, open, pending, wire, cancel_pc, bounds, disorder>>

(***************************************************************************)
(* Jobs, cancel() and the link.                                            *)
(***************************************************************************)
\* start_job resets the flow control, commands outstanding or not
start_job ==
    /\ ~job_running /\ lines + cancels < MaxOthers
    /\ job_running' = TRUE /\ is_cancelled' = FALSE
    /\ pending' = <<>> /\ Disorder("other", pending # <<>>)
    /\ UNCHANGED <<cmd_lock, slots, queue, finished_by, pc, loop_pc, open, wire, parsed, cancel_pc, bounds>>

send_gcode_line ==
    /\ job_running /\ lines + cancels < MaxOthers /\ open /\ cmd_lock = None
    /\ lines' = lines + 1 /\ Send(Line)
    /\ Disorder("early", loop_pc = "lock")
    /\ UNCHANGED <<is_cancelled, job_running, cmd_lock, slots, queue, finished_by, pc, loop_pc, open, cancel_pc, cancels>>

JobEnd ==
    /\ job_running /\ pending = <<>>
    /\ job_running' = FALSE
    /\ UNCHANGED <<is_cancelled, cmd_lock, slots, queue, finished_by, pc, loop_pc, open, traffic, cancel_pc, bounds, disorder>>

CancelFlags ==
    /\ cancel_pc = "idle" /\ lines + cancels < MaxOthers /\ cancels' = cancels + 1
    /\ is_cancelled' = TRUE /\ job_running' = FALSE
    /\ Disorder("other", TRUE)
    /\ cancel_pc' = IF open THEN "reset" ELSE "idle"
    /\ UNCHANGED <<cmd_lock, slots, queue, finished_by, pc, loop_pc, open, traffic, lines>>

\* Ctrl-X: the firmware forgets the lines it has not answered
CancelReset ==
    /\ cancel_pc = "reset"
    /\ wire' = <<>> /\ cancel_pc' = IF open THEN "drain" ELSE "idle"
    /\ UNCHANGED <<is_cancelled, job_running, cmd_lock, slots, queue, finished_by, pc, loop_pc, open, pending, parsed, bounds, disorder>>

\* the queued requests are finished and flow is reset; the channel keeps its messages
CancelDrain ==
    /\ cancel_pc = "drain"
    /\ finished_by' = [r \in Requests |-> IF r \in queued_requests /\ finished_by[r] = None THEN Cancelled ELSE finished_by[r]]
    /\ queued_requests' = {} /\ pending' = <<>>
    /\ cancel_pc' = "safety"
    /\ UNCHANGED <<is_cancelled, job_running, cmd_lock, slots, channel, pc, loop_pc, open, wire, parsed, bounds, disorder>>

\* send_safety_shutdown, without cmd_lock; the dialect may have no tool-off commands
CancelSafety ==
    /\ cancel_pc = "safety"
    /\ \/ open /\ Send(Safety)
       \/ UNCHANGED traffic
    /\ cancel_pc' = "idle"
    /\ UNCHANGED <<is_cancelled, job_running, cmd_lock, slots, queue, finished_by, pc, loop_pc, open, bounds, disorder>>

LinkLost ==
    /\ "link" \in Faults /\ open
    /\ open' = FALSE /\ wire' = <<>>
    /\ UNCHANGED <<is_cancelled, job_running, cmd_lock, slots, queue, finished_by, pc, loop_pc, pending, parsed, cancel_pc, bounds, disorder>>

\* connection_loop opens the link again; what is pending stays
Open ==
    /\ ~open /\ loop_pc # "gone"
    /\ open' = TRUE /\ Disorder("other", TRUE)
    /\ UNCHANGED <<is_cancelled, job_running, cmd_lock, slots, queue, finished_by, pc, loop_pc, traffic, cancel_pc, bounds>>

\* abort_background_tasks drops what the two loops wait in: the command loop, and the interactive
\* call, if any, of the connection loop.  Their guards are released, their slots are not cleared.
\* Then the flags and the flow control are reset; the reader may still handle what it has parsed.
Abort(dropped) ==
    /\ "abort" \in Faults /\ loop_pc # "clear"
    /\ \/ dropped = None /\ UNCHANGED pc
       \/ dropped # None /\ pc[dropped] \in {"lock", "drain", "send", "await"} /\ Goto(dropped, "aborted")
    /\ cmd_lock' = IF cmd_lock \in {Loop, dropped} THEN None ELSE cmd_lock
    /\ channel' = <<>> /\ pending' = <<>> /\ wire' = <<>> /\ open' = FALSE
    /\ is_cancelled' = FALSE /\ job_running' = FALSE
    /\ Disorder("abort", TRUE)
    /\ UNCHANGED <<slots, queued_requests, finished_by, parsed, cancel_pc, bounds>>

connect(dropped) == Abort(dropped) /\ loop_pc' = "recv"
cleanup(dropped) == loop_pc # "gone" /\ Abort(dropped) /\ loop_pc' = "gone"

LoopStep == LoopTake \/ LoopSend \/ LoopWait \/ LoopClear
AskStep(i) == Drain(i) \/ Publish(i) \/ AskSend(i) \/ AskWait(i) \/ Leave(i)
CancelStep == CancelReset \/ CancelDrain \/ CancelSafety
Reader == parse_incoming \/ handle_ok
Next ==
    \/ \E q \in Queued : execute_command(q) \/ Return(q) \/ QueuedTimeout(q)
    \/ \E i \in Interactive : Ask(i) \/ Lock(i) \/ AskStep(i)
    \/ LoopLock \/ LoopStep \/ Reader
    \/ start_job \/ send_gcode_line \/ JobEnd
    \/ CancelFlags \/ CancelStep \/ LinkLost \/ Open
    \/ \E dropped \in Interactive \cup {None} : connect(dropped) \/ cleanup(dropped)

Spec == Init /\ [][Next]_vars

\* The tasks run, what is parsed is handled, command_timeout is finite, tokio's mutex is fair.
\* The device owes no answer, and the link need not come back.
Fairness ==
    /\ WF_vars(LoopStep) /\ SF_vars(LoopLock) /\ WF_vars(handle_ok) /\ WF_vars(CancelStep)
    /\ \A q \in Queued : WF_vars(Return(q)) /\ WF_vars(QueuedTimeout(q))
    /\ \A i \in Interactive : WF_vars(AskStep(i)) /\ SF_vars(Lock(i))
FairSpec == Spec /\ Fairness

-----------------------------------------------------------------------------
Sent == Requests \cup {Line, Safety}
FlagsOK == is_cancelled \in BOOLEAN /\ job_running \in BOOLEAN /\ open \in BOOLEAN
PlacesOK ==
    /\ cmd_lock \in Interactive \cup {Loop, None}
    /\ interactive_request \in Interactive \cup {None} /\ current_request \in Queued \cup {None}
    /\ channel \in Seq(Queued) /\ queued_requests \in SUBSET Queued
    /\ finished_by \in [Requests -> Sent \cup Endings \cup {None}]
    /\ pc \in [Requests -> {"idle", "wait", "lock", "drain", "publish", "send", "await", "leave", "done", "aborted"}]
    /\ loop_pc \in {"recv", "lock", "send", "wait", "clear", "gone"}
    /\ pending \in Seq(Sent) /\ wire \in Seq(Sent) /\ parsed \in Seq(Sent)
    /\ cancel_pc \in {"idle", "reset", "drain", "safety"} /\ lines \in Nat /\ cancels \in Nat /\ lines + cancels <= MaxOthers
    /\ disorder \in SUBSET {"early", "unhandled", "abort", "other"}

\* Every variable keeps its type: only commands are sent, counted and answered, and the
\* command loop never sends the empty request.
TypeOK == FlagsOK /\ PlacesOK

\* The slot of the interactive request names the call that has cmd_lock and has not returned,
\* and the current request is the one that the loop works on: no timeout, failed send or cancel()
\* leaves a request behind that swallows later answers.  The exception is a call that connect() or
\* cleanup() aborted: it stays in its slot until the next call of its kind takes the slot.
SlotsOwned ==
    /\ interactive_request # None =>
        \/ cmd_lock = interactive_request /\ pc[cmd_lock] \in {"send", "await", "leave"}
        \/ pc[interactive_request] = "aborted"
    /\ loop_pc \notin {"recv", "gone"} => current_request # None
    /\ loop_pc \in {"recv", "gone"} /\ current_request # None => "abort" \in disorder

\* A request is finished by the answer to its own command, jobs and other calls or not,
\* as long as nothing timed out, was cancelled, reset or aborted, no link was reopened, and no
\* request became current early or was published before an answer counted off was handled
\* (cmd_lock, wait_pending_empty).
OwnAnswer == \A r \in Requests : disorder = {} /\ finished_by[r] # None => finished_by[r] \in {r, Dropped}

\* How far a command is, as long as answers are in step: a queued one is written when the loop
\* waits for it.  A request finished by anything else is no phase of SingleCommand.
QueuedPhase(q) ==
    CASE pc[q] # "wait" -> "idle"
      [] pc[q] = "wait" /\ finished_by[q] = None ->
            IF current_request = q /\ loop_pc = "wait" THEN "written" ELSE "asked"
      [] pc[q] = "wait" /\ finished_by[q] # None ->
            IF finished_by[q] = q THEN "answered" ELSE IF finished_by[q] \in Endings THEN "idle" ELSE "stolen"
InteractivePhase(i) ==
    CASE pc[i] \in {"idle", "done"} -> "idle"
      [] pc[i] \notin {"idle", "done"} /\ finished_by[i] = None -> IF pc[i] = "await" THEN "written" ELSE "asked"
      [] pc[i] \notin {"idle", "done"} /\ finished_by[i] # None ->
            IF pc[i] \in {"await", "leave"} /\ finished_by[i] = i THEN "answered" ELSE "stolen"
Phase(r) == IF r \in Queued THEN QueuedPhase(r) ELSE InteractivePhase(r)
Phases == [r \in Requests |-> IF disorder = {} THEN Phase(r) ELSE "idle"]
Single == INSTANCE SingleCommand WITH
    Callers <- Requests, Lanes <- {Queued, Interactive},
    phase <- Phases,
    trusted <- (disorder = {})

\* As long as answers are in step, both ways to send a single command are those of SingleCommand: one
\* queued and one interactive command are with the device at a time, each call returns with the answer
\* to its own, and only a command that was not written is dropped (command_queue_loop,
\* execute_interactive_command).
ImplementsSingle == Single!Spec


\* What execute_command says: a queued command awaits its full response.  So, with no
\* timeout, cancel or reset, it is its own answer that finishes it.
QueuedOwnAnswer ==
    \A q \in Queued : disorder \subseteq {"early"} /\ finished_by[q] # None => finished_by[q] \in {q, Dropped}

\* What handle_rx says: request completions are always observed before freed buffer space.
\* So an interactive command, which waits for the queue to drain, gets its own answer.
InteractiveOwnAnswer ==
    \A i \in Interactive : disorder \subseteq {"unhandled"} /\ finished_by[i] # None => finished_by[i] = i

\* What cancel says: the queued commands are drained.  A command that cancel() finished
\* is not written to the device afterwards.
CancelledNotSent == [][LoopSend /\ open => finished_by[current_request] # Cancelled]_vars
=============================================================================
