------------------------------ MODULE GrblJob ------------------------------
(***************************************************************************)
(* The life of a streaming job in the GRBL session                         *)
(* (src/src/grbl/session.rs): run() and the streaming task it spawns,      *)
(* cancel() called by the user or by the streaming task itself, and the    *)
(* calls that clear the cancellation flag (execute_command, set_hold).     *)
(*                                                                         *)
(* All of them are tokio tasks on two worker threads; the flags are        *)
(* separate atomics, so every load and store that another task may come    *)
(* between is an action.  A run k owns one streaming task, also called k.  *)
(* AbortHandle::abort takes effect only where the task awaits.             *)
(*                                                                         *)
(* Abstracted: a line is only counted; the wait for buffer space (module   *)
(* FlowControl) is the await before a line is written; an interactive      *)
(* command beside the job (module GrblRequests) takes and keeps cmd_lock;  *)
(* the soft reset, the drained command queue and flow.reset leave no state *)
(* here.                                                                   *)
(***************************************************************************)
EXTENDS Integers, FiniteSets

CONSTANTS Runs,     \* calls of run() / run_raw()
          Users,    \* calls of cancel() by the user
          Calls,    \* calls of execute_command() or set_hold()
          Holds,    \* those calls that are set_hold()
          NoRun,    \* stream_task is None
          Interactive,  \* those calls that may be execute_interactive_command() instead
          Lines,    \* bound: G-code lines in a job
          Faults    \* which faults the device and the link may show

ASSUME RunsAssumption == NoRun \notin Runs /\ Runs \cap Users = {} /\ IsFiniteSet(Runs)
ASSUME CallsAssumption == Holds \subseteq Calls
ASSUME InteractiveAssumption == Interactive \subseteq Calls
ASSUME LinesAssumption == Lines \in Nat
ASSUME FaultsAssumption == Faults \subseteq {"error", "alarm", "stall", "link"}

Cancellers == Users \cup Runs

VARIABLES
    is_cancelled, job_running, is_holding, job_exception,  \* SessionCore
    alarm,                \* state.status = Alarm
    link,                 \* transport.is_open()
    stream_task,          \* the stored StreamHandle
    run_pc,               \* each run(): where it is
    stream_pc,            \* each streaming task: where it is
    left,                 \* lines each streaming task has still to send
    outcome,              \* what stream_gcode_inner returned
    aborted, finished,    \* AbortHandle::abort was called; StreamDone.finished
    cancel_pc, job_was_running,  \* each cancel(): where it is, its local
    reaping,              \* the task that a cancel() or a new run() aborts and waits for
    call_pc,              \* each execute_command / set_hold / execute_interactive_command
    tool,                 \* "on" once a job line was written, "off" after tool-off commands
    job_finished,         \* job_finished events emitted
    covers,               \* ghost: the runs active when a cancel() began
    held,                 \* ghost: the cancel() calls that began during a hold
    stopped               \* ghost: the runs a completed cancel() covered

flags == <<is_cancelled, job_running, is_holding, job_exception>>
device == <<alarm, link, tool>>
streams == <<stream_pc, left, outcome, finished>>
cancels == <<cancel_pc, job_was_running, reaping, held, covers, stopped>>
vars == <<flags, device, stream_task, run_pc, streams, aborted, cancels, call_pc, job_finished>>

RunPC == {"idle", "start", "abort_old", "reap_old", "spawn", "store", "await", "clear", "returned"}
StreamPC == {"none", "spawned", "check", "lock", "send", "after", "yield", "end", "drain", "take",
             "interrupt", "cancelling", "finally", "report", "done"}
CancelPC == {"idle", "load", "set", "clear", "write", "abort", "reap", "safety", "event",
             "done", "failed", "dropped"}
CallPC == {"idle", "running", "slot", "store", "last", "holds", "done"}

Init ==
    /\ is_cancelled = FALSE /\ job_running = FALSE /\ is_holding = FALSE /\ job_exception = FALSE
    /\ alarm = FALSE /\ link = TRUE /\ tool = "off"
    /\ stream_task = NoRun
    /\ run_pc = [k \in Runs |-> "idle"]
    /\ stream_pc = [k \in Runs |-> "none"]
    /\ left = [k \in Runs |-> Lines]
    /\ outcome = [k \in Runs |-> "none"]
    /\ aborted = {} /\ finished = {}
    /\ cancel_pc = [c \in Cancellers |-> "idle"]
    /\ job_was_running = [c \in Cancellers |-> FALSE]
    /\ reaping = [c \in Cancellers |-> NoRun]
    /\ call_pc = [u \in Calls |-> "idle"]
    /\ job_finished = 0
    /\ covers = [c \in Cancellers |-> {}] /\ held = {} /\ stopped = {}

Active(k) == run_pc[k] \notin {"idle", "returned"}

(***************************************************************************)
(* run(): start_job, then run_streaming_job.                               *)
(***************************************************************************)
RunGoto(k, label) == run_pc' = [run_pc EXCEPT ![k] = label]

\* start_job's first store
RunUncancel(k) ==
    /\ run_pc[k] = "idle"
    /\ is_cancelled' = FALSE
    /\ RunGoto(k, "start")
    /\ UNCHANGED <<job_running, is_holding, job_exception, device, stream_task, streams, aborted, cancels, call_pc, job_finished>>

RunStart(k) ==
    /\ run_pc[k] = "start"
    /\ job_running' = TRUE /\ is_holding' = FALSE /\ job_exception' = FALSE
    /\ RunGoto(k, "abort_old")
    /\ UNCHANGED <<is_cancelled, device, stream_task, streams, aborted, cancels, call_pc, job_finished>>

\* abort_stream_task by c: take the handle and abort the task, then wait for it
TakeHandle(c) ==
    /\ reaping' = [reaping EXCEPT ![c] = stream_task]
    /\ stream_task' = NoRun
    /\ aborted' = aborted \cup ({stream_task} \ (finished \cup {NoRun}))
Reaped(c) == reaping[c] \in finished \cup {NoRun}

RunAbortOld(k) ==
    /\ run_pc[k] = "abort_old"
    /\ TakeHandle(k)
    /\ RunGoto(k, "reap_old")
    /\ UNCHANGED <<flags, device, streams, cancel_pc, job_was_running, held, covers, stopped, call_pc, job_finished>>

\* mutant: the old task is aborted and not waited for
RunReapOld_no_wait(k) ==
    /\ run_pc[k] = "reap_old"
    /\ RunGoto(k, "spawn")
    /\ UNCHANGED <<flags, device, stream_task, streams, aborted, cancels, call_pc, job_finished>>

RunReapOld(k) ==
    /\ run_pc[k] = "reap_old" /\ Reaped(k)
    /\ RunGoto(k, "spawn")
    /\ UNCHANGED <<flags, device, stream_task, streams, aborted, cancels, call_pc, job_finished>>

RunSpawn(k) ==
    /\ run_pc[k] = "spawn"
    /\ stream_pc' = [stream_pc EXCEPT ![k] = "spawned"]
    /\ RunGoto(k, "store")
    /\ UNCHANGED <<flags, device, stream_task, left, outcome, finished, aborted, cancels, call_pc, job_finished>>

\* the handle is stored after the task was spawned
RunStore(k) ==
    /\ run_pc[k] = "store"
    /\ stream_task' = k
    /\ RunGoto(k, "await")
    /\ UNCHANGED <<flags, device, streams, aborted, cancels, call_pc, job_finished>>

RunAwait(k) ==
    /\ run_pc[k] = "await" /\ k \in finished
    /\ RunGoto(k, "clear")
    /\ UNCHANGED <<flags, device, stream_task, streams, aborted, cancels, call_pc, job_finished>>

RunClear(k) ==
    /\ run_pc[k] = "clear"
    /\ stream_task' = IF stream_task = k THEN NoRun ELSE stream_task
    /\ RunGoto(k, "returned")
    /\ UNCHANGED <<flags, device, streams, aborted, cancels, call_pc, job_finished>>

(***************************************************************************)
(* stream_gcode and stream_gcode_inner.                                    *)
(***************************************************************************)
StreamGoto(k, label) == stream_pc' = [stream_pc EXCEPT ![k] = label]

\* the loop head: stop, or go on to the next line, or all lines are sent
StreamCheck(k) ==
    /\ stream_pc[k] \in {"spawned", "check"}
    /\ LET stop == is_cancelled \/ job_exception \/ alarm IN
       /\ StreamGoto(k, IF left[k] > 0 /\ ~stop THEN "lock" ELSE "end")
       /\ job_exception' = (job_exception \/ (alarm /\ left[k] > 0))
    /\ UNCHANGED <<is_cancelled, job_running, is_holding, device, stream_task, run_pc, left, outcome, finished, aborted, cancels, call_pc, job_finished>>

\* cmd_lock is free: a sender holds it while it waits for space and writes, an interactive
\* command from before it waits for the pending commands until it is answered or times out
LockFree == (\A u \in Calls : call_pc[u] # "holds") /\ \A k \in Runs : stream_pc[k] # "send"

\* send_gcode_line takes cmd_lock, a wait without a timeout, and looks at the link
StreamLock(k) ==
    /\ stream_pc[k] = "lock" /\ LockFree /\ link
    /\ StreamGoto(k, "send")
    /\ UNCHANGED <<flags, device, stream_task, run_pc, left, outcome, finished, aborted, cancels, call_pc, job_finished>>

\* send_gcode_line: space was granted and the line is written
StreamSend(k) ==
    /\ stream_pc[k] = "send" /\ link
    /\ left' = [left EXCEPT ![k] = @ - 1]
    /\ tool' = "on"
    /\ StreamGoto(k, "after")
    /\ UNCHANGED <<flags, alarm, link, stream_task, run_pc, outcome, finished, aborted, cancels, call_pc, job_finished>>

\* the transport is closed: stream_gcode_inner returns the error at once
StreamSendFails(k) ==
    /\ stream_pc[k] = "send" \/ (stream_pc[k] = "lock" /\ LockFree)
    /\ ~link
    /\ outcome' = [outcome EXCEPT ![k] = "err"]
    /\ StreamGoto(k, "interrupt")
    /\ UNCHANGED <<flags, device, stream_task, run_pc, left, finished, aborted, cancels, call_pc, job_finished>>

\* wait_for_space timed out and on_buffer_stall said no: cancelled, ALARM, or no
\* answer to the polls; a stall is an exception of the job
StreamStall(k) ==
    /\ stream_pc[k] = "send"
    /\ is_cancelled \/ alarm \/ ~link \/ "stall" \in Faults
    /\ job_exception' = TRUE
    /\ StreamGoto(k, "after")
    /\ UNCHANGED <<is_cancelled, job_running, is_holding, device, stream_task, run_pc, left, outcome, finished, aborted, cancels, call_pc, job_finished>>

\* after a send: an exception or ALARM ends the loop
StreamAfter(k) ==
    /\ stream_pc[k] = "after"
    /\ StreamGoto(k, IF job_exception \/ alarm THEN "end" ELSE "yield")
    /\ UNCHANGED <<flags, device, stream_task, run_pc, left, outcome, finished, aborted, cancels, call_pc, job_finished>>

\* yield_now always returns Pending: an aborted task is dropped here
StreamYield(k) ==
    /\ stream_pc[k] = "yield" /\ k \notin aborted
    /\ StreamGoto(k, "check")
    /\ UNCHANGED <<flags, device, stream_task, run_pc, left, outcome, finished, aborted, cancels, call_pc, job_finished>>

StreamEnd(k) ==
    /\ stream_pc[k] = "end"
    /\ StreamGoto(k, IF ~is_cancelled /\ ~job_exception THEN "drain" ELSE "take")
    /\ UNCHANGED <<flags, device, stream_task, run_pc, left, outcome, finished, aborted, cancels, call_pc, job_finished>>

\* drain_pending_acks: every pending command was acknowledged
StreamDrained(k) ==
    /\ stream_pc[k] = "drain"
    /\ StreamGoto(k, "take")
    /\ UNCHANGED <<flags, device, stream_task, run_pc, left, outcome, finished, aborted, cancels, call_pc, job_finished>>

\* mutant: drain_pending_acks without its is_cancelled test
StreamDrainStops_ignores_cancel(k) ==
    /\ stream_pc[k] = "drain"
    /\ job_exception \/ alarm
    /\ StreamGoto(k, "take")
    /\ UNCHANGED <<flags, device, stream_task, run_pc, left, outcome, finished, aborted, cancels, call_pc, job_finished>>

\* drain_pending_acks breaks off
StreamDrainStops(k) ==
    /\ stream_pc[k] = "drain"
    /\ is_cancelled \/ job_exception \/ alarm
    /\ StreamGoto(k, "take")
    /\ UNCHANGED <<flags, device, stream_task, run_pc, left, outcome, finished, aborted, cancels, call_pc, job_finished>>

\* unanswered_poll_limit polls without an answer; each poll takes cmd_lock
StreamDrainDead(k) ==
    /\ stream_pc[k] = "drain" /\ LockFree
    /\ ~link \/ "stall" \in Faults
    /\ job_exception' = TRUE
    /\ StreamGoto(k, "take")
    /\ UNCHANGED <<is_cancelled, job_running, is_holding, device, stream_task, run_pc, left, outcome, finished, aborted, cancels, call_pc, job_finished>>

\* job_exception.take()
StreamTake(k) ==
    /\ stream_pc[k] = "take"
    /\ outcome' = [outcome EXCEPT ![k] = IF job_exception THEN "err" ELSE "ok"]
    /\ job_exception' = FALSE
    /\ StreamGoto(k, IF job_exception THEN "interrupt" ELSE "finally")
    /\ UNCHANGED <<is_cancelled, job_running, is_holding, device, stream_task, run_pc, left, finished, aborted, cancels, call_pc, job_finished>>

\* mutant: the job flags are reset before the interrupt is handled
StreamInterrupt_after_reset(k) ==
    /\ stream_pc[k] = "interrupt"
    /\ IF is_cancelled THEN StreamGoto(k, "finally") /\ UNCHANGED cancel_pc
       ELSE StreamGoto(k, "cancelling") /\ cancel_pc' = [cancel_pc EXCEPT ![k] = "load"]
    /\ job_running' = FALSE
    /\ UNCHANGED <<is_cancelled, is_holding, job_exception, device, stream_task, run_pc, left, outcome, finished, aborted, job_was_running, reaping, held, covers, stopped, call_pc, job_finished>>

\* an error of a job nobody cancelled: the task cancels itself, before it resets the flags
StreamInterrupt(k) ==
    /\ stream_pc[k] = "interrupt"
    /\ IF is_cancelled THEN StreamGoto(k, "finally") /\ UNCHANGED cancel_pc
       ELSE StreamGoto(k, "cancelling") /\ cancel_pc' = [cancel_pc EXCEPT ![k] = "load"]
    /\ UNCHANGED <<flags, device, stream_task, run_pc, left, outcome, finished, aborted, job_was_running, reaping, held, covers, stopped, call_pc, job_finished>>

StreamCancelled(k) ==
    /\ stream_pc[k] = "cancelling" /\ cancel_pc[k] \in {"done", "failed"}
    /\ StreamGoto(k, "finally")
    /\ UNCHANGED <<flags, device, stream_task, run_pc, left, outcome, finished, aborted, cancels, call_pc, job_finished>>

StreamFinally(k) ==
    /\ stream_pc[k] = "finally"
    /\ job_running' = FALSE /\ is_holding' = FALSE
    /\ StreamGoto(k, "report")
    /\ UNCHANGED <<is_cancelled, job_exception, device, stream_task, run_pc, left, outcome, finished, aborted, cancels, call_pc, job_finished>>

\* job_finished for a job that ended well and was not cancelled; StreamGuard is dropped
StreamReport(k) ==
    /\ stream_pc[k] = "report"
    /\ job_finished' = job_finished + (IF outcome[k] = "ok" /\ ~is_cancelled THEN 1 ELSE 0)
    /\ StreamGoto(k, "done") /\ finished' = finished \cup {k}
    /\ UNCHANGED <<flags, device, stream_task, run_pc, left, outcome, aborted, cancels, call_pc>>

\* An aborted task is dropped where it awaits; its own cancel() is cut short.
Awaits(k) == \/ stream_pc[k] \in {"spawned", "lock", "send", "yield", "drain"}
             \/ stream_pc[k] = "cancelling" /\ cancel_pc[k] \in {"write", "safety"}

StreamDrop(k) ==
    /\ k \in aborted /\ Awaits(k)
    /\ StreamGoto(k, "done") /\ finished' = finished \cup {k}
    /\ cancel_pc' = IF stream_pc[k] = "cancelling" THEN [cancel_pc EXCEPT ![k] = "dropped"] ELSE cancel_pc
    /\ UNCHANGED <<flags, device, stream_task, run_pc, left, outcome, aborted, job_was_running, reaping, held, covers, stopped, call_pc, job_finished>>

(***************************************************************************)
(* cancel(), called by a user or by a streaming task.                      *)
(***************************************************************************)
CancelGoto(c, label) == cancel_pc' = [cancel_pc EXCEPT ![c] = label]

\* a user calls cancel(), or the streaming task was told to
CancelLoad(c) ==
    /\ cancel_pc[c] = (IF c \in Users THEN "idle" ELSE "load")
    /\ job_was_running' = [job_was_running EXCEPT ![c] = job_running]
    /\ covers' = [covers EXCEPT ![c] = IF job_running THEN {k \in Runs : Active(k)} ELSE {}]
    /\ held' = IF is_holding THEN held \cup {c} ELSE held
    /\ CancelGoto(c, "set")
    /\ UNCHANGED <<flags, device, stream_task, run_pc, streams, aborted, reaping, stopped, call_pc, job_finished>>

CancelSet(c) ==
    /\ cancel_pc[c] = "set"
    /\ is_cancelled' = TRUE
    /\ CancelGoto(c, "clear")
    /\ UNCHANGED <<job_running, is_holding, job_exception, device, stream_task, run_pc, streams, aborted, job_was_running, reaping, held, covers, stopped, call_pc, job_finished>>

CancelClear(c) ==
    /\ cancel_pc[c] = "clear"
    /\ job_running' = FALSE
    /\ CancelGoto(c, "write")
    /\ UNCHANGED <<is_cancelled, is_holding, job_exception, device, stream_task, run_pc, streams, aborted, job_was_running, reaping, held, covers, stopped, call_pc, job_finished>>

\* transport_open()? and the Ctrl-X: with the link down cancel() returns the error here
CancelWrite(c) ==
    /\ cancel_pc[c] = "write"
    /\ CancelGoto(c, IF link THEN "abort" ELSE "failed")
    /\ UNCHANGED <<flags, device, stream_task, run_pc, streams, aborted, job_was_running, reaping, held, covers, stopped, call_pc, job_finished>>

\* abort_stream_task: nothing to do inside the streaming task itself
CancelAbort(c) ==
    /\ cancel_pc[c] = "abort"
    /\ IF c \in Runs
       THEN CancelGoto(c, "safety") /\ UNCHANGED <<stream_task, aborted, reaping>>
       ELSE TakeHandle(c) /\ CancelGoto(c, "reap")
    /\ UNCHANGED <<flags, device, run_pc, streams, job_was_running, held, covers, stopped, call_pc, job_finished>>

\* mutant: the task is aborted and not waited for
CancelReap_no_wait(c) ==
    /\ cancel_pc[c] = "reap"
    /\ CancelGoto(c, "safety")
    /\ UNCHANGED <<flags, device, stream_task, run_pc, streams, aborted, job_was_running, reaping, held, covers, stopped, call_pc, job_finished>>

\* abort_and_wait returned; the queued commands are finished and flow is reset
CancelReap(c) ==
    /\ cancel_pc[c] = "reap" /\ Reaped(c)
    /\ CancelGoto(c, "safety")
    /\ UNCHANGED <<flags, device, stream_task, run_pc, streams, aborted, job_was_running, reaping, held, covers, stopped, call_pc, job_finished>>

\* mutant: only a cancel() that saw the job running shuts the tool down
CancelSafety_if_running(c) ==
    /\ cancel_pc[c] = "safety"
    /\ tool' = IF link /\ job_was_running[c] THEN "off" ELSE tool
    /\ CancelGoto(c, "event")
    /\ UNCHANGED <<flags, alarm, link, stream_task, run_pc, streams, aborted, job_was_running, reaping, held, covers, stopped, call_pc, job_finished>>

\* send_safety_shutdown: the dialect's tool-off commands
CancelSafety(c) ==
    /\ cancel_pc[c] = "safety"
    /\ tool' = IF link THEN "off" ELSE tool
    /\ CancelGoto(c, "event")
    /\ UNCHANGED <<flags, alarm, link, stream_task, run_pc, streams, aborted, job_was_running, reaping, held, covers, stopped, call_pc, job_finished>>

CancelEvent(c) ==
    /\ cancel_pc[c] = "event"
    /\ job_finished' = job_finished + (IF job_was_running[c] THEN 1 ELSE 0)
    /\ stopped' = stopped \cup covers[c]
    /\ CancelGoto(c, "done")
    /\ UNCHANGED <<flags, device, stream_task, run_pc, streams, aborted, job_was_running, reaping, held, covers, call_pc>>

(***************************************************************************)
(* execute_command and set_hold clear is_cancelled when no job is running  *)
(* and no streaming task is stored or the stored one is finished.          *)
(***************************************************************************)
CallGoto(u, label) == call_pc' = [call_pc EXCEPT ![u] = label]

CallBegin(u) ==
    /\ call_pc[u] = "idle"
    /\ is_holding' \in (IF u \in Holds THEN BOOLEAN ELSE {is_holding})
    /\ CallGoto(u, "running")
    /\ UNCHANGED <<is_cancelled, job_running, job_exception, device, stream_task, run_pc, streams, aborted, cancels, job_finished>>

CallLoad(u) ==
    /\ call_pc[u] = "running"
    /\ CallGoto(u, IF job_running THEN "last" ELSE "slot")
    /\ UNCHANGED <<flags, device, stream_task, run_pc, streams, aborted, cancels, job_finished>>

CallSlot(u) ==
    /\ call_pc[u] = "slot"
    /\ CallGoto(u, IF stream_task = NoRun \/ stream_task \in finished THEN "store" ELSE "last")
    /\ UNCHANGED <<flags, device, stream_task, run_pc, streams, aborted, cancels, job_finished>>

CallStore(u) ==
    /\ call_pc[u] = "store"
    /\ is_cancelled' = FALSE
    /\ CallGoto(u, "last")
    /\ UNCHANGED <<job_running, is_holding, job_exception, device, stream_task, run_pc, streams, aborted, cancels, job_finished>>

\* execute_command hands the command to the command queue; set_hold writes
\* the realtime command and then owns the status, which hides an ALARM
CallLast(u) ==
    /\ call_pc[u] = "last"
    /\ alarm' = (alarm /\ ~(u \in Holds /\ link))
    /\ CallGoto(u, "done")
    /\ UNCHANGED <<flags, link, tool, stream_task, run_pc, streams, aborted, cancels, job_finished>>

(***************************************************************************)
(* An execute_interactive_command beside the job.  It takes cmd_lock and   *)
(* keeps it through wait_pending_empty(None), which no timeout ends, the   *)
(* write and the wait for the answer.                                      *)
(***************************************************************************)
\* its look at the link lies before the wait for cmd_lock
InteractiveLock(u) ==
    /\ u \in Interactive /\ call_pc[u] = "idle" /\ LockFree
    /\ CallGoto(u, "holds")
    /\ UNCHANGED <<flags, device, stream_task, run_pc, streams, aborted, cancels, job_finished>>

\* it returns; nothing says that the pending commands are ever acknowledged
InteractiveReturn(u) ==
    /\ call_pc[u] = "holds"
    /\ CallGoto(u, "done")
    /\ UNCHANGED <<flags, device, stream_task, run_pc, streams, aborted, cancels, job_finished>>

(***************************************************************************)
(* The device and the link.                                                *)
(***************************************************************************)
\* handle_error, or an ALARM: line: an exception of the job if one is running
DeviceError ==
    /\ "error" \in Faults /\ job_running /\ ~job_exception
    /\ job_exception' = TRUE
    /\ UNCHANGED <<is_cancelled, job_running, is_holding, device, stream_task, run_pc, streams, aborted, cancels, call_pc, job_finished>>

\* handle_status_report: the reported status replaces the old one; the machine enters
\* ALARM or was unlocked
StatusReport ==
    /\ "alarm" \in Faults /\ link
    /\ alarm' = ~alarm
    /\ UNCHANGED <<flags, link, tool, stream_task, run_pc, streams, aborted, cancels, call_pc, job_finished>>

LinkLost ==
    /\ "link" \in Faults /\ link
    /\ link' = FALSE
    /\ UNCHANGED <<flags, alarm, tool, stream_task, run_pc, streams, aborted, cancels, call_pc, job_finished>>

RunStep(k) == RunStart(k) \/ RunAbortOld(k) \/ RunReapOld(k) \/ RunSpawn(k) \/ RunStore(k) \/ RunAwait(k) \/ RunClear(k)
StreamStep(k) ==
    \/ StreamCheck(k) \/ StreamLock(k) \/ StreamSendFails(k) \/ StreamAfter(k) \/ StreamYield(k) \/ StreamEnd(k)
    \/ StreamTake(k) \/ StreamInterrupt(k) \/ StreamCancelled(k) \/ StreamFinally(k) \/ StreamReport(k)
CancelStep(c) ==
    \/ CancelSet(c) \/ CancelClear(c) \/ CancelWrite(c)
    \/ CancelAbort(c) \/ CancelReap(c) \/ CancelSafety(c) \/ CancelEvent(c)
CallStep(u) == CallLoad(u) \/ CallSlot(u) \/ CallStore(u) \/ CallLast(u)

Next ==
    \/ \E k \in Runs :
        \/ RunUncancel(k) \/ RunStep(k) \/ StreamStep(k) \/ StreamDrop(k)
        \/ StreamSend(k) \/ StreamStall(k) \/ StreamDrained(k) \/ StreamDrainStops(k) \/ StreamDrainDead(k)
    \/ \E c \in Cancellers : CancelLoad(c) \/ CancelStep(c)
    \/ \E u \in Calls : CallBegin(u) \/ CallStep(u) \/ InteractiveLock(u) \/ InteractiveReturn(u)
    \/ DeviceError \/ StatusReport \/ LinkLost

Spec == Init /\ [][Next]_vars

\* The tasks run whenever they can, and a wait for space or for acknowledgements that
\* the code itself gives up (cancelled, ALARM, dead link) does time out; the drain looks at
\* the flags again only after a poll that takes cmd_lock.  Nothing obliges the device to free
\* space or to acknowledge, nor an interactive command to give cmd_lock back.
Hopeless == is_cancelled \/ alarm \/ ~link
Fairness ==
    /\ \A k \in Runs : /\ WF_vars(RunStep(k)) /\ WF_vars(StreamStep(k)) /\ WF_vars(StreamDrop(k))
                       /\ WF_vars(Hopeless /\ StreamStall(k)) /\ WF_vars(~link /\ StreamDrainDead(k))
                       /\ WF_vars(LockFree /\ StreamDrainStops(k))
    /\ \A c \in Cancellers : WF_vars(CancelStep(c))
    /\ \A k \in Runs : WF_vars(CancelLoad(k))
FairSpec == Spec /\ Fairness

(***************************************************************************)
(* Properties                                                              *)
(***************************************************************************)
FlagsOK ==
    /\ is_cancelled \in BOOLEAN /\ job_running \in BOOLEAN /\ is_holding \in BOOLEAN /\ job_exception \in BOOLEAN
    /\ alarm \in BOOLEAN /\ link \in BOOLEAN /\ job_was_running \in [Cancellers -> BOOLEAN]
PlacesOK ==
    /\ tool \in {"on", "off"}
    /\ stream_task \in Runs \cup {NoRun}
    /\ run_pc \in [Runs -> RunPC] /\ stream_pc \in [Runs -> StreamPC]
    /\ left \in [Runs -> 0..Lines]
    /\ outcome \in [Runs -> {"none", "ok", "err"}]
    /\ aborted \in SUBSET Runs /\ finished \in SUBSET Runs
    /\ cancel_pc \in [Cancellers -> CancelPC]
    /\ reaping \in [Cancellers -> Runs \cup {NoRun}]
    /\ call_pc \in [Calls -> CallPC]
    /\ job_finished \in Nat
    /\ covers \in [Cancellers -> SUBSET Runs] /\ held \in SUBSET Cancellers /\ stopped \in SUBSET Runs

\* Every flag and every task's position keep their types, and no job ever sends more lines
\* than it has, however it is cancelled, replaced or stalled (stream_gcode_inner).
TypeOK == FlagsOK /\ PlacesOK

Spawned == {"store", "await", "clear", "returned"}

\* A streaming task that a finished cancel() aborted and waited for never writes a line
\* again, whatever else un-cancels the session meanwhile (cancel, abort_and_wait, #428).
ReapedForGood ==
    [][\A u \in Users : cancel_pc[u] = "done" /\ reaping[u] # NoRun => left'[reaping[u]] = left[reaping[u]]]_vars

\* A streaming task that a new run() replaced writes nothing once the new task is
\* spawned (run_streaming_job, abort_and_wait).
ReplacedForGood ==
    [][\A k \in Runs : run_pc[k] \in Spawned /\ reaping[k] # NoRun => left'[reaping[k]] = left[reaping[k]]]_vars

\* After a cancel() that ended a job, by the user or by the failing job itself, the tool
\* is off until another job writes: also when the user's cancel() cuts short the one the
\* job had begun (cancel, send_safety_shutdown, StreamGuard).
ToolOffAfterCancel ==
    \A c \in Cancellers :
        /\ cancel_pc[c] = "done" /\ (c \in Runs \/ reaping[c] # NoRun) /\ link
        /\ \A k \in Runs \ {c, reaping[c]} : left[k] = Lines
        => tool = "off"

\* A job that nobody cancels, on a link that stays up, reports job_finished exactly once,
\* whether it sends everything, fails, or runs into an ALARM (stream_gcode: the interrupt
\* handler runs before the resets so that cancel() emits job_finished).
FaultReportsOnce ==
    /\ link /\ \A u \in Users : cancel_pc[u] = "idle"
    /\ \A k \in Runs : run_pc[k] \in {"idle", "returned"}
    => job_finished = Cardinality({k \in Runs : run_pc[k] = "returned"})

\* The task of k waits for cmd_lock behind an interactive command that never gives it back,
\* and no cancel() aborts it.
LockedOut(k) == stream_pc[k] \in {"lock", "drain"} /\ k \notin aborted /\ \E u \in Calls : call_pc[u] = "holds"

\* run() returns after every cancel() of its job, even if the link is lost and the
\* device frees no buffer space (cancel, on_buffer_stall, drain_pending_acks), unless a
\* later call un-cancels the session (execute_command, set_hold, start_job), or the job waits
\* for cmd_lock for ever: the wait has no timeout, an interactive command on a lost link may
\* keep the lock (wait_pending_empty(None)), and cancel() on a lost link returns before it
\* aborts the task.
CancelEndsJob ==
    \A u \in Users, k \in Runs :
        (cancel_pc[u] = "clear" /\ k \in covers[u]) ~>
            (run_pc[k] = "returned" \/ ~is_cancelled \/ []LockedOut(k))

\* What the comment on abort_stream_task in cancel() says: the sender of a cancelled job
\* never resumes.  A cancel() that comes between the spawn of the task and the store of
\* its handle finds no task to abort.
NeverResumes == [][\A k \in stopped : left'[k] = left[k]]_vars

\* What the comment in execute_command says: the cancellation flag is cleared only once
\* the cancelled job's sender has fully terminated.
UncancelAfterEnd ==
    [][\A u \in Calls, c \in Users : CallStore(u) /\ cancel_pc[c] \in {"write", "abort", "reap"} =>
            \A k \in covers[c] : stream_pc[k] \in {"none", "done"}]_vars

\* What the streaming tests assert: one job that was cancelled while it ran reports one
\* job_finished.
JobFinishedOnce ==
    /\ \A k \in Runs : run_pc[k] = "returned"
    /\ \A c \in Users : cancel_pc[c] = "done" /\ stopped = Runs
    => job_finished = Cardinality(Runs)

\* What the comment on the interrupt handler says: cancel() still sees the job as running
\* and emits job_finished.  With the link gone cancel() returns before it does.
InterruptReports ==
    \A k \in Runs : run_pc[k] = "returned" /\ outcome[k] = "err" => job_finished > 0

\* What the comment in stream_gcode says of a hard abort: cancel() does the cleanup that
\* the finally block would have done, the end of a hold included.
HoldEndsWithJob ==
    \A u \in Users : cancel_pc[u] = "done" /\ reaping[u] # NoRun /\ u \in held => ~is_holding

\* What start_job says of an ALARM: it aborts the job.  A job that was cut short and
\* not cancelled does not count as successful.
SuccessIsComplete ==
    \A k \in Runs : stream_pc[k] = "finally" /\ outcome[k] = "ok" /\ ~is_cancelled => left[k] = 0
=============================================================================
