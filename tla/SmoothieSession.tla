-------------------------- MODULE SmoothieSession --------------------------
(***************************************************************************)
(* The Smoothieware session (src/src/smoothie/session.rs) as a whole:      *)
(* connection loop, status polling, the send-then-wait exchange, the job   *)
(* loop, cancel() and set_hold(), against a device that behaves like the   *)
(* emulator of the tests (src/python/raydriver/smoothie/emulator.py) and   *)
(* may besides hang, be unplugged, reject a line or raise an ALARM.        *)
(*                                                                         *)
(* Two senders use the exchange: the job and the user's task, which calls  *)
(* connect, cleanup, execute_command, cancel and set_hold one at a time.   *)
(* PingPong has calls that overlap, the gap between slot and write, and    *)
(* says whose answer is whose; here the slot is set and the line written   *)
(* in one step.                                                            *)
(* Chunks end anywhere, so line_buffer may hold a piece of a line.         *)
(*                                                                         *)
(* Abstracted: the state is its status; job lines are motions and the      *)
(* user's commands are answered at once; progress and job_finished events. *)
(***************************************************************************)
EXTENDS Integers, Sequences

CONSTANTS PollWhileRunning,   \* config.poll_status_while_running
          Lines,              \* bound: lines of the job
          MaxCalls,           \* bound: calls of the user
          MaxFaults,          \* bound: changes for the worse of device or link
          MaxReplies          \* bound: no poll while so many replies are unread

ASSUME ConfigAssumption == PollWhileRunning \in BOOLEAN
ASSUME BoundsAssumption == {Lines, MaxCalls, MaxFaults, MaxReplies} \subseteq Nat

VARIABLES
    keep_running, job_running, is_cancelled, is_holding, job_exception, handshake_received,
    status,               \* state.status
    connection_status,    \* the last ConnectionStatusChanged
    line_buffer,          \* "empty", "part" of the next line, "old": part of a line of an earlier
                          \* link, "torn": empty, but the next line has lost its head
    prefix,               \* what a line with that beginning is: a "report" ("<"), an "error"
                          \* ("error:"), an "ALARM" ("ALARM:") or "none" of them
    cmd_lock, slot,       \* a sender or "none"
    finished,             \* the PendingCmd of the sender that has the lock is finished
    open, broken,         \* transport.is_open(); a link on which the next write will fail
    rx,                   \* replies on their way to the reader
    reader,               \* "off", "idle", "raise" or a status that it is about to store
    conn_pc, pc,          \* connection_task; the two senders
    arg,                  \* the argument of the user's call: connect or cleanup, hold or resume
    sent,                 \* lines of the job handed to ping_pong
    device,               \* "up", "silent" or "gone"
    dev_state, dev_queue, dev_hold,   \* the firmware: state, motions not finished, hold requested
    calls, faults

flags == <<keep_running, job_running, is_cancelled, is_holding, job_exception>>
buffer == <<line_buffer, prefix>>
exchange == <<cmd_lock, slot, finished>>
link == <<open, broken>>
firmware == <<dev_state, dev_queue, dev_hold>>
bounds == <<calls, faults>>
vars == <<flags, handshake_received, status, connection_status, buffer, exchange, link, rx, reader,
          conn_pc, pc, arg, sent, device, firmware, bounds>>

Senders == {"job", "user"}
Statuses == {"Idle", "Run", "Hold", "Alarm"}

Init ==
    /\ keep_running = FALSE /\ job_running = FALSE /\ is_cancelled = FALSE /\ is_holding = FALSE
    /\ job_exception = FALSE /\ handshake_received = FALSE
    /\ status = "Unknown" /\ connection_status = "Disconnected" /\ line_buffer = "empty" /\ prefix = "none"
    /\ cmd_lock = "none" /\ slot = "none" /\ finished = FALSE
    /\ open = FALSE /\ broken = FALSE /\ rx = <<>> /\ reader = "off"
    /\ conn_pc = "none" /\ pc = [s \in Senders |-> "ready"] /\ arg = FALSE /\ sent = 0
    /\ device = "up" /\ dev_state = "Idle" /\ dev_queue = 0 /\ dev_hold = FALSE
    /\ calls = 0 /\ faults = 0

Goto(s, label) == pc' = [pc EXCEPT ![s] = label]
WriteOk == open /\ ~broken
WriteFails == ~WriteOk /\ open' = FALSE /\ UNCHANGED broken
\* what a device that is up answers reaches an intact link
Reply(r) == rx' = IF device = "up" /\ WriteOk THEN Append(rx, r) ELSE rx
\* what becomes of the buffer when the link is replaced: a piece stays, that of a torn line too
Outdated ==
    /\ line_buffer' \in CASE line_buffer = "part" -> {"old"}
                          [] line_buffer = "torn" -> {"empty", "old"}
                          [] OTHER -> {line_buffer}
    /\ UNCHANGED prefix

(***************************************************************************)
(* connect() is cleanup() followed by a new connection loop.               *)
(***************************************************************************)
\* resolve_pending: whoever waits is let go
resolve_pending ==
    /\ slot' = "none"
    /\ finished' = (finished \/ slot # "none")

Call == pc["user"] = "ready" /\ calls < MaxCalls /\ calls' = calls + 1

CleanupFlags ==
    /\ Call
    /\ keep_running' = FALSE /\ job_running' = FALSE
    /\ resolve_pending
    /\ arg' \in BOOLEAN                       \* TRUE: called by connect()
    /\ Goto("user", "aborting")
    /\ UNCHANGED <<is_cancelled, is_holding, job_exception, handshake_received, status, connection_status, buffer,
                   cmd_lock, link, rx, reader, conn_pc, sent, device, firmware, faults>>

\* abort_background_tasks: the connection task is dropped where it awaits
ConnDrop ==
    /\ pc["user"] = "aborting" /\ conn_pc # "none"
    /\ conn_pc' = "none"
    /\ UNCHANGED <<flags, handshake_received, status, connection_status, buffer, exchange, link, rx, reader,
                   pc, arg, sent, device, firmware, bounds>>

\* the reader awaits only between two chunks
ReaderDrop ==
    /\ pc["user"] = "aborting" /\ conn_pc = "none" /\ reader = "idle"
    /\ reader' = "off" /\ rx' = <<>>
    /\ UNCHANGED <<flags, handshake_received, status, connection_status, buffer, exchange, link,
                   conn_pc, pc, arg, sent, device, firmware, bounds>>

\* mutant: the aborted tasks are not awaited
CleanupClose_no_await ==
    /\ pc["user"] = "aborting"
    /\ open' = FALSE /\ broken' = FALSE /\ connection_status' = "Disconnected"
    /\ keep_running' = arg
    /\ conn_pc' = IF arg THEN "top" ELSE conn_pc
    /\ Goto("user", "ready") /\ arg' = FALSE
    /\ UNCHANGED <<job_running, is_cancelled, is_holding, job_exception, handshake_received, status, buffer, exchange,
                   rx, reader, sent, device, firmware, bounds>>

\* transport.close(), Disconnected, and after connect() the new task
CleanupClose ==
    /\ pc["user"] = "aborting" /\ conn_pc = "none" /\ reader = "off"
    /\ open' = FALSE /\ broken' = FALSE /\ connection_status' = "Disconnected"
    /\ keep_running' = arg
    /\ conn_pc' = IF arg THEN "top" ELSE conn_pc
    /\ Goto("user", "ready") /\ arg' = FALSE
    /\ UNCHANGED <<job_running, is_cancelled, is_holding, job_exception, handshake_received, status, buffer, exchange,
                   rx, reader, sent, device, firmware, bounds>>

(***************************************************************************)
(* connection_loop                                                         *)
(***************************************************************************)
connUnchanged == <<flags, status, arg, sent, pc, device, firmware, bounds>>

\* mutant: the answer of an earlier link counts for the new one
LoopTop_keeps_handshake ==
    /\ conn_pc = "top" /\ keep_running /\ device # "gone"
    /\ open' = TRUE /\ broken' = FALSE /\ rx' = <<>> /\ reader' = "idle"
    /\ Outdated /\ conn_pc' = "handshake"
    /\ UNCHANGED <<connUnchanged, handshake_received, connection_status, exchange>>

\* the event is cleared, the transport opened, the reader spawned
LoopTop ==
    /\ conn_pc = "top" /\ keep_running /\ device # "gone"
    /\ handshake_received' = FALSE
    /\ open' = TRUE /\ broken' = FALSE /\ rx' = <<>> /\ reader' = "idle"
    /\ Outdated /\ conn_pc' = "handshake"
    /\ UNCHANGED <<connUnchanged, connection_status, exchange>>

LoopOpenFails ==
    /\ conn_pc = "top" /\ keep_running /\ device = "gone"
    /\ handshake_received' = FALSE
    /\ connection_status' = "Error" /\ conn_pc' = "sleep"
    /\ UNCHANGED <<connUnchanged, buffer, exchange, link, rx, reader>>

\* await_handshake writes a poll, and another after every interval
HandshakePoll ==
    /\ conn_pc = "handshake" /\ ~handshake_received /\ Len(rx) < MaxReplies
    /\ \/ WriteOk /\ Reply(dev_state) /\ UNCHANGED <<conn_pc, link, connection_status>>
       \/ WriteFails /\ connection_status' = "Error" /\ conn_pc' = "close" /\ UNCHANGED rx
    /\ UNCHANGED <<connUnchanged, handshake_received, buffer, exchange, reader>>

HandshakeDone ==
    /\ conn_pc = "handshake" /\ handshake_received
    /\ connection_status' = "Connected" /\ conn_pc' = "poll"
    /\ UNCHANGED <<connUnchanged, handshake_received, buffer, exchange, link, rx, reader>>

\* the deadline passed (a device that is up answers before it)
HandshakeTimeout ==
    /\ conn_pc = "handshake" /\ ~handshake_received /\ device # "up"
    /\ connection_status' = "Error" /\ conn_pc' = "close"
    /\ UNCHANGED <<connUnchanged, handshake_received, buffer, exchange, link, rx, reader>>

\* status_poll_loop: leave, or poll unless a job runs
Poll ==
    /\ conn_pc = "poll"
    /\ \/ (~open \/ ~keep_running) /\ conn_pc' = "close"
       \/ open /\ keep_running /\ (PollWhileRunning \/ ~job_running) /\ conn_pc' = "poll_lock"
    /\ UNCHANGED <<connUnchanged, handshake_received, connection_status, buffer, exchange, link, rx, reader>>

\* mutant: a poll that cannot be written is only logged
PollWrite_ignores_failure ==
    /\ conn_pc = "poll_lock" /\ cmd_lock = "none" /\ Len(rx) < MaxReplies
    /\ Reply(dev_state) /\ conn_pc' = "poll"
    /\ UNCHANGED <<connUnchanged, handshake_received, connection_status, buffer, exchange, link, reader>>

\* the write, with cmd_lock for its duration
PollWrite ==
    /\ conn_pc = "poll_lock" /\ cmd_lock = "none" /\ Len(rx) < MaxReplies
    /\ \/ WriteOk /\ Reply(dev_state) /\ conn_pc' = "poll" /\ UNCHANGED link
       \/ open /\ WriteFails /\ conn_pc' = "close" /\ UNCHANGED rx
       \/ ~open /\ conn_pc' = "poll" /\ UNCHANGED <<link, rx>>
    /\ UNCHANGED <<connUnchanged, handshake_received, connection_status, buffer, exchange, reader>>

\* abort_readers, transport.close(), the line buffer
LoopClose ==
    /\ conn_pc = "close" /\ reader = "idle"
    /\ reader' = "off" /\ rx' = <<>> /\ open' = FALSE /\ broken' = FALSE /\ line_buffer' = "empty" /\ prefix' = "none"
    /\ conn_pc' = "sleep"
    /\ UNCHANGED <<connUnchanged, handshake_received, connection_status, exchange>>

\* reconnect_delay passes
LoopSleep ==
    /\ conn_pc = "sleep" /\ keep_running
    /\ connection_status' = "Sleeping" /\ conn_pc' = "top"
    /\ UNCHANGED <<connUnchanged, handshake_received, buffer, exchange, link, rx, reader>>

LoopEnd ==
    /\ conn_pc \in {"top", "sleep"} /\ ~keep_running
    /\ conn_pc' = "none"
    /\ UNCHANGED <<connUnchanged, handshake_received, connection_status, buffer, exchange, link, rx, reader>>

(***************************************************************************)
(* handle_rx                                                               *)
(***************************************************************************)
readerUnchanged == <<keep_running, job_running, is_cancelled, is_holding, connection_status, cmd_lock, slot, link,
                     conn_pc, pc, arg, sent, device, firmware, bounds>>
finish_pending == finished' = (finished \/ slot # "none")
\* the next line is complete
Line == reader = "idle" /\ rx # <<>> /\ rx' = Tail(rx) /\ line_buffer' = "empty" /\ prefix' = "none"
Intact == line_buffer \in {"empty", "part"}

\* a chunk ends within a line
Fragment ==
    /\ reader = "idle" /\ rx # <<>> /\ line_buffer = "empty"
    /\ line_buffer' = "part"
    /\ prefix' \in CASE Head(rx) \in Statuses -> {"report"}
                     [] Head(rx) = "error" -> {"none", "error"}
                     [] Head(rx) = "ALARM" -> {"none", "ALARM"}
                     [] OTHER -> {"none"}
    /\ UNCHANGED <<readerUnchanged, job_exception, handshake_received, status, finished, rx, reader>>

\* What handle_line takes the line for.  It compares prefixes, and the last character of a report: a
\* line behind a piece of an old one is what the piece began as; the rest of a torn line is nothing.
Taken ==
    CASE Intact /\ Head(rx) \in Statuses -> "report"
      [] Intact /\ Head(rx) \notin Statuses -> Head(rx)
      [] ~Intact /\ prefix \in {"error", "ALARM"} -> prefix
      [] ~Intact /\ prefix = "report" /\ Head(rx) \in Statuses -> "report"
      [] OTHER -> "other"

\* the status that a report names: behind a piece of an old report that of the old one, or none
Reported == IF Intact THEN {Head(rx)} ELSE Statuses \cup {"Unknown"}

\* a line that is nothing the session knows
handle_other ==
    /\ Line /\ Taken = "other"
    /\ UNCHANGED <<readerUnchanged, job_exception, handshake_received, status, finished, reader>>

handle_ok ==
    /\ Line /\ Taken = "ok"
    /\ finish_pending
    /\ UNCHANGED <<readerUnchanged, job_exception, handshake_received, status, reader>>

\* the exception of a running job is recorded after the pending command is finished
handle_error_line ==
    /\ Line /\ Taken = "error"
    /\ finish_pending /\ reader' = "raise"
    /\ UNCHANGED <<readerUnchanged, job_exception, handshake_received, status>>

handle_alarm ==
    /\ Line /\ Taken = "ALARM"
    /\ status' = "Alarm"
    /\ finish_pending /\ reader' = "raise"
    /\ UNCHANGED <<readerUnchanged, job_exception, handshake_received>>

Raise ==
    /\ reader = "raise" /\ reader' = "idle"
    /\ job_exception' = (job_exception \/ job_running)
    /\ UNCHANGED <<readerUnchanged, handshake_received, status, buffer, finished, rx>>

\* mutant: an idle device is always taken to be between two commands
Adjusted_always_run(st) ==
    LET run == IF st = "Idle" THEN "Run" ELSE st
    IN  IF is_holding /\ run # "Alarm" THEN "Hold" ELSE run

\* what the session makes of a reported status: a job's Idle is Run, a hold owns the pause state
Adjusted(st) ==
    LET run == IF job_running /\ st = "Idle" THEN "Run" ELSE st
    IN  IF is_holding /\ run # "Alarm" THEN "Hold" ELSE run

\* handle_status_report computes the new state from the flags and, under the mutex again, stores it
handle_status_report ==
    /\ Line /\ Taken = "report"
    /\ handshake_received' = TRUE
    /\ \E st \in Reported : reader' = Adjusted(st)
    /\ UNCHANGED <<readerUnchanged, job_exception, status, finished>>

StatusStore ==
    /\ reader \in Statuses \cup {"Unknown"}
    /\ status' = reader /\ reader' = "idle"
    /\ UNCHANGED <<readerUnchanged, job_exception, handshake_received, buffer, finished, rx>>

(***************************************************************************)
(* ping_pong, for the job's lines and the user's commands                  *)
(***************************************************************************)
senderUnchanged == <<flags, handshake_received, status, connection_status, buffer, reader, conn_pc, arg, device, bounds>>

\* the firmware takes a line: a motion is queued, anything else answered at once;
\* in ALARM it rejects motions until the user has cleared it
DeviceLine(s) ==
    IF device # "up" THEN UNCHANGED <<rx, firmware>>
    ELSE CASE s = "job" /\ dev_state # "Alarm" -> /\ dev_queue' = dev_queue + 1 /\ dev_state' = "Run"
                                                  /\ UNCHANGED <<rx, dev_hold>>
           [] s = "job" /\ dev_state = "Alarm" -> Reply("error") /\ UNCHANGED firmware
           [] OTHER -> /\ Reply("ok")
                       /\ dev_state' = IF dev_state = "Alarm" /\ s = "user" THEN "Idle" ELSE dev_state
                       /\ UNCHANGED <<dev_queue, dev_hold>>

\* run goes on after its line; execute_command returns
After(s, label) == Goto(s, IF s = "job" THEN label ELSE "ready")

\* cmd_lock, the transport check, the slot and the write; a write that fails lets go of both
Send(s) ==
    /\ pc[s] = "lock" /\ cmd_lock = "none"
    /\ \/ /\ WriteOk /\ DeviceLine(s)
          /\ cmd_lock' = s /\ slot' = s /\ Goto(s, "wait")
          /\ UNCHANGED link
       \/ open /\ WriteFails /\ After(s, "failed") /\ UNCHANGED <<cmd_lock, slot, rx, firmware>>
       \/ ~open /\ After(s, "failed") /\ UNCHANGED <<cmd_lock, slot, link, rx, firmware>>
    /\ UNCHANGED <<senderUnchanged, sent, finished>>

\* the end of ping_pong: the slot, the PendingCmd and the guard
Leave == slot' = "none" /\ finished' = FALSE /\ cmd_lock' = "none"

\* finished.wait() returned; run looks for an exception
Finish(s) ==
    /\ pc[s] = "wait" /\ finished
    /\ Leave /\ After(s, IF job_exception THEN "end" ELSE "head")
    /\ UNCHANGED <<senderUnchanged, sent, link, rx, firmware>>

\* mutant: the wait for an acknowledgement has no timeout while the link is open
Timeout_only_closed(s) ==
    /\ pc[s] = "wait" /\ ~finished /\ ~open
    /\ Leave /\ After(s, "failed")
    /\ UNCHANGED <<senderUnchanged, sent, link, rx, firmware>>

\* mutant: a timeout releases the lock and leaves the command in the slot
Timeout_keeps_slot(s) ==
    /\ pc[s] = "wait" /\ ~finished
    /\ cmd_lock' = "none" /\ After(s, "failed")
    /\ UNCHANGED <<senderUnchanged, slot, finished, sent, link, rx, firmware>>

\* command_timeout passed
Timeout(s) ==
    /\ pc[s] = "wait" /\ ~finished
    /\ Leave /\ After(s, "failed")
    /\ UNCHANGED <<senderUnchanged, sent, link, rx, firmware>>

\* send_safety_shutdown: the tool-off commands, past lock and slot
send_safety_shutdown ==
    \/ WriteOk /\ DeviceLine("safety") /\ UNCHANGED link
    \/ open /\ WriteFails /\ UNCHANGED <<rx, firmware>>
    \/ ~open /\ UNCHANGED <<link, rx, firmware>>

(***************************************************************************)
(* run                                                                     *)
(***************************************************************************)
jobUnchanged == <<keep_running, handshake_received, connection_status, buffer, exchange, reader, conn_pc, arg, device, bounds>>

start_job ==
    /\ pc["job"] = "ready"
    /\ is_cancelled' = FALSE /\ job_running' = TRUE /\ is_holding' = FALSE /\ job_exception' = FALSE
    /\ status' = "Run"
    /\ Goto("job", "head")
    /\ UNCHANGED <<jobUnchanged, sent, link, rx, firmware>>

RunHead ==
    /\ pc["job"] = "head"
    /\ IF is_cancelled \/ status = "Alarm" \/ sent = Lines
       THEN Goto("job", "end") /\ UNCHANGED sent
       ELSE Goto("job", "lock") /\ sent' = sent + 1
    /\ UNCHANGED <<jobUnchanged, job_running, is_cancelled, is_holding, job_exception, status, link, rx, firmware>>

RunEnd ==
    /\ pc["job"] \in {"end", "failed"}
    /\ job_exception' = FALSE /\ job_running' = FALSE /\ is_holding' = FALSE
    /\ Goto("job", IF job_exception \/ pc["job"] = "failed" THEN "shutdown" ELSE "done")
    /\ UNCHANGED <<jobUnchanged, is_cancelled, status, sent, link, rx, firmware>>

Shutdown(s) ==
    /\ pc[s] = "shutdown"
    /\ send_safety_shutdown
    /\ Goto(s, IF s = "job" THEN "done" ELSE "ready")
    /\ UNCHANGED <<senderUnchanged, exchange, sent>>

(***************************************************************************)
(* The user's calls                                                        *)
(***************************************************************************)
callUnchanged == <<keep_running, handshake_received, connection_status, cmd_lock, reader, conn_pc, sent, device, faults>>

execute_command ==
    /\ Call
    /\ is_cancelled' = (is_cancelled /\ job_running)
    /\ Goto("user", "lock")
    /\ UNCHANGED <<callUnchanged, job_running, is_holding, job_exception, status, buffer, slot, finished, link, rx, firmware, arg>>

\* cancel: the flags, the waiting command, the line buffer
CancelFlags ==
    /\ Call
    /\ is_cancelled' = TRUE /\ job_running' = FALSE /\ is_holding' = FALSE
    /\ resolve_pending
    /\ line_buffer' \in CASE line_buffer = "old" -> {"empty", "torn"}
                          [] line_buffer \in {"part", "torn"} -> {"torn"}
                          [] OTHER -> {"empty"}
    /\ prefix' = "none"
    /\ Goto("user", IF open THEN "ctrl_c" ELSE "ready")
    /\ UNCHANGED <<callUnchanged, job_exception, status, link, rx, firmware, arg>>

\* Ctrl+C: the firmware drops its motions and the hold
CancelWrite ==
    /\ pc["user"] = "ctrl_c"
    /\ \/ /\ WriteOk /\ Goto("user", "shutdown") /\ UNCHANGED link
          /\ IF device = "up" THEN dev_queue' = 0 /\ dev_hold' = FALSE /\ dev_state' = "Idle"
                              ELSE UNCHANGED firmware
       \/ WriteFails /\ Goto("user", "ready") /\ UNCHANGED firmware
    /\ UNCHANGED <<senderUnchanged, exchange, sent, rx>>

HoldFlag ==
    /\ Call
    /\ is_holding' \in BOOLEAN
    /\ IF open THEN Goto("user", "hold") /\ arg' = is_holding'
               ELSE UNCHANGED <<pc, arg>>
    /\ UNCHANGED <<callUnchanged, job_running, is_cancelled, job_exception, status, buffer, slot, finished, link, rx, firmware>>

\* the firmware's feed hold
DeviceHold ==
    IF device # "up" THEN UNCHANGED firmware
    ELSE /\ dev_hold' = arg
         /\ \/ arg /\ dev_state' = IF dev_state = "Run" THEN "Hold" ELSE dev_state
            \/ ~arg /\ dev_state' \in IF dev_state # "Hold" THEN {dev_state}
                                      ELSE {"Idle"} \cup (IF dev_queue > 0 THEN {"Run"} ELSE {})
         /\ UNCHANGED dev_queue

HoldWrite ==
    /\ pc["user"] = "hold" /\ Goto("user", "ready") /\ arg' = FALSE
    /\ \/ /\ WriteOk /\ DeviceHold /\ UNCHANGED link
          /\ status' = IF arg THEN "Hold" ELSE IF job_running THEN "Run" ELSE "Idle"
       \/ WriteFails /\ UNCHANGED <<status, firmware>>
    /\ UNCHANGED <<callUnchanged, calls, job_running, is_cancelled, is_holding, job_exception, buffer, slot, finished, rx>>

(***************************************************************************)
(* The device                                                              *)
(***************************************************************************)
deviceUnchanged == <<flags, handshake_received, status, connection_status, buffer, exchange, open, reader, conn_pc, pc, arg, sent, calls>>
Fault == faults < MaxFaults /\ faults' = faults + 1

\* a motion ends and its line is acknowledged
Motion ==
    /\ device # "silent" /\ dev_queue > 0 /\ ~dev_hold
    /\ dev_queue' = dev_queue - 1
    /\ dev_state' = IF dev_queue' = 0 /\ dev_state = "Run" THEN "Idle" ELSE dev_state
    /\ Reply("ok")
    /\ UNCHANGED <<deviceUnchanged, broken, device, dev_hold, faults>>

Alarm ==
    /\ Fault /\ device = "up"
    /\ dev_state' = "Alarm" /\ dev_queue' = 0 /\ Reply("ALARM")
    /\ UNCHANGED <<deviceUnchanged, broken, device, dev_hold>>

Unplug ==
    /\ Fault /\ device # "gone"
    /\ device' = "gone" /\ broken' = open
    /\ UNCHANGED <<deviceUnchanged, rx, firmware>>

Hang ==
    /\ Fault /\ device = "up"
    /\ device' = "silent"
    /\ UNCHANGED <<deviceUnchanged, broken, rx, firmware>>

Recover ==
    /\ device # "up" /\ device' = "up"
    /\ UNCHANGED <<deviceUnchanged, broken, rx, firmware, faults>>

-----------------------------------------------------------------------------
ConnStep ==
    \/ LoopTop \/ LoopOpenFails \/ HandshakePoll \/ HandshakeDone \/ HandshakeTimeout \/ Poll \/ LoopClose \/ LoopSleep \/ LoopEnd
ReaderStep == handle_other \/ handle_ok \/ handle_error_line \/ handle_alarm \/ Raise \/ handle_status_report \/ StatusStore
Exchange(s) == Finish(s) \/ Timeout(s) \/ Shutdown(s)
RunStep == RunHead \/ RunEnd
UserStep == CleanupClose \/ CancelWrite \/ HoldWrite

Next ==
    \/ CleanupFlags \/ execute_command \/ CancelFlags \/ HoldFlag \/ UserStep \/ ConnDrop \/ ReaderDrop
    \/ ConnStep \/ PollWrite
    \/ Fragment \/ ReaderStep
    \/ \E s \in Senders : Send(s) \/ Exchange(s)
    \/ start_job \/ RunStep
    \/ Motion \/ Alarm \/ Unplug \/ Hang \/ Recover

Spec == Init /\ [][Next]_vars

\* The tasks run, timeouts pass and tokio's mutex is first come, first served; a device that
\* is up finishes its motions and answers a handshake poll before the deadline.
Fairness ==
    /\ WF_vars(ConnStep) /\ SF_vars(PollWrite) /\ WF_vars(HandshakeDone)
    /\ WF_vars(ReaderStep) /\ WF_vars(Motion)
    /\ WF_vars(Exchange("job") \/ RunStep) /\ SF_vars(Send("job"))
    /\ WF_vars(Exchange("user") \/ UserStep \/ ConnDrop \/ ReaderDrop) /\ SF_vars(Send("user"))
FairSpec == Spec /\ Fairness

-----------------------------------------------------------------------------
PC == {"ready", "head", "lock", "wait", "failed", "end", "shutdown", "done",
       "aborting", "ctrl_c", "hold"}
ConnPC == {"none", "top", "handshake", "poll", "poll_lock", "close", "sleep"}

FlagsOK ==
    /\ keep_running \in BOOLEAN /\ job_running \in BOOLEAN /\ is_cancelled \in BOOLEAN /\ is_holding \in BOOLEAN
    /\ job_exception \in BOOLEAN /\ handshake_received \in BOOLEAN /\ finished \in BOOLEAN
    /\ open \in BOOLEAN /\ broken \in BOOLEAN /\ arg \in BOOLEAN /\ dev_hold \in BOOLEAN

PlacesOK ==
    /\ status \in Statuses \cup {"Unknown"} /\ connection_status \in {"Disconnected", "Connected", "Error", "Sleeping"}
    /\ line_buffer \in {"empty", "part", "old", "torn"}
    /\ prefix \in {"none", "report", "error", "ALARM"}
    /\ cmd_lock \in Senders \cup {"none"} /\ slot \in Senders \cup {"none"}
    /\ rx \in Seq(Statuses \cup {"ok", "error", "ALARM"}) /\ reader \in Statuses \cup {"Unknown", "off", "idle", "raise"}
    /\ conn_pc \in ConnPC /\ pc \in [Senders -> PC] /\ sent \in 0 .. Lines
    /\ device \in {"up", "silent", "gone"} /\ dev_queue \in Nat /\ dev_state \in Statuses
    /\ calls \in 0 .. MaxCalls /\ faults \in 0 .. MaxFaults

\* Every variable keeps its type, and no bound is exceeded.
TypeOK == FlagsOK /\ PlacesOK

\* The slot and a finished PendingCmd belong to the sender that has cmd_lock and waits: no way out of
\* ping_pong, and no cancel() or cleanup() that lets go of a waiting command, leaves behind anything
\* that would let a later command return before its own answer (ping_pong, resolve_pending).
NothingLeftOver ==
    /\ \A s \in Senders : pc[s] = "wait" <=> cmd_lock = s
    /\ slot \in {"none", cmd_lock}
    /\ finished => cmd_lock # "none"

\* A piece of a line that an earlier link left in the buffer (cleanup() does not clear it) is
\* used up before the session says Connected.  The first line of the new link is lost to it, or
\* taken for an error, an ALARM or a report of the old link, which may even pass for the answer to
\* the handshake; but the answer to a command of a caller that waited for Connected is never glued
\* to it (connection_loop, await_handshake, handle_rx, handle_line).
FreshBuffer == connection_status = "Connected" /\ open => line_buffer # "old"

\* Once cleanup() returned, no task is left that opens the transport, reports a connection
\* status or changes the device state; only a run() called afterwards sets its status
\* (abort_background_tasks awaits what it aborts).
CleanupIsFinal ==
    [][~keep_running /\ ~keep_running' /\ pc["user"] = "ready" /\ pc'["user"] = "ready"
       => UNCHANGED <<connection_status, open>> /\ (status' = status \/ pc["job"] # pc'["job"])]_vars

\* run() returns whatever happens to link and device, in a hold, after a cancel() and after a
\* cleanup(), which leaves it running (command_timeout, resolve_pending).
RunReturns == pc["job"] = "head" ~> pc["job"] = "done"

\* A session that is not cleaned up again and whose device is up for good becomes Connected
\* over a link that works and stays so, whatever was in flight when the link was lost: a command that waits for its answer
\* holds the poll up for command_timeout at most (connection_loop, status_poll_loop).
Reconnects == <>[](device = "up" /\ keep_running) => <>[](connection_status = "Connected" /\ WriteOk)

\* With no job and no hold the session's status ends up as the device's, although a report may
\* be lost, garbled or stored over a newer status (status_poll_loop, handle_status_report).
StatusSettles ==
    <>[](device = "up" /\ keep_running /\ ~job_running /\ ~is_holding) => <>[](status = dev_state)

\* What the comment in handle_status_report says: while a job runs, Idle is reported as Run, and a
\* requested hold owns the pause state.
StatusHonest ==
    [][(reader \in Statuses /\ reader' = "idle") => Adjusted(reader) = reader]_vars

\* What the test of a hold asserts: a held job stays parked until it is resumed.
HoldParksJob ==
    [][pc["job"] = "wait" /\ is_holding /\ dev_hold /\ device = "up" /\ WriteOk => pc'["job"] # "failed"]_vars
=============================================================================
