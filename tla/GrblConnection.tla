--------------------------- MODULE GrblConnection ---------------------------
(***************************************************************************)
(* The connection of a GRBL session (src/src/grbl/session.rs): connect(),  *)
(* cleanup(), the connection loop with its handshake, build-info request   *)
(* and status polling, and what a lost link leaves behind in the flow      *)
(* control.  One user task calls connect, cleanup, run and execute_command *)
(* in turn; the connection loop, the command loop and the job are tasks.   *)
(*                                                                         *)
(* A step ends where a task awaits, waits for cmd_lock or writes.  The     *)
(* transport notices a lost link only when a write fails.                  *)
(*                                                                         *)
(* Abstracted: the pending queue is "none" (empty), "live" (its commands   *)
(* will be answered) or "lost" (some were written to, or failed on, a link *)
(* that is gone and will never be answered); a job is one such command.    *)
(***************************************************************************)
EXTENDS Integers

CONSTANTS MaxFaults,    \* bound: changes for the worse of device or link
          MaxCalls      \* bound: calls of connect, cleanup, run, execute_command

ASSUME BoundsAssumption == MaxFaults \in Nat /\ MaxCalls \in Nat

VARIABLES
    keep_running, job_running, handshake_received,   \* SessionCore
    last_connection_status,
    streaming,            \* the job's task is alive
    pending,              \* FlowControl.pending: "none", "live" or "lost"
    open,                 \* transport.is_open()
    stale,                \* the open link is broken and no write has failed on it yet
    device,               \* "up", "silent" (does not answer) or "gone"
    conn_pc, command_pc,  \* connection_task and command_task
    answered,             \* a response arrived since the poll was written
    user_pc,              \* the user's task
    faults, calls         \* counters of the two bounds

core == <<keep_running, job_running, streaming, handshake_received>>
linkVars == <<open, stale>>
bounds == <<faults, calls>>
vars == <<core, last_connection_status, pending, linkVars, device, conn_pc, command_pc, answered, user_pc, bounds>>

Init ==
    /\ keep_running = FALSE /\ job_running = FALSE /\ streaming = FALSE /\ handshake_received = FALSE
    /\ last_connection_status = "Disconnected"
    /\ pending = "none"
    /\ open = FALSE /\ stale = FALSE /\ device \in {"up", "gone"}
    /\ conn_pc = "none" /\ command_pc = "none" /\ answered = FALSE
    /\ user_pc = "clean"
    /\ faults = 0 /\ calls = 0

ConnPC == {"none", "top", "handshake", "build_info_lock", "build_info", "build_info_wait", "connected", "poll", "poll_wait",
           "close", "sleep"}
UserPC == {"clean", "connecting", "on", "stopping", "aborting"}
Statuses == {"Disconnected", "Error", "Connected", "Sleeping"}

ConnGoto(label) == conn_pc' = label
update_connection_status(s) == last_connection_status' = s
Calls == calls < MaxCalls /\ calls' = calls + 1

\* what becomes of the pending commands with the link: no ok of a closed link arrives any more
Unanswered == IF pending = "live" THEN "lost" ELSE pending
\* A write on the transport: it fails, and closes the transport, on a broken link.
WriteOk == open /\ ~stale
WriteFails == ~WriteOk /\ open' = FALSE /\ UNCHANGED stale
\* a counted command is written: answered later, or on a dead link never
TrackAndWrite ==
    IF WriteOk THEN /\ pending' = (IF pending = "lost" THEN "lost" ELSE "live")
                    /\ UNCHANGED linkVars
               ELSE pending' = "lost" /\ WriteFails

(***************************************************************************)
(* connect() and cleanup().                                                *)
(***************************************************************************)
\* abort_background_tasks: the tasks are aborted, then awaited
Connect ==
    /\ user_pc \in {"clean", "on"} /\ Calls
    /\ user_pc' = "connecting"
    /\ UNCHANGED <<core, last_connection_status, pending, linkVars, device, conn_pc, command_pc, answered, faults>>

\* an aborted task is dropped where it awaits
ConnDrop ==
    /\ user_pc \in {"connecting", "aborting"}
    /\ conn_pc # "none" /\ ConnGoto("none")
    /\ UNCHANGED <<core, last_connection_status, pending, linkVars, device, command_pc, answered, user_pc, bounds>>

CommandDrop ==
    /\ user_pc \in {"connecting", "aborting"}
    /\ command_pc # "none" /\ command_pc' = "none"
    /\ UNCHANGED <<core, last_connection_status, pending, linkVars, device, conn_pc, answered, user_pc, bounds>>

Dropped == conn_pc = "none" /\ command_pc = "none"

\* transport.close, the flags, flow.reset, the two new tasks; the job's task is left alone
ConnectStart ==
    /\ user_pc = "connecting" /\ Dropped
    /\ open' = FALSE /\ stale' = FALSE
    /\ keep_running' = TRUE /\ job_running' = FALSE /\ pending' = "none"
    /\ ConnGoto("top") /\ command_pc' = "idle"
    /\ user_pc' = "on"
    /\ UNCHANGED <<handshake_received, streaming, last_connection_status, device, answered, bounds>>

\* cleanup: first the flags
CleanupStop ==
    /\ user_pc = "on" /\ Calls
    /\ keep_running' = FALSE /\ job_running' = FALSE
    /\ user_pc' = "stopping"
    /\ UNCHANGED <<handshake_received, streaming, last_connection_status, pending, linkVars, device, conn_pc, command_pc, answered, faults>>

\* abort_stream_task, flow.reset, then abort_background_tasks
CleanupAbort ==
    /\ user_pc = "stopping"
    /\ pending' = "none" /\ streaming' = FALSE
    /\ user_pc' = "aborting"
    /\ UNCHANGED <<keep_running, job_running, handshake_received, last_connection_status, linkVars, device, conn_pc, command_pc, answered, bounds>>

\* mutant: the aborted tasks are not awaited
CleanupEnd_no_await ==
    /\ user_pc = "aborting"
    /\ open' = FALSE /\ stale' = FALSE
    /\ update_connection_status("Disconnected")
    /\ user_pc' = "clean"
    /\ UNCHANGED <<core, pending, device, conn_pc, command_pc, answered, bounds>>

CleanupEnd ==
    /\ user_pc = "aborting" /\ Dropped
    /\ open' = FALSE /\ stale' = FALSE
    /\ update_connection_status("Disconnected") /\ pending' = Unanswered
    /\ user_pc' = "clean"
    /\ UNCHANGED <<core, device, conn_pc, command_pc, answered, bounds>>

(***************************************************************************)
(* connection_loop.                                                        *)
(***************************************************************************)
LoopTop ==
    /\ conn_pc = "top"
    /\ IF ~keep_running THEN ConnGoto("none") /\ UNCHANGED <<handshake_received, last_connection_status, linkVars>>
       ELSE /\ handshake_received' = FALSE
            /\ IF device = "gone"
               THEN update_connection_status("Error") /\ ConnGoto("sleep") /\ UNCHANGED linkVars
               ELSE /\ open' = TRUE /\ stale' = FALSE
                    /\ ConnGoto("handshake") /\ UNCHANGED last_connection_status
    /\ UNCHANGED <<keep_running, job_running, streaming, pending, device, command_pc, answered, user_pc, bounds>>

\* await_handshake: the poll cannot be written
HandshakeFails ==
    /\ conn_pc = "handshake" /\ WriteFails
    /\ update_connection_status("Error") /\ ConnGoto("close")
    /\ UNCHANGED <<core, pending, device, command_pc, answered, user_pc, bounds>>

\* mutant: the handshake result is ignored
HandshakeTimeout_goes_on ==
    /\ conn_pc = "handshake" /\ ~handshake_received /\ device # "up"
    /\ ConnGoto("build_info_lock")
    /\ UNCHANGED <<core, last_connection_status, pending, linkVars, device, command_pc, answered, user_pc, bounds>>

\* the deadline passed without an answer (a device that is up answers in time)
HandshakeTimeout ==
    /\ conn_pc = "handshake" /\ ~handshake_received /\ device # "up"
    /\ update_connection_status("Error") /\ ConnGoto("close")
    /\ UNCHANGED <<core, pending, linkVars, device, command_pc, answered, user_pc, bounds>>

HandshakeDone ==
    /\ conn_pc = "handshake" /\ handshake_received
    /\ ConnGoto("build_info_lock")
    /\ UNCHANGED <<core, last_connection_status, pending, linkVars, device, command_pc, answered, user_pc, bounds>>

\* execute_interactive_command("$I"): transport_open()? and cmd_lock
BuildInfoLock ==
    /\ conn_pc = "build_info_lock"
    /\ ConnGoto(IF open THEN "build_info" ELSE "connected")
    /\ UNCHANGED <<core, last_connection_status, pending, linkVars, device, command_pc, answered, user_pc, bounds>>

\* wait_pending_empty(None) holding cmd_lock, then the send
BuildInfoSend ==
    /\ conn_pc = "build_info" /\ pending = "none"
    /\ TrackAndWrite
    /\ ConnGoto(IF WriteOk THEN "build_info_wait" ELSE "connected")
    /\ UNCHANGED <<core, last_connection_status, device, command_pc, answered, user_pc, bounds>>

\* the response came, or command_timeout passed; a failure is only logged
BuildInfoDone ==
    /\ conn_pc = "build_info_wait"
    /\ ConnGoto("connected")
    /\ UNCHANGED <<core, last_connection_status, pending, linkVars, device, command_pc, answered, user_pc, bounds>>

Connected ==
    /\ conn_pc = "connected"
    /\ update_connection_status("Connected") /\ ConnGoto("poll")
    /\ UNCHANGED <<core, pending, linkVars, device, command_pc, answered, user_pc, bounds>>

\* status_poll_loop: leave, skip a round during a job, or write a poll
Poll ==
    /\ conn_pc = "poll"
    /\ \/ /\ ~open \/ ~keep_running
          /\ ConnGoto("close") /\ UNCHANGED <<linkVars, answered>>
       \/ /\ keep_running /\ ~job_running /\ WriteOk
          /\ ConnGoto("poll_wait") /\ answered' = FALSE /\ UNCHANGED linkVars
       \/ /\ keep_running /\ ~job_running /\ open /\ WriteFails
          /\ ConnGoto("close") /\ UNCHANGED answered
    /\ UNCHANGED <<core, last_connection_status, pending, device, command_pc, user_pc, bounds>>

\* mutant: an answered poll does not clear the error
PollRound_keeps_error ==
    /\ conn_pc = "poll_wait"
    /\ ConnGoto(IF keep_running /\ open THEN "poll" ELSE "close")
    /\ UNCHANGED <<core, last_connection_status, pending, linkVars, device, command_pc, answered, user_pc, bounds>>

\* a device that answers after an error is alive: the status recovers
PollRound ==
    /\ conn_pc = "poll_wait"
    /\ answered \/ device # "up" \/ stale \/ ~open
    /\ IF ~keep_running \/ ~open THEN ConnGoto("close") /\ UNCHANGED last_connection_status
       ELSE /\ ConnGoto("poll")
            /\ IF last_connection_status = "Error" /\ answered THEN update_connection_status("Connected")
                                                   ELSE UNCHANGED last_connection_status
    /\ UNCHANGED <<core, pending, linkVars, device, command_pc, answered, user_pc, bounds>>

\* mutant: the transport is left open
LoopClose_leaves_open ==
    /\ conn_pc = "close"
    /\ ConnGoto("sleep")
    /\ UNCHANGED <<core, last_connection_status, pending, linkVars, device, command_pc, answered, user_pc, bounds>>

LoopClose ==
    /\ conn_pc = "close"
    /\ open' = FALSE /\ stale' = FALSE
    /\ ConnGoto("sleep") /\ pending' = Unanswered
    /\ UNCHANGED <<core, last_connection_status, device, command_pc, answered, user_pc, bounds>>

LoopSleep ==
    /\ conn_pc = "sleep"
    /\ IF keep_running THEN update_connection_status("Sleeping") /\ ConnGoto("top")
                       ELSE ConnGoto("none") /\ UNCHANGED last_connection_status
    /\ UNCHANGED <<core, pending, linkVars, device, command_pc, answered, user_pc, bounds>>

(***************************************************************************)
(* Jobs and queued commands.                                               *)
(***************************************************************************)
LockFree == conn_pc \notin {"build_info", "build_info_wait"}

\* start_job resets the flow control; a task still alive is replaced
Run ==
    /\ user_pc = "on" /\ Calls
    /\ job_running' = TRUE /\ streaming' = TRUE /\ pending' = "none"
    /\ UNCHANGED <<keep_running, handshake_received, last_connection_status, linkVars, device, conn_pc, command_pc, answered, user_pc, faults>>

\* send_gcode_line, when it succeeds
JobSend ==
    /\ streaming /\ LockFree /\ WriteOk /\ pending = "none"
    /\ pending' = "live"
    /\ UNCHANGED <<core, last_connection_status, linkVars, device, conn_pc, command_pc, answered, user_pc, bounds>>

\* All is acknowledged; or, under cmd_lock, a line or a poll finds the transport closed, cannot be
\* written or, a poll, remains unanswered: then cancel() resets if the transport is open.
JobEnd ==
    /\ streaming
    /\ streaming' = FALSE /\ job_running' = FALSE
    /\ \/ pending = "none" /\ UNCHANGED <<pending, linkVars>>
       \/ LockFree /\ ~open /\ UNCHANGED <<pending, linkVars>>
       \/ LockFree /\ WriteOk /\ (pending = "lost" \/ device # "up") /\ pending' = "none" /\ UNCHANGED linkVars
       \/ LockFree /\ open /\ WriteFails /\ pending' = "lost"
    /\ UNCHANGED <<keep_running, handshake_received, last_connection_status, device, conn_pc, command_pc, answered, user_pc, bounds>>

\* execute_command; the loop drops the command when the transport is closed
CommandCall ==
    /\ user_pc = "on" /\ command_pc = "idle" /\ open /\ Calls
    /\ command_pc' = "taken"
    /\ UNCHANGED <<core, last_connection_status, pending, linkVars, device, conn_pc, answered, user_pc, faults>>

CommandSend ==
    /\ command_pc = "taken" /\ LockFree
    /\ command_pc' = IF WriteOk THEN "idle" ELSE "failed"
    /\ IF open THEN TrackAndWrite ELSE UNCHANGED <<pending, linkVars>>
    /\ UNCHANGED <<core, last_connection_status, device, conn_pc, answered, user_pc, bounds>>

\* the error is reported after cmd_lock was released
CommandError ==
    /\ command_pc = "failed"
    /\ update_connection_status("Error")
    /\ command_pc' = "idle"
    /\ UNCHANGED <<core, pending, linkVars, device, conn_pc, answered, user_pc, bounds>>

(***************************************************************************)
(* The device.                                                             *)
(***************************************************************************)
\* an answer to a poll reaches the reader: the handshake, or proof of life
Answer ==
    /\ device = "up" /\ WriteOk /\ conn_pc \in {"handshake", "poll_wait"}
    /\ handshake_received' = TRUE /\ answered' = TRUE
    /\ UNCHANGED <<keep_running, job_running, streaming, last_connection_status, pending, linkVars, device, conn_pc, command_pc, user_pc, bounds>>

Ack ==
    /\ device = "up" /\ WriteOk /\ pending = "live"
    /\ pending' = "none"
    /\ UNCHANGED <<core, last_connection_status, linkVars, device, conn_pc, command_pc, answered, user_pc, bounds>>

Fault == faults < MaxFaults /\ faults' = faults + 1

\* the cable is pulled
Unplug ==
    /\ Fault /\ device # "gone"
    /\ device' = "gone" /\ stale' = open
    /\ pending' = Unanswered
    /\ UNCHANGED <<core, last_connection_status, open, conn_pc, command_pc, answered, user_pc, calls>>

Hang ==
    /\ Fault /\ device = "up"
    /\ device' = "silent"
    /\ UNCHANGED <<core, last_connection_status, pending, linkVars, conn_pc, command_pc, answered, user_pc, calls>>

Recover ==
    /\ device # "up" /\ device' = "up"
    /\ UNCHANGED <<core, last_connection_status, pending, linkVars, conn_pc, command_pc, answered, user_pc, bounds>>

ConnStep ==
    \/ LoopTop \/ HandshakeFails \/ HandshakeTimeout \/ HandshakeDone
    \/ BuildInfoLock \/ BuildInfoSend \/ BuildInfoDone \/ Connected
    \/ Poll \/ PollRound \/ LoopClose \/ LoopSleep
UserStep == ConnectStart \/ CleanupAbort \/ CleanupEnd
Next ==
    \/ Connect \/ CleanupStop \/ UserStep \/ ConnDrop \/ CommandDrop
    \/ ConnStep
    \/ Run \/ JobSend \/ JobEnd \/ CommandCall \/ CommandSend \/ CommandError
    \/ Answer \/ Ack \/ Unplug \/ Hang \/ Recover

Spec == Init /\ [][Next]_vars

\* The tasks run; a device that is up answers and acknowledges; a job has finitely many
\* lines, so it cannot send for ever without ending (strong fairness of JobEnd).
Fairness ==
    /\ WF_vars(ConnStep) /\ WF_vars(UserStep) /\ WF_vars(ConnDrop) /\ WF_vars(CommandDrop)
    /\ SF_vars(JobEnd) /\ WF_vars(CommandSend \/ CommandError) /\ WF_vars(Answer) /\ WF_vars(Ack)
FairSpec == Spec /\ Fairness

-----------------------------------------------------------------------------
FlagsOK ==
    /\ keep_running \in BOOLEAN /\ job_running \in BOOLEAN /\ handshake_received \in BOOLEAN /\ streaming \in BOOLEAN
    /\ open \in BOOLEAN /\ stale \in BOOLEAN /\ answered \in BOOLEAN

PlacesOK ==
    /\ last_connection_status \in Statuses /\ pending \in {"none", "live", "lost"} /\ device \in {"up", "silent", "gone"}
    /\ conn_pc \in ConnPC /\ command_pc \in {"none", "idle", "taken", "failed"} /\ user_pc \in UserPC
    /\ faults \in 0..MaxFaults /\ calls \in 0..MaxCalls

\* Every flag, position, status and counter keeps its type, and neither bound is exceeded.
TypeOK == FlagsOK /\ PlacesOK

\* The transport is open only while the connection loop looks after it or the user's task
\* is about to close it: no path through the loop, an abort included, leaks an open link.
NoLeakedLink ==
    open => \/ conn_pc \notin {"none", "top", "sleep"}
            \/ user_pc \in {"connecting", "stopping", "aborting"}

\* Once cleanup() returned, no task is left that opens the transport or reports another
\* connection status (abort_background_tasks awaits the tasks it aborts).
CleanupIsFinal == [][user_pc = "clean" /\ user_pc' = "clean" => UNCHANGED <<last_connection_status, open>>]_vars

\* The status becomes Connected only on a link on which the device has answered since it
\* was opened (await_handshake, status_poll_loop).
ConnectedMeansAnswered ==
    [][last_connection_status' = "Connected" /\ last_connection_status # "Connected" => handshake_received]_vars

Settled == device = "up" /\ user_pc = "on"

\* A session that is connected, whose device is back for good and whose pending queue
\* holds nothing of a lost link, ends up Connected over a link that works and stays so,
\* whatever errors the command loop reported late (connection_loop, status_poll_loop, issue #428).
Reconnects == <>[](Settled /\ pending # "lost") => <>[](last_connection_status = "Connected" /\ WriteOk)

\* What FlowControl::reset says it is for: a reconnect resets the buffer state, so a
\* device that is back for good is Connected again.
ReconnectsAlways == <>[]Settled => <>[](last_connection_status = "Connected")
=============================================================================
