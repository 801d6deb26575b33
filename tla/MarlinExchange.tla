--------------------------- MODULE MarlinExchange ---------------------------
(***************************************************************************)
(* The command exchange of the Marlin session (src/src/marlin/session.rs): *)
(* a FIFO queue of commands that await their answers, user commands and    *)
(* the lines of a job one at a time under cmd_lock, the M114 position poll *)
(* beside them without it, cancel(), and a link that may be lost and       *)
(* reopened.                                                               *)
(*                                                                         *)
(* A command is <<task, n>>.  The device answers in the order it was       *)
(* written to; an answer finishes the front of the queue.  finished_by is  *)
(* a ghost that keeps whose answer it was.  A device that is opened boots  *)
(* and prints lines of text, an ok, or both, as late as it likes; and it   *)
(* may at any time print an error line that answers nothing.               *)
(*                                                                         *)
(* Abstracted: the text of commands and answers, and job_finished.  The    *)
(* device operations are in DeviceOperations.                              *)
(***************************************************************************)
EXTENDS Integers, Sequences, SequencesExt

CONSTANTS Callers,      \* tasks that call execute_command
          Jobs,         \* tasks that call run()
          Poller,       \* the connection task in position_poll_loop
          None,         \* lock free, no answer
          Cancelled,    \* finished by cancel(), without an answer
          Stray,        \* an answer that nothing awaits: to M410, to a tool-off command, to a command given up
          Start,        \* the boot banner up to its ok: neither an ok nor an error
          Banner,       \* the boot banner's trailing ok
          Unasked,      \* an error line that answers nothing
          PollWhileRunning,      \* config.poll_status_while_running
          Lines,        \* lines of a job
          ToolOff,      \* tool-off commands of the dialect
          MaxCommands,  \* bound: commands of one caller, polls
          MaxFaults, MaxOpens   \* bounds: calls of cancel() and error lines, openings of the link

Tasks == Callers \cup Jobs \cup {Poller}
Tokens == {None, Cancelled, Stray, Start, Banner, Unasked}
Commands == Tasks \X Nat
Answers == Commands \cup {Stray, Start, Banner, Unasked}

ASSUME NamesAssumption ==
    /\ Poller \notin Callers \cup Jobs /\ Callers \cap Jobs = {}
    /\ \A x \in Tokens : x \notin Tasks /\ x \notin Commands
    /\ None \notin {Cancelled, Stray, Start, Banner, Unasked}
ASSUME PollAssumption == PollWhileRunning \in BOOLEAN
ASSUME BoundsAssumption == {Lines, ToolOff, MaxCommands, MaxFaults, MaxOpens} \subseteq Nat

VARIABLES
    pending_queue, cmd_lock,          \* MarlinCore
    handshake_received, connected,    \* MarlinCore's two latches
    is_cancelled, job_running, job_exception,
    open,                             \* transport.is_open()
    pc, sent, finished_by,            \* each task
    wire,                             \* what the device has still to answer
    raising,                          \* reader: an error has finished its command and is not recorded yet
    stops,                            \* calls of cancel() that have still to write M410
    cancels, opens, errors,           \* counters of the bounds
    disorder,                         \* ghost: "none", "disordered" (answers may be out of step, see OwnAnswer)
                                      \* or "uncancelled"
    late                              \* ghost: lines that a job has written since it was cancelled

linkVars == <<handshake_received, connected, open>>
jobVars == <<is_cancelled, job_running, job_exception, raising, errors, late>>
exchangeVars == <<pending_queue, cmd_lock, linkVars, pc, sent, finished_by, wire, stops, cancels, opens, disorder>>
vars == <<exchangeVars, jobVars>>

Command(t) == <<t, sent[t]>>

Init ==
    /\ pending_queue = <<>> /\ cmd_lock = None
    /\ handshake_received = FALSE /\ connected = FALSE /\ open = FALSE
    /\ pc = [t \in Tasks |-> IF t = Poller THEN "down" ELSE "idle"] /\ sent = [t \in Tasks |-> 0]
    /\ finished_by = [t \in Tasks |-> None]
    /\ wire = <<>> /\ stops = 0 /\ cancels = 0 /\ opens = 0 /\ disorder = "none"
    /\ is_cancelled = FALSE /\ job_running = FALSE /\ job_exception = FALSE
    /\ raising = FALSE /\ errors = 0 /\ late = [j \in Jobs |-> 0]

Goto(t, label) == pc' = [pc EXCEPT ![t] = label]
OutOfStep(now) == IF now /\ disorder = "none" THEN "disordered" ELSE disorder
Release(t) == cmd_lock' = IF cmd_lock = t THEN None ELSE cmd_lock
\* a failed poll ends position_poll_loop, and connection_loop closes the link
AfterFailure(t) == IF t = Poller THEN "closing" ELSE IF t \in Jobs THEN "interrupted" ELSE "idle"
AfterAnswer(t) == IF t \in Jobs THEN "head" ELSE "idle"
\* between its first loop head and its end
Streaming(j) == pc[j] \notin {"idle", "shutdown", "returned"}
InFlight(t) == pc[t] \in {"write", "wait", "fail"}
Answered(t) == pc[t] = "wait" /\ finished_by[t] # None

(***************************************************************************)
(* ping_pong and enqueue_and_wait                                          *)
(***************************************************************************)
\* execute_command un-cancels the session between jobs; `connected' may keep it waiting
Begin(t) ==
    /\ t \in Callers /\ pc[t] = "idle" /\ sent[t] < MaxCommands
    /\ is_cancelled' = (is_cancelled /\ job_running)
    /\ disorder' = IF is_cancelled /\ ~job_running /\ \E j \in Jobs : Streaming(j) THEN "uncancelled" ELSE disorder
    /\ Goto(t, "gate")
    /\ UNCHANGED <<pending_queue, cmd_lock, linkVars, sent, finished_by, wire, stops, cancels, opens>>
    /\ UNCHANGED <<job_running, job_exception, raising, errors, late>>

\* the latch is set and the transport open, or the call fails (after the deadline)
Gate(t) ==
    /\ pc[t] = "gate"
    /\ Goto(t, IF connected /\ open THEN "lock" ELSE AfterFailure(t))
    /\ UNCHANGED <<pending_queue, cmd_lock, linkVars, sent, finished_by, wire, stops, cancels, opens, disorder, jobVars>>

\* enqueue_and_wait up to its write
Push(t) ==
    /\ sent' = [sent EXCEPT ![t] = @ + 1]
    /\ pending_queue' = Append(pending_queue, Command(t)')
    /\ disorder' = OutOfStep(\E u \in Tasks \ {t} : pc[u] = "write")
    /\ Goto(t, "write")
    /\ UNCHANGED <<linkVars, finished_by, wire, stops, cancels, opens, jobVars>>

\* mutant: no call serializes its exchange
Lock_unserialized(t) ==
    /\ pc[t] = "lock" /\ open
    /\ Push(t) /\ UNCHANGED cmd_lock

Lock(t) ==
    /\ pc[t] = "lock" /\ cmd_lock = None /\ open
    /\ cmd_lock' = t /\ Push(t)

\* a closed transport is noticed under the lock
LockFails(t) ==
    /\ pc[t] = "lock" /\ cmd_lock = None /\ ~open
    /\ Goto(t, AfterFailure(t))
    /\ UNCHANGED <<pending_queue, cmd_lock, linkVars, sent, finished_by, wire, stops, cancels, opens, disorder, jobVars>>

\* position_poll_loop: without the lock
Poll ==
    /\ pc[Poller] = "idle" /\ sent[Poller] < MaxCommands /\ open
    /\ PollWhileRunning \/ ~job_running
    /\ Push(Poller) /\ UNCHANGED cmd_lock

\* the write may fail; then the entry is dropped at once
Write(t) ==
    /\ pc[t] = "write"
    /\ IF open THEN wire' = Append(wire, Command(t)) /\ Goto(t, "wait")
               ELSE UNCHANGED wire /\ Goto(t, "fail")
    /\ late' = [j \in Jobs |-> IF j = t /\ open /\ ~job_running THEN late[j] + 1 ELSE late[j]]
    /\ UNCHANGED <<pending_queue, cmd_lock, linkVars, sent, finished_by, stops, cancels, opens, disorder>>
    /\ UNCHANGED <<is_cancelled, job_running, job_exception, raising, errors>>

\* mutant: a timeout returns at once, without dropping the entry
Timeout_keeps_entry(t) ==
    /\ pc[t] = "wait" /\ finished_by[t] = None
    /\ disorder' = OutOfStep(TRUE)
    /\ Release(t) /\ Goto(t, AfterFailure(t))
    /\ UNCHANGED <<pending_queue, linkVars, sent, finished_by, wire, stops, cancels, opens, jobVars>>

Timeout(t) ==
    /\ pc[t] = "wait" /\ finished_by[t] = None
    /\ disorder' = OutOfStep(TRUE)
    /\ Goto(t, "fail")
    /\ UNCHANGED <<pending_queue, cmd_lock, linkVars, sent, finished_by, wire, stops, cancels, opens, jobVars>>

\* retain(|p| !ptr_eq(p, pending)): every command is a new PendingCmd, pushed once
Without(queue, e) == IF Contains(queue, e) THEN RemoveAt(queue, CHOOSE k \in 1 .. Len(queue) : queue[k] = e) ELSE queue

\* mutant: the guard outlives the call
Leave_keeps_lock(t) ==
    /\ pc[t] = "fail" \/ Answered(t)
    /\ finished_by' = [finished_by EXCEPT ![t] = None]
    /\ wire' = [i \in DOMAIN wire |-> IF wire[i] = Command(t) THEN Stray ELSE wire[i]]
    /\ pending_queue' = Without(pending_queue, Command(t))
    /\ Goto(t, IF pc[t] = "fail" THEN AfterFailure(t) ELSE AfterAnswer(t))
    /\ UNCHANGED <<cmd_lock, linkVars, sent, stops, cancels, opens, disorder, jobVars>>

\* the entry is dropped, if it is still there, and the guard ends
Leave(t) ==
    /\ pc[t] = "fail" \/ Answered(t)
    /\ finished_by' = [finished_by EXCEPT ![t] = None]
    /\ wire' = [i \in DOMAIN wire |-> IF wire[i] = Command(t) THEN Stray ELSE wire[i]]
    /\ pending_queue' = Without(pending_queue, Command(t))
    /\ Release(t) /\ Goto(t, IF pc[t] = "fail" THEN AfterFailure(t) ELSE AfterAnswer(t))
    /\ UNCHANGED <<linkVars, sent, stops, cancels, opens, disorder, jobVars>>

(***************************************************************************)
(* handle_line for an ok or an error                                       *)
(***************************************************************************)
\* the front is finished already and its task has not removed it yet
FrontFinished == pending_queue # <<>> /\ finished_by[Head(pending_queue)[1]] # None

\* only the front, and only if it is not finished yet
finish_pending(answered) ==
    finished_by' = IF pending_queue # <<>> /\ ~FrontFinished
                   THEN [finished_by EXCEPT ![Head(pending_queue)[1]] = answered] ELSE finished_by

\* any line is the handshake
Line ==
    /\ open /\ wire # <<>> /\ ~raising
    /\ wire' = Tail(wire)
    /\ handshake_received' = TRUE
    /\ UNCHANGED <<pending_queue, cmd_lock, connected, open, pc, sent, stops, cancels, opens>>
    /\ UNCHANGED <<is_cancelled, job_running, job_exception, late>>

\* a line that is neither an ok nor an error
handle_line ==
    /\ Line /\ Head(wire) = Start
    /\ UNCHANGED <<finished_by, disorder, raising, errors>>

Finishing ==
    /\ Line /\ Head(wire) # Start
    /\ finish_pending(Head(wire))
    /\ disorder' = OutOfStep(FrontFinished)

handle_ok == Finishing /\ Head(wire) # Unasked /\ UNCHANGED <<raising, errors>>

\* The command is finished first.
handle_error_line ==
    /\ Finishing /\ raising' = TRUE
    /\ \/ Head(wire) = Unasked /\ UNCHANGED errors
       \/ Head(wire) \notin {Banner, Unasked} /\ cancels + errors < MaxFaults /\ errors' = errors + 1

\* Then the exception is recorded, if a job runs.
Raise ==
    /\ raising /\ raising' = FALSE
    /\ job_exception' = (job_exception \/ job_running)
    /\ UNCHANGED <<exchangeVars, is_cancelled, job_running, errors, late>>

\* the device prints an error on its own account
Unsolicited ==
    /\ open /\ cancels + errors < MaxFaults /\ errors' = errors + 1
    /\ wire' = Append(wire, Unasked)
    /\ disorder' = OutOfStep(connected)
    /\ UNCHANGED <<pending_queue, cmd_lock, linkVars, pc, sent, finished_by, stops, cancels, opens>>
    /\ UNCHANGED <<is_cancelled, job_running, job_exception, raising, late>>

(***************************************************************************)
(* run and run_raw                                                         *)
(***************************************************************************)
JobGoto(j, label) ==
    /\ Goto(j, label)
    /\ UNCHANGED <<pending_queue, cmd_lock, linkVars, sent, finished_by, stops, cancels, opens, raising, errors, late>>

start_job(j) ==
    /\ j \in Jobs /\ pc[j] = "idle"
    /\ is_cancelled' = FALSE /\ job_running' = TRUE /\ job_exception' = FALSE
    /\ JobGoto(j, "head")
    /\ UNCHANGED <<wire, disorder>>

\* mutant: the job does not look whether it is cancelled
RunHead_unasked(j) ==
    /\ j \in Jobs /\ pc[j] = "head"
    /\ JobGoto(j, IF sent[j] = Lines \/ (job_exception /\ sent[j] > 0) THEN "end" ELSE "gate")
    /\ UNCHANGED <<wire, disorder, is_cancelled, job_running, job_exception>>

\* after a line, an exception ends the loop; at its head a cancel() does, or the last line
RunHead(j) ==
    /\ j \in Jobs /\ pc[j] = "head"
    /\ JobGoto(j, IF is_cancelled \/ sent[j] = Lines \/ (job_exception /\ sent[j] > 0) THEN "end" ELSE "gate")
    /\ UNCHANGED <<wire, disorder, is_cancelled, job_running, job_exception>>

\* job_exception.take()
RunEnd(j) ==
    /\ j \in Jobs /\ pc[j] \in {"end", "interrupted"}
    /\ job_exception' = FALSE /\ job_running' = FALSE
    /\ JobGoto(j, IF job_exception \/ pc[j] = "interrupted" THEN "shutdown" ELSE "returned")
    /\ UNCHANGED <<wire, disorder, is_cancelled>>

\* the dialect's tool-off commands; nothing awaits their answers
send_safety_shutdown(before) == wire' = IF open THEN before \o [n \in 1..ToolOff |-> Stray] ELSE wire

RunShutdown(j) ==
    /\ j \in Jobs /\ pc[j] = "shutdown"
    /\ send_safety_shutdown(wire)
    /\ disorder' = OutOfStep(TRUE)
    /\ JobGoto(j, "returned")
    /\ UNCHANGED <<is_cancelled, job_running, job_exception>>

(***************************************************************************)
(* cancel: every queued command is finished and dropped; M410 and the      *)
(* tool-off commands are written with nothing to await their answers       *)
(***************************************************************************)
\* the flags, resolve_pending; a closed link ends the call here
cancel ==
    /\ cancels + errors < MaxFaults /\ cancels' = cancels + 1
    /\ pending_queue' = <<>>
    /\ finished_by' = [t \in Tasks |->
            IF finished_by[t] = None /\ Contains(pending_queue, Command(t)) THEN Cancelled ELSE finished_by[t]]
    /\ stops' = IF open THEN stops + 1 ELSE stops
    /\ disorder' = OutOfStep(TRUE)
    /\ is_cancelled' = TRUE /\ job_running' = FALSE
    /\ UNCHANGED <<cmd_lock, linkVars, pc, sent, wire, opens, job_exception, raising, errors, late>>

\* M410, then send_safety_shutdown
CancelWrite ==
    /\ stops > 0 /\ stops' = stops - 1
    /\ send_safety_shutdown(Append(wire, Stray))
    /\ UNCHANGED <<pending_queue, cmd_lock, linkVars, pc, sent, finished_by, cancels, opens, disorder, jobVars>>

(***************************************************************************)
(* connection_loop: opened, announced, settled, polled, closed, again.     *)
(***************************************************************************)
Open ==
    /\ pc[Poller] = "down" /\ opens < MaxOpens
    /\ open' = TRUE /\ handshake_received' = FALSE /\ opens' = opens + 1
    /\ wire' \in {<<Start>>, <<Banner>>, <<Start, Banner>>}
    /\ disorder' = OutOfStep(connected)
    /\ Goto(Poller, "handshake")
    /\ UNCHANGED <<pending_queue, cmd_lock, connected, sent, finished_by, stops, cancels, jobVars>>

\* connect_settle after the first line, whatever the device has still to say
Settle ==
    /\ pc[Poller] = "handshake" /\ handshake_received
    /\ connected' = TRUE /\ Goto(Poller, "idle")
    /\ disorder' = OutOfStep(wire # <<>>)
    /\ UNCHANGED <<pending_queue, cmd_lock, handshake_received, open, sent, finished_by, wire, stops, cancels, opens, jobVars>>

\* no output before handshake_timeout, a closed transport, or a failed poll
Close ==
    /\ \/ pc[Poller] = "handshake" /\ ~handshake_received
       \/ pc[Poller] = "idle" /\ ~open
       \/ pc[Poller] = "closing"
    /\ open' = FALSE /\ wire' = <<>> /\ Goto(Poller, "down")
    /\ UNCHANGED <<pending_queue, cmd_lock, handshake_received, connected, sent, finished_by, stops, cancels, opens, disorder, jobVars>>

\* a write failed; nothing clears `connected'
LinkLost ==
    /\ open /\ open' = FALSE /\ wire' = <<>>
    /\ UNCHANGED <<pending_queue, cmd_lock, handshake_received, connected, pc, sent, finished_by, stops, cancels, opens, disorder, jobVars>>

Run(j) == RunHead(j) \/ RunEnd(j) \/ RunShutdown(j)
Step(t) == Gate(t) \/ Lock(t) \/ LockFails(t) \/ Write(t) \/ Leave(t)
Next ==
    \/ \E t \in Tasks : Begin(t) \/ Step(t) \/ Timeout(t)
    \/ \E j \in Jobs : start_job(j) \/ Run(j)
    \/ Poll \/ handle_line \/ handle_ok \/ handle_error_line \/ Unsolicited \/ Raise \/ cancel \/ CancelWrite \/ Open \/ Settle \/ Close \/ LinkLost

Spec == Init /\ [][Next]_vars

\* The calls proceed, a free lock is taken and command_timeout is finite; nothing is asked of
\* the device, the link or the poll.
Fairness == \A t \in Callers \cup Jobs : WF_vars(Step(t) \/ Timeout(t) \/ Run(t))
FairSpec == Spec /\ Fairness

-----------------------------------------------------------------------------
Labels == {"idle", "gate", "lock", "write", "wait", "fail", "head", "end", "interrupted", "shutdown", "returned",
           "down", "handshake", "closing"}
FlagsOK ==
    /\ handshake_received \in BOOLEAN /\ connected \in BOOLEAN /\ open \in BOOLEAN
    /\ is_cancelled \in BOOLEAN /\ job_running \in BOOLEAN /\ job_exception \in BOOLEAN /\ raising \in BOOLEAN
PlacesOK ==
    /\ pending_queue \in Seq(Commands) /\ cmd_lock \in Tasks \cup {None}
    /\ pc \in [Tasks -> Labels] /\ sent \in [Tasks -> Nat] /\ finished_by \in [Tasks -> Commands \cup Tokens]
    /\ wire \in Seq(Answers)
    /\ stops \in Nat /\ cancels \in Nat /\ opens \in Nat /\ errors \in Nat
    /\ disorder \in {"none", "disordered", "uncancelled"} /\ late \in [Jobs -> Nat]

\* Every flag, the queue, the wire and every task's position keep their types.
TypeOK == FlagsOK /\ PlacesOK

\* The queue holds each command at most once, and only commands of tasks that are
\* still between their push and their removal: neither a timeout, a failed write nor
\* a cancel() leaves an entry behind that would swallow an answer.
QueueOwned ==
    /\ \A i \in DOMAIN pending_queue : \E t \in Tasks : InFlight(t) /\ pending_queue[i] = Command(t)
    /\ \A i, k \in DOMAIN pending_queue : pending_queue[i] = pending_queue[k] => i = k

\* A command is finished by its own answer, polls in flight or not, as long as answers are in step:
\* nothing timed out, was cancelled or reopened, no task pushed between another's push and write,
\* no answer found the front finished already, and the device itself kept to the protocol: its
\* banner was over when connect_settle ended, and since then it printed no error line of its own
\* accord (enqueue_and_wait: the FIFO queue matches the device's wire order).
OwnAnswer == \A t \in Tasks : disorder = "none" /\ finished_by[t] # None => finished_by[t] = Command(t)

\* How far a command is, as long as answers are in step; a PendingCmd finished too early, or by
\* the answer to another command, is no phase of SingleCommand.
Phase(t) ==
    CASE pc[t] \in {"gate", "lock", "fail"} -> "asked"
      [] pc[t] = "write" -> IF finished_by[t] = None THEN "asked" ELSE "stolen"
      [] pc[t] = "wait" -> IF finished_by[t] = None THEN "written"
                          ELSE IF finished_by[t] = Command(t) THEN "answered" ELSE "stolen"
      [] OTHER -> "idle"
Phases == [t \in Tasks |-> IF disorder = "none" THEN Phase(t) ELSE "idle"]
Single == INSTANCE SingleCommand WITH
    Callers <- Tasks, Lanes <- {Callers \cup Jobs, {Poller}},
    phase <- Phases,
    trusted <- (disorder = "none")

\* As long as answers are in step (see OwnAnswer), the exchange is the one of SingleCommand: callers and jobs have one
\* command with the device, the poll another, each goes on only with the answer to its own command,
\* and what was written is never given up (ping_pong, enqueue_and_wait, position_poll_loop).
ImplementsSingle == Single!Spec

\* Every call returns, run() included, whatever the device and the link do and whenever it is
\* cancelled (enqueue_and_wait's timeout).
CallsReturn == \A t \in Callers \cup Jobs : pc[t] # "idle" ~> pc[t] \in {"idle", "returned"}

\* A cancelled job writes at most the line whose ping_pong it had begun: it may have been
\* waiting for cmd_lock, and nothing tells it there.  Unless a caller un-cancels the session
\* before the job has seen the flag (execute_command).
OneLineAfterCancel == \A j \in Jobs : late[j] > 1 => disorder = "uncancelled"

\* What enqueue_and_wait says: a poll may be in flight while a user command waits without
\* either stealing the other's acknowledgement.  So, with nothing timed out, cancelled or
\* reopened, the answer to a command that still waits finishes it.
NoAnswerStolen ==
    [][\A t \in Tasks :
        handle_ok /\ Head(wire) = Command(t) /\ pc[t] = "wait" /\ disorder = "none" => finished_by'[t] = Command(t)]_vars

\* What connection_loop and ping_pong say of `connected': the boot banner's ok resolves no command.
BannerResolvesNothing == \A t \in Tasks : finished_by[t] # Banner

\* What send_safety_shutdown says: "a cancelled or aborted job cannot leave persistent PWM
\* outputs energized" (session.rs:711-713).  So it writes no line after the tool-off commands.
NoLineAfterCancel == [][\A j \in Jobs : late'[j] > late[j] => stops > 0]_vars
=============================================================================
