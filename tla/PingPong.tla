------------------------------ MODULE PingPong ------------------------------
(***************************************************************************)
(* The simple GRBL session (src/src/grbl/simple.rs): one command at a time *)
(* under cmd_lock, one slot for the command that awaits its answer, a job  *)
(* that is a loop of such commands, and cancel(), which runs beside them.  *)
(* The Smoothieware session (src/src/smoothie/session.rs) has the same     *)
(* exchange, job loop and cancel().                                        *)
(*                                                                         *)
(* A command is <<sender, n>>, the n-th the sender wrote.  The device      *)
(* answers the lines it was sent in order and every answer finishes what   *)
(* the slot holds; finished_by records, as a ghost, whose answer it was.   *)
(*                                                                         *)
(* Abstracted: the text of commands and answers; blank lines and progress  *)
(* events; the status poll, which needs cmd_lock and is never answered     *)
(* with ok.  Flags that are set with no await between them change at once. *)
(***************************************************************************)
EXTENDS Integers, Sequences

CONSTANTS Callers,      \* tasks that call execute_command
          Job,          \* the task that calls run
          Cancels,      \* calls of cancel()
          None,         \* empty slot, free lock, no answer yet
          Cancelled,    \* finished by cancel() or an ALARM, without an answer
          Safety,       \* the tool-off commands of send_safety_shutdown
          Lines,        \* bound: lines of the job
          MaxCommands,  \* bound: commands of one caller
          Faults        \* what may go wrong: "timeout", "error", "alarm", "link"

Senders == Callers \cup {Job}

ASSUME NamesAssumption == Job \notin Callers /\ None \notin Senders /\ Safety \notin Senders
ASSUME BoundsAssumption == Lines \in Nat /\ MaxCommands \in Nat
ASSUME FaultsAssumption == Faults \subseteq {"timeout", "error", "alarm", "link"}

VARIABLES
    is_cancelled, job_running, job_exception,   \* SimpleCore
    alarm,                \* state.status = Alarm
    cmd_lock, slot,       \* cmd_lock's holder; the pending slot
    open,                 \* transport.is_open()
    pc, sent,             \* each sender: where it is, how many commands it wrote
    finished_by,          \* each sender: whose answer finished its PendingCmd, or None
    interrupted, was_cancelled,                 \* locals of run
    wire,                 \* lines written and not yet answered
    reader,               \* handle_rx: the failed command, ended and not yet the job's exception, or None
    cancel_pc, job_was_running,                 \* each cancel()
    job_finished,         \* events emitted
    disorder              \* ghost: "none" until answers may be out of step; then why: "timeout"
                          \* as long as only commands timed out, else "other"

flags == <<is_cancelled, job_running, job_exception, alarm>>
runVars == <<interrupted, was_cancelled>>
cancelVars == <<cancel_pc, job_was_running>>
vars == <<flags, cmd_lock, slot, open, pc, sent, finished_by, runVars, wire, reader, cancelVars, job_finished, disorder>>

PC == {"idle", "head", "lock", "write", "wait", "failed", "after", "end", "shutdown", "report", "done"}
Command(s) == <<s, sent[s]>>

Init ==
    /\ is_cancelled = FALSE /\ job_running = FALSE /\ job_exception = FALSE /\ alarm = FALSE
    /\ cmd_lock = None /\ slot = None /\ open = TRUE
    /\ pc = [s \in Senders |-> "idle"]
    /\ sent = [s \in Senders |-> 0]
    /\ finished_by = [s \in Senders |-> None]
    /\ interrupted = FALSE /\ was_cancelled = FALSE
    /\ wire = <<>> /\ reader = None
    /\ cancel_pc = [c \in Cancels |-> "idle"] /\ job_was_running = [c \in Cancels |-> FALSE]
    /\ job_finished = 0 /\ disorder = "none"

Goto(s, label) == pc' = [pc EXCEPT ![s] = label]
Disorder(why) == disorder' = IF disorder \in {"none", why} THEN why ELSE "other"

(***************************************************************************)
(* ping_pong                                                               *)
(***************************************************************************)
\* cmd_lock, the transport check, a new PendingCmd in the slot
Acquire(s) ==
    /\ pc[s] = "lock" /\ cmd_lock = None
    /\ IF open
       THEN /\ cmd_lock' = s
            /\ sent' = [sent EXCEPT ![s] = @ + 1]
            /\ slot' = <<s, sent'[s]>>
            /\ finished_by' = [finished_by EXCEPT ![s] = None]
            /\ Goto(s, "write")
       ELSE Goto(s, "failed") /\ UNCHANGED <<cmd_lock, sent, slot, finished_by, reader>>
    /\ UNCHANGED <<flags, open, runVars, wire, cancelVars, job_finished, disorder, reader>>

\* the slot's command is finished, unless it is already
finish_pending(answered) ==
    finished_by' = IF slot # None /\ finished_by[slot[1]] = None
                   THEN [finished_by EXCEPT ![slot[1]] = answered] ELSE finished_by

Write(s) ==
    /\ pc[s] = "write" /\ open
    /\ wire' = Append(wire, Command(s))
    /\ Goto(s, "wait")
    /\ UNCHANGED <<flags, cmd_lock, slot, open, sent, finished_by, runVars, cancelVars, job_finished, disorder, reader>>

\* resolve_pending and the end of the guard's scope
Leave(s) == slot' = None /\ cmd_lock' = None

\* mutant: the exchange ends when the line is written
Finish_unanswered(s) ==
    /\ pc[s] = "wait"
    /\ Leave(s) /\ Goto(s, "after")
    /\ UNCHANGED <<flags, open, sent, finished_by, runVars, wire, cancelVars, job_finished, disorder, reader>>

\* finished.wait() returned
Finish(s) ==
    /\ pc[s] = "wait" /\ finished_by[s] # None
    /\ Leave(s) /\ Goto(s, "after")
    /\ UNCHANGED <<flags, open, sent, finished_by, runVars, wire, cancelVars, job_finished, disorder, reader>>

\* mutant: an early return on a timeout leaves the slot as it is
Timeout_keeps_slot(s) ==
    /\ pc[s] = "wait" /\ finished_by[s] = None /\ ("timeout" \in Faults \/ ~open \/ disorder # "none")
    /\ cmd_lock' = None /\ Goto(s, "failed")
    /\ Disorder("timeout")
    /\ UNCHANGED <<flags, slot, open, sent, finished_by, runVars, wire, cancelVars, job_finished, reader>>

\* mutant: a timed out sender never lets go of the lock
Timeout_keeps_lock(s) ==
    /\ pc[s] = "wait" /\ finished_by[s] = None /\ ("timeout" \in Faults \/ ~open \/ disorder # "none")
    /\ slot' = None /\ Goto(s, "failed")
    /\ Disorder("timeout")
    /\ UNCHANGED <<flags, cmd_lock, open, sent, finished_by, runVars, wire, cancelVars, job_finished, reader>>

\* command_timeout passed: with a slow device, or because no answer can come
Timeout(s) ==
    /\ pc[s] = "wait" /\ finished_by[s] = None /\ ("timeout" \in Faults \/ ~open \/ disorder # "none")
    /\ Leave(s) /\ Goto(s, "failed")
    /\ Disorder("timeout")
    /\ UNCHANGED <<flags, open, sent, finished_by, runVars, wire, cancelVars, job_finished, reader>>

WriteError(s) ==
    /\ pc[s] = "write" /\ ~open
    /\ Leave(s) /\ Goto(s, "failed")
    /\ UNCHANGED <<flags, open, sent, finished_by, runVars, wire, cancelVars, job_finished, disorder, reader>>

(***************************************************************************)
(* execute_command: clears the cancellation unless a job is running.       *)
(***************************************************************************)
execute_command(s) ==
    /\ pc[s] = "idle" /\ sent[s] < MaxCommands
    /\ is_cancelled' = (is_cancelled /\ job_running)
    /\ Goto(s, "lock")
    /\ UNCHANGED <<job_running, job_exception, alarm, cmd_lock, slot, open, sent, finished_by, runVars, wire, cancelVars, job_finished, disorder, reader>>

\* set_hold clears the cancellation likewise, and owns the status afterwards
set_hold ==
    /\ is_cancelled' = (is_cancelled /\ job_running)
    /\ alarm' = (alarm /\ ~open)
    /\ UNCHANGED <<job_running, job_exception, cmd_lock, slot, open, pc, sent, finished_by, runVars, wire, cancelVars, job_finished, disorder, reader>>

Return(s) ==
    /\ s # Job /\ pc[s] \in {"after", "failed"}
    /\ Goto(s, "idle")
    /\ UNCHANGED <<flags, cmd_lock, slot, open, sent, finished_by, runVars, wire, cancelVars, job_finished, disorder, reader>>

(***************************************************************************)
(* run                                                                     *)
(***************************************************************************)
start_job ==
    /\ pc[Job] = "idle"
    /\ is_cancelled' = FALSE /\ job_running' = TRUE /\ job_exception' = FALSE /\ alarm' = FALSE
    /\ Goto(Job, "head")
    /\ UNCHANGED <<cmd_lock, slot, open, sent, finished_by, runVars, wire, cancelVars, job_finished, disorder, reader>>

\* the loop head: the only place where run looks at the cancellation and the status
RunHead ==
    /\ pc[Job] = "head"
    /\ Goto(Job, IF is_cancelled \/ alarm \/ sent[Job] = Lines THEN "end" ELSE "lock")
    /\ UNCHANGED <<flags, cmd_lock, slot, open, sent, finished_by, runVars, wire, cancelVars, job_finished, disorder, reader>>

RunAfter ==
    /\ pc[Job] \in {"after", "failed"}
    /\ interrupted' = (pc[Job] = "failed")
    /\ Goto(Job, IF interrupted' \/ job_exception THEN "end" ELSE "head")
    /\ UNCHANGED <<flags, cmd_lock, slot, open, sent, finished_by, was_cancelled, wire, cancelVars, job_finished, disorder, reader>>

RunEnd ==
    /\ pc[Job] = "end"
    /\ was_cancelled' = is_cancelled
    /\ job_exception' = FALSE /\ job_running' = FALSE
    /\ Goto(Job, IF job_exception \/ interrupted THEN "shutdown" ELSE "report")
    /\ UNCHANGED <<is_cancelled, alarm, cmd_lock, slot, open, sent, finished_by, interrupted, wire, cancelVars, job_finished, disorder, reader>>

\* the tool-off commands are written without cmd_lock and without a slot
send_safety_shutdown ==
    /\ wire' = IF open THEN Append(wire, Safety) ELSE wire
    /\ IF open THEN Disorder("other") ELSE UNCHANGED disorder

RunShutdown ==
    /\ pc[Job] = "shutdown"
    /\ send_safety_shutdown
    /\ Goto(Job, "report")
    /\ UNCHANGED <<flags, cmd_lock, slot, open, sent, finished_by, runVars, cancelVars, job_finished, reader>>

RunReport ==
    /\ pc[Job] = "report"
    /\ job_finished' = job_finished + (IF was_cancelled THEN 0 ELSE 1)
    /\ Goto(Job, "done")
    /\ UNCHANGED <<flags, cmd_lock, slot, open, sent, finished_by, runVars, wire, cancelVars, disorder, reader>>

(***************************************************************************)
(* cancel                                                                  *)
(***************************************************************************)
CancelGoto(c, label) == cancel_pc' = [cancel_pc EXCEPT ![c] = label]

\* the flags, and resolve_pending: whoever waits is let go without an answer
CancelFlags(c) ==
    /\ cancel_pc[c] = "idle"
    /\ job_was_running' = [job_was_running EXCEPT ![c] = job_running]
    /\ is_cancelled' = TRUE /\ job_running' = FALSE
    /\ slot' = None
    /\ finish_pending(Cancelled)
    /\ Disorder("other")
    /\ CancelGoto(c, IF open THEN "reset" ELSE "failed")
    /\ UNCHANGED <<job_exception, alarm, cmd_lock, open, pc, sent, runVars, wire, job_finished, reader>>

\* Ctrl-X: the firmware forgets the lines it has not answered
CancelReset(c) ==
    /\ cancel_pc[c] = "reset"
    /\ wire' = IF open THEN <<>> ELSE wire
    /\ CancelGoto(c, IF open THEN "safety" ELSE "failed")
    /\ UNCHANGED <<flags, cmd_lock, slot, open, pc, sent, finished_by, runVars, job_was_running, job_finished, disorder, reader>>

CancelSafety(c) ==
    /\ cancel_pc[c] = "safety"
    /\ send_safety_shutdown
    /\ CancelGoto(c, "event")
    /\ UNCHANGED <<flags, cmd_lock, slot, open, pc, sent, finished_by, runVars, job_was_running, job_finished, reader>>

CancelEvent(c) ==
    /\ cancel_pc[c] = "event"
    /\ job_finished' = job_finished + (IF job_was_running[c] THEN 1 ELSE 0)
    /\ CancelGoto(c, "done")
    /\ UNCHANGED <<flags, cmd_lock, slot, open, pc, sent, finished_by, runVars, wire, job_was_running, disorder, reader>>

(***************************************************************************)
(* The device answers the oldest line; handle_line finishes the slot.  An  *)
(* error or an ALARM is an exception of a running job, recorded only after *)
(* the pending command is finished: the job may look before.               *)
(***************************************************************************)
handle_ok ==
    /\ wire # <<>> /\ open /\ reader = None
    /\ wire' = Tail(wire)
    /\ finish_pending(Head(wire))
    /\ UNCHANGED <<flags, cmd_lock, slot, open, pc, sent, runVars, cancelVars, job_finished, disorder, reader>>

handle_error_line ==
    /\ wire # <<>> /\ open /\ reader = None /\ "error" \in Faults
    /\ wire' = Tail(wire)
    /\ finish_pending(Head(wire))
    /\ reader' = Head(wire)
    /\ UNCHANGED <<flags, cmd_lock, slot, open, pc, sent, runVars, cancelVars, job_finished, disorder>>

\* an ALARM line comes unasked and finishes whatever is pending
handle_alarm ==
    /\ open /\ reader = None /\ "alarm" \in Faults
    /\ alarm' = TRUE
    /\ finish_pending(Cancelled)
    /\ reader' = Cancelled
    /\ Disorder("other")
    /\ UNCHANGED <<is_cancelled, job_running, job_exception, cmd_lock, slot, open, pc, sent, runVars, wire, cancelVars, job_finished>>

Raise ==
    /\ reader # None
    /\ job_exception' = (job_exception \/ job_running)
    /\ reader' = None
    /\ UNCHANGED <<is_cancelled, job_running, alarm, cmd_lock, slot, open, pc, sent, finished_by, runVars, wire, cancelVars, job_finished, disorder>>

\* a status report: the status it carries replaces the old one
handle_status_report ==
    /\ open /\ reader = None /\ "alarm" \in Faults
    /\ alarm' = ~alarm
    /\ UNCHANGED <<is_cancelled, job_running, job_exception, cmd_lock, slot, open, pc, sent, finished_by, runVars, wire, cancelVars, job_finished, disorder, reader>>

LinkLost ==
    /\ "link" \in Faults /\ open
    /\ open' = FALSE /\ wire' = <<>>
    /\ UNCHANGED <<flags, cmd_lock, slot, pc, sent, finished_by, runVars, cancelVars, job_finished, disorder, reader>>

Exchange(s) == Write(s) \/ Finish(s) \/ WriteError(s)
RunStep == RunHead \/ RunAfter \/ RunEnd \/ RunShutdown \/ RunReport
CancelStep(c) == CancelReset(c) \/ CancelSafety(c) \/ CancelEvent(c)

Next ==
    \/ \E s \in Senders : Acquire(s) \/ Exchange(s) \/ Timeout(s) \/ Return(s)
    \/ \E s \in Callers : execute_command(s)
    \/ start_job \/ RunStep
    \/ \E c \in Cancels : CancelFlags(c) \/ CancelStep(c)
    \/ handle_ok \/ handle_error_line \/ handle_alarm \/ Raise \/ handle_status_report \/ set_hold \/ LinkLost

Spec == Init /\ [][Next]_vars

\* The tasks run, tokio's mutex is fair, and a wait that is not answered times out.
Fairness ==
    /\ \A s \in Senders : /\ WF_vars(Exchange(s)) /\ WF_vars(Timeout(s)) /\ WF_vars(Return(s))
                          /\ SF_vars(Acquire(s))
    /\ WF_vars(RunStep) /\ WF_vars(handle_ok) /\ WF_vars(Raise)
    /\ \A c \in Cancels : WF_vars(CancelStep(c))
FairSpec == Spec /\ Fairness

-----------------------------------------------------------------------------
Commands == Senders \X Nat
FlagsOK ==
    /\ is_cancelled \in BOOLEAN /\ job_running \in BOOLEAN /\ job_exception \in BOOLEAN /\ alarm \in BOOLEAN
    /\ open \in BOOLEAN /\ interrupted \in BOOLEAN /\ was_cancelled \in BOOLEAN /\ job_was_running \in [Cancels -> BOOLEAN]
PlacesOK ==
    /\ cmd_lock \in Senders \cup {None} /\ slot \in Commands \cup {None}
    /\ pc \in [Senders -> PC] /\ cancel_pc \in [Cancels -> {"idle", "reset", "safety", "event", "done", "failed"}]
    /\ wire \in Seq(Commands \cup {Safety}) /\ reader \in Commands \cup {None, Safety, Cancelled}
    /\ finished_by \in [Senders -> Commands \cup {None, Safety, Cancelled}]
    /\ sent \in [Senders -> Nat] /\ sent[Job] <= Lines /\ \A s \in Callers : sent[s] <= MaxCommands
    /\ job_finished \in Nat /\ disorder \in {"none", "timeout", "other"}

\* Every flag, the slot, the wire and every task's position keep their types, and the job's
\* loop never sends more lines than the job has.
TypeOK == FlagsOK /\ PlacesOK

\* The slot holds the command of the sender that has cmd_lock, and is empty when the
\* lock is free: no way out of ping_pong, and no cancel(), leaves a command behind that
\* the next answer would finish (ping_pong, resolve_pending).
SlotOwned == slot # None => slot[1] = cmd_lock /\ pc[cmd_lock] \in {"write", "wait"} /\ slot = Command(cmd_lock)

\* As long as nothing timed out, was cancelled, shut down or in ALARM, a command is finished by the
\* answer to itself, however many callers compete with the job (cmd_lock, finish_pending).
OwnAnswer == \A s \in Senders : disorder = "none" /\ finished_by[s] # None => finished_by[s] = Command(s)

\* How far a command is, as long as answers are in step; a PendingCmd finished too early, or by
\* the answer to another command, is no phase of SingleCommand.
Phase(s) ==
    CASE pc[s] = "lock" -> "asked"
      [] pc[s] = "write" -> IF finished_by[s] = None THEN "asked" ELSE "stolen"
      [] pc[s] = "wait" -> IF finished_by[s] = None THEN "written"
                          ELSE IF finished_by[s] = Command(s) THEN "answered" ELSE "stolen"
      [] OTHER -> "idle"
Phases == [s \in Senders |-> IF disorder = "none" THEN Phase(s) ELSE "idle"]
Single == INSTANCE SingleCommand WITH
    Callers <- Senders, Lanes <- {Senders},
    phase <- Phases,
    trusted <- (disorder = "none")

\* As long as answers are in step, the exchange is the one of SingleCommand: of all senders one has a
\* line with the device, a sender goes on only with the answer to its own line, and a line that was
\* written is never given up (ping_pong, cmd_lock).
ImplementsSingle == Single!Spec

\* run() returns, whether the device answers, errs, falls silent or is unplugged, and
\* whenever cancel() comes (ping_pong's timeout, resolve_pending, the loop head).
RunReturns == pc[Job] = "head" ~> pc[Job] = "done"

\* What the tests of a device error assert: the line that the device rejects is the job's last.
\* handle_error_line ends the pending command before it records the exception that run looks for.
ErrorHaltsStream == \A n \in 1 .. Lines : reader = <<Job, n>> => sent[Job] = n

\* What the comment in ping_pong says: a late acknowledgement for a timed out command
\* must not resolve a later one.
LateAnswerIgnored ==
    \A s \in Senders : disorder = "timeout" /\ finished_by[s] # None => finished_by[s] = Command(s)

\* What send_safety_shutdown says: the responses to the tool-off commands are ignored.
SafetyAnswerIgnored == \A s \in Senders : finished_by[s] # Safety

\* What the comment in cancel says: the stream loop observes the cancellation and stops.
\* It is meant of the job that was running: nothing of it is written after cancel().
StopsAfterCancel ==
    [][\A c \in Cancels : cancel_pc[c] = "done" /\ job_was_running[c] => sent'[Job] = sent[Job]]_vars
=============================================================================
