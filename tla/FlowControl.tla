---------------------------- MODULE FlowControl ----------------------------
(***************************************************************************)
(* GRBL character-counting flow control (src/src/grbl/flow.rs) together    *)
(* with the send paths of grbl/session.rs that use it and the part of the  *)
(* device it accounts for: the RX buffer, filled by writes and emptied as  *)
(* the firmware takes lines and answers each with one ok or error.         *)
(*                                                                         *)
(* Each sender is a tokio task; tasks run on two worker threads, so every  *)
(* critical section of FlowControl's mutex, every await and every device   *)
(* event is an action of its own.  The four kinds of sender are            *)
(*   "gcode"        send_gcode_line + send_gcode_with_stall (cmd_lock)     *)
(*   "command"      command_queue_loop + send_command_bytes (cmd_lock)     *)
(*   "interactive"  execute_interactive_command (cmd_lock, and             *)
(*                  wait_pending_empty before the send)                    *)
(*   "simple"       send_gcode_simple of the safety shutdown (no cmd_lock) *)
(*                                                                         *)
(* A command is a record [length, mark]; `mark' is a ghost, the position   *)
(* of the command's last byte in the stream of all bytes ever tracked.     *)
(***************************************************************************)
EXTENDS Integers, Sequences

CONSTANTS Senders,        \* the tasks that send commands
          Kind,           \* the kind of each sender
          NoSender,       \* cmd_lock is free
          Lengths,        \* lengths of the command lines, in bytes
          InitialSize,    \* DEFAULT_GRBL_RX_BUFFER_SIZE, scaled down
          Sizes,          \* sizes the device may report ($I OPT, Bf:)
          MaxCommands,    \* bound: commands started in a behaviour
          MaxDisturbances \* bound: resets, resizes, write errors, signals

Kinds == {"gcode", "command", "interactive", "simple"}

ASSUME SendersAssumption == NoSender \notin Senders
ASSUME KindAssumption == Kind \in [Senders -> Kinds]
ASSUME LengthsAssumption == Lengths \subseteq Nat \ {0}
ASSUME SizesAssumption == InitialSize \in Nat \ {0} /\ Sizes \subseteq Nat \ {0}
ASSUME BoundsAssumption == MaxCommands \in Nat /\ MaxDisturbances \in Nat

VARIABLES
    rx_count, rx_size, pending,              \* FlowInner
    acked_since_flush, drained_since_flush,  \* FlowInner, deferred wake-ups
    space_waiters, space_permit,             \* Notify space_available
    drain_waiters, drain_permit,             \* Notify pending_drained
    cmd_lock,                                \* SessionCore.cmd_lock
    pc, cmd,                                 \* each sender: where it is, what it sends
    reader,                                  \* handle_rx: idle, parsing, handling
    wire, rx_used, acks,                     \* device RX buffer, its bytes, answers in flight
    tracked, started, disturbances,          \* ghost: bytes tracked; the two bounds' counters
    breaches                                 \* ghost: ways the discipline was broken so far

flowVars == <<rx_count, rx_size, pending, acked_since_flush, drained_since_flush>>
notifyVars == <<space_waiters, space_permit, drain_waiters, drain_permit>>
deviceVars == <<wire, rx_used, acks>>
ghostVars == <<tracked, started, disturbances, breaches>>
vars == <<flowVars, notifyVars, cmd_lock, pc, cmd, reader, deviceVars, ghostVars>>

Command == [length : Nat, mark : Nat]
PC == {"idle", "lock", "drain_check", "drain_register", "drain_recheck", "drain_parked",
       "check", "register", "recheck", "parked", "timed_out", "granted", "tracked", "await"}
Breach == {"forced", "unlocked", "reset", "resize", "write_error"}
TakesLock(s) == Kind[s] # "simple"

(***************************************************************************)
(* FlowControl's operations.                                               *)
(***************************************************************************)
InnerUnlocked == reader # "parsing"       \* the mutex parse_incoming holds throughout

\* mutant: the limit is off by one
needs_space_off_by_one(needed) == rx_count + needed > rx_size + 1

needs_space(needed) == rx_count + needed > rx_size

signal_space_available == space_waiters' = {} /\ space_permit' = TRUE
notify_drained == drain_waiters' = {} /\ drain_permit' = TRUE

\* What the device still has to answer, or what was counted and not yet written.
Outstanding == wire # <<>> \/ acks # <<>> \/ \E s \in Senders : pc[s] = "tracked"

Init ==
    /\ rx_count = 0 /\ rx_size = InitialSize /\ pending = <<>>
    /\ acked_since_flush = FALSE /\ drained_since_flush = FALSE
    /\ space_waiters = {} /\ space_permit = FALSE
    /\ drain_waiters = {} /\ drain_permit = FALSE
    /\ cmd_lock = NoSender
    /\ pc = [s \in Senders |-> "idle"]
    /\ cmd = [s \in Senders |-> [length |-> 0, mark |-> 0]]
    /\ reader = "idle"
    /\ wire = <<>> /\ rx_used = 0 /\ acks = <<>>
    /\ tracked = 0 /\ started = 0 /\ disturbances = 0 /\ breaches = {}

Goto(s, label) == pc' = [pc EXCEPT ![s] = label]

(***************************************************************************)
(* A sender: take cmd_lock, wait for the pending queue to drain if the     *)
(* command is interactive, wait for space, account for the bytes, write.   *)
(***************************************************************************)
Start(s, n) ==
    /\ pc[s] = "idle" /\ started < MaxCommands
    /\ started' = started + 1
    /\ cmd' = [cmd EXCEPT ![s] = [length |-> n, mark |-> 0]]
    /\ Goto(s, IF TakesLock(s) THEN "lock" ELSE "check")
    /\ UNCHANGED <<flowVars, notifyVars, cmd_lock, reader, deviceVars, tracked, disturbances, breaches>>

AcquireLock(s) ==
    /\ pc[s] = "lock" /\ cmd_lock = NoSender
    /\ cmd_lock' = s
    /\ Goto(s, IF Kind[s] = "interactive" THEN "drain_check" ELSE "check")
    /\ UNCHANGED <<flowVars, notifyVars, cmd, reader, deviceVars, ghostVars>>

\* wait_pending_empty: `while !pending_queue().is_empty()'
DrainCheck(s) ==
    /\ pc[s] = "drain_check" /\ InnerUnlocked
    /\ Goto(s, IF pending = <<>> THEN "check" ELSE "drain_register")
    /\ UNCHANGED <<flowVars, notifyVars, cmd_lock, cmd, reader, deviceVars, ghostVars>>

\* `let notified = pending_drained.notified()'
DrainRegister(s) ==
    /\ pc[s] = "drain_register"
    /\ drain_waiters' = drain_waiters \cup {s}
    /\ Goto(s, "drain_recheck")
    /\ UNCHANGED <<flowVars, space_waiters, space_permit, drain_permit, cmd_lock, cmd, reader, deviceVars, ghostVars>>

DrainRecheck(s) ==
    /\ pc[s] = "drain_recheck" /\ InnerUnlocked
    /\ IF pending = <<>>
       THEN Goto(s, "check") /\ drain_waiters' = drain_waiters \ {s}
       ELSE Goto(s, "drain_parked") /\ UNCHANGED drain_waiters
    /\ UNCHANGED <<flowVars, space_waiters, space_permit, drain_permit, cmd_lock, cmd, reader, deviceVars, ghostVars>>

\* `notified.await' returns: woken by notify_waiters (a future that was not polled before
\* uses up a stored permit as well), or by the stored permit
DrainWake(s) ==
    /\ pc[s] = "drain_parked"
    /\ \/ s \notin drain_waiters /\ drain_permit' \in {drain_permit, FALSE}
       \/ s \in drain_waiters /\ drain_permit /\ drain_permit' = FALSE
    /\ drain_waiters' = drain_waiters \ {s}
    /\ Goto(s, "drain_check")
    /\ UNCHANGED <<flowVars, space_waiters, space_permit, cmd_lock, cmd, reader, deviceVars, ghostVars>>

\* wait_for_space: `while self.needs_space(needed)'
SpaceCheck(s) ==
    /\ pc[s] = "check" /\ InnerUnlocked
    /\ Goto(s, IF needs_space(cmd[s].length) THEN "register" ELSE "granted")
    /\ UNCHANGED <<flowVars, notifyVars, cmd_lock, cmd, reader, deviceVars, ghostVars>>

\* `let notified = space_available.notified()'
SpaceRegister(s) ==
    /\ pc[s] = "register"
    /\ space_waiters' = space_waiters \cup {s}
    /\ Goto(s, "recheck")
    /\ UNCHANGED <<flowVars, space_permit, drain_waiters, drain_permit, cmd_lock, cmd, reader, deviceVars, ghostVars>>

\* mutant: no second look after registering
SpaceRecheck_skipped(s) ==
    /\ pc[s] = "recheck" /\ InnerUnlocked
    /\ Goto(s, "parked")
    /\ UNCHANGED <<flowVars, notifyVars, cmd_lock, cmd, reader, deviceVars, ghostVars>>

SpaceRecheck(s) ==
    /\ pc[s] = "recheck" /\ InnerUnlocked
    /\ IF needs_space(cmd[s].length)
       THEN Goto(s, "parked") /\ UNCHANGED space_waiters
       ELSE Goto(s, "granted") /\ space_waiters' = space_waiters \ {s}
    /\ UNCHANGED <<flowVars, space_permit, drain_waiters, drain_permit, cmd_lock, cmd, reader, deviceVars, ghostVars>>

SpaceWake(s) ==
    /\ pc[s] = "parked"
    /\ \/ s \notin space_waiters /\ space_permit' \in {space_permit, FALSE}
       \/ s \in space_waiters /\ space_permit /\ space_permit' = FALSE
    /\ space_waiters' = space_waiters \ {s}
    /\ Goto(s, "check")
    /\ UNCHANGED <<flowVars, drain_waiters, drain_permit, cmd_lock, cmd, reader, deviceVars, ghostVars>>

\* the select!'s deadline branch looks once more before it gives up
SpaceTimeout(s) ==
    /\ pc[s] = "parked" /\ InnerUnlocked
    /\ Goto(s, IF needs_space(cmd[s].length) THEN "timed_out" ELSE "granted")
    /\ space_waiters' = space_waiters \ {s}
    /\ UNCHANGED <<flowVars, space_permit, drain_waiters, drain_permit, cmd_lock, cmd, reader, deviceVars, ghostVars>>

Release(s) == cmd_lock' = IF cmd_lock = s THEN NoSender ELSE cmd_lock

\* send_gcode_with_stall: on_buffer_stall said true, so the wait is retried
StallRetry(s) ==
    /\ pc[s] = "timed_out" /\ Kind[s] = "gcode"
    /\ Goto(s, "check")
    /\ UNCHANGED <<flowVars, notifyVars, cmd_lock, cmd, reader, deviceVars, ghostVars>>

\* BufferStall: the stall callback said false, or a best-effort send timed out
GiveUp(s) ==
    /\ pc[s] = "timed_out" /\ Kind[s] \in {"gcode", "simple"}
    /\ Goto(s, "idle") /\ Release(s)
    /\ UNCHANGED <<flowVars, notifyVars, cmd, reader, deviceVars, ghostVars>>

\* send_command_bytes: "wait up to 1 s for space, then send regardless"
SendRegardless(s) ==
    /\ pc[s] = "timed_out" /\ Kind[s] \in {"command", "interactive"}
    /\ Goto(s, "granted")
    /\ breaches' = breaches \cup {"forced"}
    /\ UNCHANGED <<flowVars, notifyVars, cmd_lock, cmd, reader, deviceVars, tracked, started, disturbances>>

track_command(s) ==
    /\ pc[s] = "granted" /\ InnerUnlocked
    /\ tracked' = tracked + cmd[s].length
    /\ cmd' = [cmd EXCEPT ![s].mark = tracked']
    /\ pending' = Append(pending, cmd'[s])
    /\ rx_count' = rx_count + cmd[s].length
    /\ Goto(s, "tracked")
    /\ breaches' = IF \E t \in Senders \ {s} : pc[t] \in {"granted", "tracked"}
                   THEN breaches \cup {"unlocked"} ELSE breaches
    /\ UNCHANGED <<rx_size, acked_since_flush, drained_since_flush, notifyVars, cmd_lock, reader, deviceVars, started, disturbances>>

\* transport.write(..).await; an interactive sender keeps cmd_lock for the response
Write(s) ==
    /\ pc[s] = "tracked"
    /\ wire' = Append(wire, cmd[s]) /\ rx_used' = rx_used + cmd[s].length
    /\ IF Kind[s] = "interactive"
       THEN Goto(s, "await") /\ UNCHANGED cmd_lock
       ELSE Goto(s, "idle") /\ Release(s)
    /\ UNCHANGED <<flowVars, notifyVars, cmd, reader, acks, ghostVars>>

\* the write returns Err: the bytes stay accounted for and no answer will come
WriteError(s) ==
    /\ pc[s] = "tracked" /\ disturbances < MaxDisturbances
    /\ disturbances' = disturbances + 1
    /\ breaches' = breaches \cup {"write_error"}
    /\ Goto(s, "idle") /\ Release(s)
    /\ UNCHANGED <<flowVars, notifyVars, cmd, reader, deviceVars, tracked, started>>

\* request.finished, or command_timeout: either way the lock is released
AwaitDone(s) ==
    /\ pc[s] = "await"
    /\ Goto(s, "idle") /\ Release(s)
    /\ UNCHANGED <<flowVars, notifyVars, cmd, reader, deviceVars, ghostVars>>

(***************************************************************************)
(* The device takes the next line out of its RX buffer and answers it.     *)
(***************************************************************************)
DeviceAnswer ==
    /\ wire # <<>>
    /\ wire' = Tail(wire) /\ rx_used' = rx_used - Head(wire).length
    /\ acks' = Append(acks, Head(wire))
    /\ UNCHANGED <<flowVars, notifyVars, cmd_lock, pc, cmd, reader, ghostVars>>

(***************************************************************************)
(* handle_rx: parse_incoming, a step per ok or error of the chunk and the  *)
(* mutex held from the first to the last; the responses are handled; then  *)
(* flush_notifications.                                                    *)
(***************************************************************************)
MonusNat(a, b) == IF a >= b THEN a - b ELSE 0     \* usize::saturating_sub

\* mutant: the newest command is popped
ack_ok_locked_pops_back ==
    IF pending = <<>> THEN UNCHANGED <<pending, rx_count>>
    ELSE /\ pending' = SubSeq(pending, 1, Len(pending) - 1)
         /\ rx_count' = MonusNat(rx_count, pending[Len(pending)].length)

ack_ok_locked ==
    IF pending = <<>> THEN UNCHANGED <<pending, rx_count>>
    ELSE /\ pending' = Tail(pending)
         /\ rx_count' = MonusNat(rx_count, Head(pending).length)

ParseAck ==
    /\ reader \in {"idle", "parsing"} /\ acks # <<>>
    /\ reader' = "parsing"
    /\ acks' = Tail(acks)
    /\ ack_ok_locked
    /\ acked_since_flush' = TRUE
    /\ drained_since_flush' = (drained_since_flush \/ pending' = <<>>)
    /\ UNCHANGED <<rx_size, notifyVars, cmd_lock, pc, cmd, wire, rx_used, ghostVars>>

ParseEnd ==
    /\ reader = "parsing"
    /\ reader' = "handling"
    /\ UNCHANGED <<flowVars, notifyVars, cmd_lock, pc, cmd, deviceVars, ghostVars>>

\* mutant: the flags are taken and only the space one is acted on
flush_notifications_no_drain ==
    /\ reader = "handling"
    /\ reader' = "idle"
    /\ acked_since_flush' = FALSE /\ drained_since_flush' = FALSE
    /\ IF acked_since_flush THEN signal_space_available ELSE UNCHANGED <<space_waiters, space_permit>>
    /\ UNCHANGED <<rx_count, rx_size, pending, drain_waiters, drain_permit, cmd_lock, pc, cmd, deviceVars, ghostVars>>

flush_notifications ==
    /\ reader = "handling"
    /\ reader' = "idle"
    /\ acked_since_flush' = FALSE /\ drained_since_flush' = FALSE
    /\ IF acked_since_flush THEN signal_space_available ELSE UNCHANGED <<space_waiters, space_permit>>
    /\ IF drained_since_flush THEN notify_drained ELSE UNCHANGED <<drain_waiters, drain_permit>>
    /\ UNCHANGED <<rx_count, rx_size, pending, cmd_lock, pc, cmd, deviceVars, ghostVars>>

(***************************************************************************)
(* What the rest of the session does to the flow control, at any moment.   *)
(***************************************************************************)
Disturb == disturbances < MaxDisturbances /\ disturbances' = disturbances + 1

\* mutant: the byte count is reset and the queue is not
reset_flow_control_keeps_pending ==
    /\ Disturb /\ InnerUnlocked
    /\ rx_count' = 0
    /\ notify_drained /\ signal_space_available
    /\ breaches' = IF Outstanding THEN breaches \cup {"reset"} ELSE breaches
    /\ UNCHANGED <<rx_size, pending, acked_since_flush, drained_since_flush, cmd_lock, pc, cmd, reader, deviceVars, tracked, started>>

\* start_job, recover_from_deadlock, cleanup, connect, and the second half of cancel
reset_flow_control ==
    /\ Disturb /\ InnerUnlocked
    /\ rx_count' = 0 /\ pending' = <<>>
    /\ notify_drained /\ signal_space_available
    /\ breaches' = IF Outstanding THEN breaches \cup {"reset"} ELSE breaches
    /\ UNCHANGED <<rx_size, acked_since_flush, drained_since_flush, cmd_lock, pc, cmd, reader, deviceVars, tracked, started>>

\* cancel's Ctrl-X: the firmware drops its RX buffer, answers in flight still arrive
SoftReset ==
    /\ Disturb
    /\ wire' = <<>> /\ rx_used' = 0
    /\ breaches' = IF Outstanding THEN breaches \cup {"reset"} ELSE breaches
    /\ UNCHANGED <<flowVars, notifyVars, cmd_lock, pc, cmd, reader, acks, tracked, started>>

\* [OPT:] line or a Bf: field seen while the device is idle
set_rx_buffer_size(size) ==
    /\ Disturb /\ InnerUnlocked /\ size # rx_size
    /\ rx_size' = size
    /\ breaches' = IF Outstanding \/ pending # <<>> \/ \E s \in Senders : pc[s] # "idle"
                   THEN breaches \cup {"resize"} ELSE breaches
    /\ UNCHANGED <<rx_count, pending, acked_since_flush, drained_since_flush, notifyVars, cmd_lock, pc, cmd, reader, deviceVars, tracked, started>>

\* handle_error, an ALARM line and cancel wake the senders without freeing anything
SpuriousSignal ==
    /\ Disturb
    /\ signal_space_available
    /\ UNCHANGED <<flowVars, drain_waiters, drain_permit, cmd_lock, pc, cmd, reader, deviceVars, tracked, started, breaches>>

DrainWait(s) == DrainCheck(s) \/ DrainRegister(s) \/ DrainRecheck(s) \/ DrainWake(s)
SpaceWait(s) == SpaceCheck(s) \/ SpaceRegister(s) \/ SpaceRecheck(s) \/ SpaceWake(s)
AfterTimeout(s) == StallRetry(s) \/ GiveUp(s) \/ SendRegardless(s)
Transmit(s) == track_command(s) \/ Write(s) \/ AwaitDone(s)
Reader == ParseAck \/ ParseEnd \/ flush_notifications

Next ==
    \/ \E s \in Senders :
        \/ \E n \in Lengths : Start(s, n)
        \/ AcquireLock(s) \/ DrainWait(s) \/ SpaceWait(s) \/ SpaceTimeout(s)
        \/ AfterTimeout(s) \/ Transmit(s) \/ WriteError(s)
    \/ DeviceAnswer \/ Reader
    \/ reset_flow_control \/ SoftReset \/ SpuriousSignal
    \/ \E size \in Sizes : set_rx_buffer_size(size)

Spec == Init /\ [][Next]_vars

\* The tasks run whenever they can; the device keeps answering; nothing
\* forces a timeout, a new command or a disturbance to happen.
Fairness ==
    /\ WF_vars(DeviceAnswer) /\ WF_vars(Reader)
    /\ \A s \in Senders :
        /\ WF_vars(DrainWait(s)) /\ WF_vars(SpaceWait(s))
        /\ WF_vars(AfterTimeout(s)) /\ WF_vars(Transmit(s))
        /\ SF_vars(AcquireLock(s))
FairSpec == Spec /\ Fairness

-----------------------------------------------------------------------------
\* Every variable keeps its type; in particular rx_count never goes below zero, whatever is
\* acknowledged or reset in between (ack_ok_locked's saturating_sub).
TypeOK ==
    /\ rx_count \in Nat /\ rx_size \in Nat /\ pending \in Seq(Command)
    /\ acked_since_flush \in BOOLEAN /\ drained_since_flush \in BOOLEAN
    /\ space_waiters \subseteq Senders /\ space_permit \in BOOLEAN
    /\ drain_waiters \subseteq Senders /\ drain_permit \in BOOLEAN
    /\ cmd_lock \in Senders \cup {NoSender}
    /\ pc \in [Senders -> PC] /\ cmd \in [Senders -> Command]
    /\ reader \in {"idle", "parsing", "handling"}
    /\ wire \in Seq(Command) /\ rx_used \in Int /\ acks \in Seq(Command)
    /\ tracked \in Nat /\ started \in Nat /\ disturbances \in Nat
    /\ breaches \subseteq Breach

\* Byte accounting (track_command, ack_ok_locked, reset_flow_control): the
\* commands in `pending' lie end to end in the byte stream, the last one ends
\* at the last byte tracked, and rx_count is exactly the bytes they span: no
\* saturating_sub ever saturates and no byte leaks, whatever is reset or acked.
Accounting ==
    /\ pending = <<>> => rx_count = 0
    /\ pending # <<>> => /\ pending[Len(pending)].mark = tracked
                         /\ pending[1].mark + rx_count = tracked + pending[1].length
    /\ \A i \in 1 .. Len(pending) - 1 :
          pending[i + 1].mark = pending[i].mark + pending[i + 1].length

\* Back-pressure (flow.rs:3-5): the device's RX buffer never holds more than
\* rx_size bytes, unless one of the listed steps broke the discipline: a send
\* after a timed out wait, a sender without cmd_lock between another's check
\* and write, a reset or resize with commands outstanding, a failed write.
NoOverflow == breaches = {} => rx_used <= rx_size

\* The unconditional claim of flow.rs:3-5, "provides backpressure so callers
\* never overflow it": no exception for the steps NoOverflow lists.
NeverOverflow == rx_used <= rx_size

\* Every answer is charged to the command it answers: the front of `pending'
\* is the command the device answered (handle_ok reports that op's progress).  That is
\* the order in which commands are counted off; the answers of one chunk may be handled
\* in another one, see GrblReader.
AckAttribution == breaches = {} /\ acks # <<>> => pending # <<>> /\ Head(pending) = Head(acks)

\* A sender parked in wait_for_space whose bytes
\* fit has been woken, or the reader still owes the flush that will wake it.
\* Growing the size wakes nobody, hence the "resize" exception.
NoLostSpace ==
    "resize" \notin breaches =>
        \A s \in space_waiters :
            pc[s] = "parked" /\ ~needs_space(cmd[s].length)
                => reader # "idle" /\ acked_since_flush

\* The same for wait_pending_empty, which has no timeout to fall back on.
NoLostDrain ==
    \A s \in drain_waiters :
        pc[s] = "drain_parked" /\ pending = <<>>
            => reader # "idle" /\ drained_since_flush

\* No lost wake-up (issue #428): whoever is parked in wait_for_space or in wait_pending_empty
\* and could go on has been woken, or the reader still owes the flush that will wake it.
NoLostWakeup == NoLostSpace /\ NoLostDrain

(***************************************************************************)
(* What makes Accounting, NoOverflow and AckAttribution inductive.         *)
(***************************************************************************)
\* The commands of `pending' occupy disjoint stretches of the byte stream, in order.
Ordered ==
    /\ \A i \in 1 .. Len(pending) : pending[i].length <= pending[i].mark /\ pending[i].mark <= tracked
    /\ \A i, j \in 1 .. Len(pending) :
          i < j => pending[i].mark + pending[j].length <= pending[j].mark

\* `pending' is the answers in flight, then the lines in the RX buffer, then
\* the one command that is counted and about to be written.
InStep ==
    /\ \A k \in 1 .. Len(acks) : k <= Len(pending) /\ acks[k] = pending[k]
    /\ \A k \in 1 .. Len(wire) : Len(acks) + k <= Len(pending) /\ wire[k] = pending[Len(acks) + k]
    /\ \A s \in Senders : pc[s] = "tracked" =>
          /\ Len(pending) = Len(acks) + Len(wire) + 1
          /\ pending[Len(pending)] = cmd[s]
          /\ \A t \in Senders : pc[t] = "tracked" => t = s
    /\ (\A s \in Senders : pc[s] # "tracked") => Len(pending) = Len(acks) + Len(wire)

\* A sender that was granted its space still has it; the count fits the size.
Room ==
    /\ rx_count <= rx_size
    /\ \A s \in Senders : pc[s] = "granted" => rx_count + cmd[s].length <= rx_size

\* rx_used is the stretch of the stream the lines in the RX buffer occupy.
DeviceBytes ==
    /\ wire = <<>> => rx_used = 0
    /\ wire # <<>> => rx_used + wire[1].mark = wire[Len(wire)].mark + wire[1].length

Disciplined == breaches = {} => InStep /\ Room /\ DeviceBytes

\* A parked sender gets its space without any timeout, and an interactive command that
\* took cmd_lock gets to send, as long as the device answers and the discipline holds.
ParkedProceeds ==
    \A s \in Senders :
        /\ pc[s] = "parked" ~> (pc[s] # "parked" \/ breaches # {})
        /\ pc[s] = "drain_check" ~> (pc[s] = "check" \/ breaches # {})
=============================================================================
