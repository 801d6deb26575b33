-------------------------- MODULE ConnectionProofs --------------------------
(***************************************************************************)
(* Theorems about the two connection loops that have a status poll: the    *)
(* Smoothieware session (SmoothieSession), and the GRBL session            *)
(* (GrblConnection), here as the instance Grbl.  The variables that the    *)
(* two modules name alike (keep_running, open, conn_pc, device, ...) stand *)
(* for the session at hand; no theorem speaks of both sessions.            *)
(***************************************************************************)
EXTENDS SmoothieSession, TLAPS

\* what GrblConnection has besides
VARIABLES last_connection_status, streaming, pending, stale, command_pc, answered, user_pc

Grbl == INSTANCE GrblConnection

-----------------------------------------------------------------------------
(* The Smoothieware session.  Its inductive invariant: who has cmd_lock    *)
(* waits for an answer; a piece of a line that an earlier link left is     *)
(* gone before the handshake is over; and a session that was cleaned up    *)
(* has no task left.                                                       *)

\* The line that a link's first report arrives in has used up what the buffer held
\* (handle_rx, await_handshake).
ReportUsesUp == conn_pc = "handshake" /\ handshake_received => line_buffer # "old"

\* A loop that opens a link has said that the link before it is gone (connection_loop, cleanup).
NotYetConnected == conn_pc \in {"top", "handshake"} => connection_status # "Connected"

\* No task of the session survives cleanup(), and the link is closed (abort_background_tasks).
NoTaskLeft == ~keep_running /\ pc["user"] # "aborting" => conn_pc = "none" /\ reader = "off" /\ open = FALSE

BufferInv == FreshBuffer /\ ReportUsesUp /\ NotYetConnected
Inv == TypeOK /\ NothingLeftOver /\ BufferInv /\ NoTaskLeft

\* Nothing runs, waits or is open before the first connect().
LEMMA InvInit == Init => Inv
<1> SUFFICES ASSUME Init PROVE Inv
  OBVIOUS
<1>1. FlagsOK
  BY Zenon DEF Init, FlagsOK
<1>2. PlacesOK
  BY BoundsAssumption DEF Init, PlacesOK, Statuses, ConnPC, PC, Senders
<1>3. NothingLeftOver
  BY DEF Init, NothingLeftOver, Senders
<1>4. BufferInv /\ NoTaskLeft
  BY DEF Init, BufferInv, FreshBuffer, ReportUsesUp, NotYetConnected, NoTaskLeft, Senders
<1> QED BY <1>1, <1>2, <1>3, <1>4 DEF Inv, TypeOK

Replies == Statuses \cup {"ok", "error", "ALARM"}

\* What the device answers is a reply.
LEMMA ReplyOK ==
  ASSUME rx \in Seq(Replies), NEW r \in Replies, Reply(r)
  PROVE  rx' \in Seq(Replies)
<1>1. Append(rx, r) \in Seq(Replies)
  OBVIOUS
<1> QED BY <1>1, Zenon DEF Reply

\* A line that the firmware takes is queued, rejected or acknowledged; none requests a hold.
LEMMA DeviceLineOK ==
  ASSUME rx \in Seq(Replies), dev_queue \in Nat, dev_state \in Statuses, NEW s, DeviceLine(s)
  PROVE  rx' \in Seq(Replies) /\ dev_queue' \in Nat /\ dev_state' \in Statuses /\ dev_hold' = dev_hold
<1>1. CASE device # "up"
  BY <1>1 DEF DeviceLine, firmware
<1>2. CASE device = "up" /\ s = "job" /\ dev_state # "Alarm"
  BY <1>2 DEF DeviceLine, Statuses
<1>3. CASE device = "up" /\ s = "job" /\ dev_state = "Alarm"
  <2>1. Reply("error") /\ UNCHANGED firmware
    BY <1>3 DEF DeviceLine
  <2> QED BY <2>1, ReplyOK DEF firmware, Replies
<1>4. CASE device = "up" /\ s # "job"
  <2>1. /\ Reply("ok")
        /\ dev_state' = IF dev_state = "Alarm" /\ s = "user" THEN "Idle" ELSE dev_state
        /\ UNCHANGED <<dev_queue, dev_hold>>
    BY <1>4 DEF DeviceLine
  <2> QED BY <2>1, ReplyOK DEF Replies, Statuses
<1> QED BY <1>1, <1>2, <1>3, <1>4

\* Every step keeps the flags Boolean.
LEMMA FlagsStep == FlagsOK /\ PlacesOK /\ [Next]_vars => FlagsOK'
<1> SUFFICES ASSUME FlagsOK, PlacesOK, [Next]_vars PROVE FlagsOK'
  OBVIOUS
<1> USE DEF FlagsOK, flags, buffer, exchange, link, firmware, bounds, WriteFails
<1>1. CASE CleanupFlags BY <1>1, Zenon DEF CleanupFlags, Call, resolve_pending
<1>2. CASE execute_command BY <1>2, Zenon DEF execute_command, callUnchanged, Call
<1>3. CASE CancelFlags BY <1>3, Zenon DEF CancelFlags, callUnchanged, Call, resolve_pending
<1>4. CASE HoldFlag BY <1>4, Zenon DEF HoldFlag, callUnchanged, Call
<1>5. CASE CleanupClose BY <1>5, Zenon DEF CleanupClose
<1>6. CASE CancelWrite BY <1>6, Zenon DEF CancelWrite, senderUnchanged
<1>7. CASE HoldWrite BY <1>7, Zenon DEF HoldWrite, callUnchanged, DeviceHold
<1>8. CASE ConnDrop BY <1>8, Zenon DEF ConnDrop
<1>9. CASE ReaderDrop BY <1>9, Zenon DEF ReaderDrop
<1>10. CASE LoopTop BY <1>10, Zenon DEF LoopTop, connUnchanged, Outdated
<1>11. CASE LoopOpenFails BY <1>11, Zenon DEF LoopOpenFails, connUnchanged
<1>12. CASE HandshakePoll BY <1>12, Zenon DEF HandshakePoll, connUnchanged, Reply
<1>13. CASE HandshakeDone BY <1>13, Zenon DEF HandshakeDone, connUnchanged
<1>14. CASE HandshakeTimeout BY <1>14, Zenon DEF HandshakeTimeout, connUnchanged
<1>15. CASE Poll BY <1>15, Zenon DEF Poll, connUnchanged
<1>16. CASE LoopClose BY <1>16, Zenon DEF LoopClose, connUnchanged
<1>17. CASE LoopSleep BY <1>17, Zenon DEF LoopSleep, connUnchanged
<1>18. CASE LoopEnd BY <1>18, Zenon DEF LoopEnd, connUnchanged
<1>19. CASE PollWrite BY <1>19, Zenon DEF PollWrite, connUnchanged, Reply
<1>20. CASE Fragment BY <1>20, Zenon DEF Fragment, readerUnchanged
<1>21. CASE handle_other BY <1>21, Zenon DEF handle_other, readerUnchanged, Line
<1>22. CASE handle_ok BY <1>22, Zenon DEF handle_ok, readerUnchanged, Line, finish_pending
<1>23. CASE handle_error_line BY <1>23, Zenon DEF handle_error_line, readerUnchanged, Line, finish_pending
<1>24. CASE handle_alarm BY <1>24, Zenon DEF handle_alarm, readerUnchanged, Line, finish_pending
<1>25. CASE Raise BY <1>25, Zenon DEF Raise, readerUnchanged
<1>26. CASE handle_status_report BY <1>26, Zenon DEF handle_status_report, readerUnchanged, Line
<1>27. CASE StatusStore BY <1>27, Zenon DEF StatusStore, readerUnchanged
<1>28. ASSUME NEW s \in Senders, Send(s) PROVE FlagsOK'
  <2>1. DeviceLine(s) => dev_hold' = dev_hold
    BY DeviceLineOK DEF PlacesOK, Replies
  <2> QED BY <1>28, <2>1, Zenon DEF Send, senderUnchanged
<1>29. ASSUME NEW s \in Senders, Finish(s) PROVE FlagsOK'
  BY <1>29, Zenon DEF Finish, senderUnchanged, Leave, After
<1>30. ASSUME NEW s \in Senders, Timeout(s) PROVE FlagsOK'
  BY <1>30, Zenon DEF Timeout, senderUnchanged, Leave, After
<1>31. ASSUME NEW s \in Senders, Shutdown(s) PROVE FlagsOK'
  <2>1. DeviceLine("safety") => dev_hold' = dev_hold
    BY DeviceLineOK DEF PlacesOK, Replies
  <2> QED BY <1>31, <2>1, Zenon DEF Shutdown, senderUnchanged, send_safety_shutdown
<1>32. CASE start_job BY <1>32, Zenon DEF start_job, jobUnchanged
<1>33. CASE RunHead BY <1>33, Zenon DEF RunHead, jobUnchanged
<1>34. CASE RunEnd BY <1>34, Zenon DEF RunEnd, jobUnchanged
<1>35. CASE Motion BY <1>35, Zenon DEF Motion, deviceUnchanged, Reply
<1>36. CASE Alarm BY <1>36, Zenon DEF Alarm, deviceUnchanged, Fault, Reply
<1>37. CASE Unplug BY <1>37, Zenon DEF Unplug, deviceUnchanged, Fault
<1>38. CASE Hang BY <1>38, Zenon DEF Hang, deviceUnchanged, Fault
<1>39. CASE Recover BY <1>39, Zenon DEF Recover, deviceUnchanged
<1>40. CASE UNCHANGED vars BY <1>40, Zenon DEF vars
<1> QED
  BY <1>1, <1>2, <1>3, <1>4, <1>5, <1>6, <1>7, <1>8, <1>9, <1>10, <1>11, <1>12, <1>13, <1>14, <1>15,
     <1>16, <1>17, <1>18, <1>19, <1>20, <1>21, <1>22, <1>23, <1>24, <1>25, <1>26, <1>27, <1>28,
     <1>29, <1>30, <1>31, <1>32, <1>33, <1>34, <1>35, <1>36, <1>37, <1>38, <1>39, <1>40 DEF Next,
     ConnStep, ReaderStep, Exchange, RunStep, UserStep

\* Every step keeps every other variable in its type.
LEMMA PlacesStep == PlacesOK /\ [Next]_vars => PlacesOK'
<1> SUFFICES ASSUME PlacesOK, [Next]_vars PROVE PlacesOK'
  OBVIOUS
<1> USE BoundsAssumption DEF PlacesOK, ConnPC, PC, Senders, Statuses, flags, buffer, exchange, link, firmware, bounds, Goto
<1>1. CASE CleanupFlags BY <1>1 DEF CleanupFlags, Call, resolve_pending
<1>2. CASE execute_command BY <1>2 DEF execute_command, callUnchanged, Call
<1>3. CASE CancelFlags BY <1>3 DEF CancelFlags, callUnchanged, Call, resolve_pending
<1>4. CASE HoldFlag BY <1>4 DEF HoldFlag, callUnchanged, Call
<1>5. CASE CleanupClose BY <1>5 DEF CleanupClose
<1>6. CASE CancelWrite BY <1>6 DEF CancelWrite, senderUnchanged
<1>7. CASE HoldWrite BY <1>7 DEF HoldWrite, callUnchanged, DeviceHold
<1>8. CASE ConnDrop BY <1>8 DEF ConnDrop
<1>9. CASE ReaderDrop BY <1>9 DEF ReaderDrop
<1>10. CASE LoopTop BY <1>10 DEF LoopTop, connUnchanged, Outdated
<1>11. CASE LoopOpenFails BY <1>11 DEF LoopOpenFails, connUnchanged
<1>12. CASE HandshakePoll
  <2>1. Reply(dev_state) => rx' \in Seq(Replies)
    BY ReplyOK DEF Replies
  <2> QED BY <1>12, <2>1 DEF HandshakePoll, connUnchanged, Replies
<1>13. CASE HandshakeDone BY <1>13 DEF HandshakeDone, connUnchanged
<1>14. CASE HandshakeTimeout BY <1>14 DEF HandshakeTimeout, connUnchanged
<1>15. CASE Poll BY <1>15 DEF Poll, connUnchanged
<1>16. CASE LoopClose BY <1>16 DEF LoopClose, connUnchanged
<1>17. CASE LoopSleep BY <1>17 DEF LoopSleep, connUnchanged
<1>18. CASE LoopEnd BY <1>18 DEF LoopEnd, connUnchanged
<1>19. CASE PollWrite
  <2>1. Reply(dev_state) => rx' \in Seq(Replies)
    BY ReplyOK DEF Replies
  <2> QED BY <1>19, <2>1 DEF PollWrite, connUnchanged, Replies
<1>20. CASE Fragment BY <1>20 DEF Fragment, readerUnchanged
<1>21. CASE handle_other BY <1>21 DEF handle_other, readerUnchanged, Line
<1>22. CASE handle_ok BY <1>22 DEF handle_ok, readerUnchanged, Line, finish_pending
<1>23. CASE handle_error_line BY <1>23 DEF handle_error_line, readerUnchanged, Line, finish_pending
<1>24. CASE handle_alarm BY <1>24 DEF handle_alarm, readerUnchanged, Line, finish_pending
<1>25. CASE Raise BY <1>25 DEF Raise, readerUnchanged
<1>26. CASE handle_status_report
  <2>1. Reported \subseteq Statuses \cup {"Unknown"}
    BY <1>26 DEF handle_status_report, Reported, Taken, Line
  <2>2. \A st \in Statuses \cup {"Unknown"} : Adjusted(st) \in Statuses \cup {"Unknown"}
    BY DEF Adjusted
  <2>3. reader' \in Statuses \cup {"Unknown"}
    BY <1>26, <2>1, <2>2 DEF handle_status_report
  <2> QED BY <1>26, <2>3 DEF handle_status_report, readerUnchanged, Line
<1>27. CASE StatusStore BY <1>27 DEF StatusStore, readerUnchanged
<1>28. ASSUME NEW s \in Senders, Send(s) PROVE PlacesOK'
  <2>1. DeviceLine(s) => rx' \in Seq(Replies) /\ dev_queue' \in Nat /\ dev_state' \in Statuses
    BY DeviceLineOK DEF Replies
  <2> QED BY <1>28, <2>1 DEF Send, senderUnchanged, After, Replies
<1>29. ASSUME NEW s \in Senders, Finish(s) PROVE PlacesOK'
  BY <1>29 DEF Finish, senderUnchanged, Leave, After
<1>30. ASSUME NEW s \in Senders, Timeout(s) PROVE PlacesOK'
  BY <1>30 DEF Timeout, senderUnchanged, Leave, After
<1>31. ASSUME NEW s \in Senders, Shutdown(s) PROVE PlacesOK'
  <2>1. DeviceLine("safety") => rx' \in Seq(Replies) /\ dev_queue' \in Nat /\ dev_state' \in Statuses
    BY DeviceLineOK DEF Replies
  <2> QED BY <1>31, <2>1 DEF Shutdown, senderUnchanged, send_safety_shutdown, Replies
<1>32. CASE start_job BY <1>32 DEF start_job, jobUnchanged
<1>33. CASE RunHead BY <1>33 DEF RunHead, jobUnchanged
<1>34. CASE RunEnd BY <1>34 DEF RunEnd, jobUnchanged
<1>35. CASE Motion BY <1>35 DEF Motion, deviceUnchanged, Reply
<1>36. CASE Alarm BY <1>36 DEF Alarm, deviceUnchanged, Fault, Reply
<1>37. CASE Unplug BY <1>37 DEF Unplug, deviceUnchanged, Fault
<1>38. CASE Hang BY <1>38 DEF Hang, deviceUnchanged, Fault
<1>39. CASE Recover BY <1>39 DEF Recover, deviceUnchanged
<1>40. CASE UNCHANGED vars BY <1>40 DEF vars
<1> QED
  BY <1>1, <1>2, <1>3, <1>4, <1>5, <1>6, <1>7, <1>8, <1>9, <1>10, <1>11, <1>12, <1>13, <1>14, <1>15,
     <1>16, <1>17, <1>18, <1>19, <1>20, <1>21, <1>22, <1>23, <1>24, <1>25, <1>26, <1>27, <1>28,
     <1>29, <1>30, <1>31, <1>32, <1>33, <1>34, <1>35, <1>36, <1>37, <1>38, <1>39, <1>40 DEF Next,
     ConnStep, ReaderStep, Exchange, RunStep, UserStep

\* Whoever has cmd_lock waits, and slot and finished flag are its own, after every step.
LEMMA ExchangeStep == PlacesOK /\ NothingLeftOver /\ [Next]_vars => NothingLeftOver'
<1> SUFFICES ASSUME PlacesOK, NothingLeftOver, [Next]_vars PROVE NothingLeftOver'
  OBVIOUS
<1> USE DEF PlacesOK, NothingLeftOver, Senders, flags, buffer, exchange, link, firmware, bounds, Goto
<1>1. CASE CleanupFlags BY <1>1 DEF CleanupFlags, Call, resolve_pending
<1>2. CASE execute_command BY <1>2 DEF execute_command, callUnchanged, Call
<1>3. CASE CancelFlags BY <1>3 DEF CancelFlags, callUnchanged, Call, resolve_pending
<1>4. CASE HoldFlag BY <1>4 DEF HoldFlag, callUnchanged, Call
<1>5. CASE CleanupClose BY <1>5 DEF CleanupClose
<1>6. CASE CancelWrite BY <1>6 DEF CancelWrite, senderUnchanged
<1>7. CASE HoldWrite BY <1>7 DEF HoldWrite, callUnchanged
<1>8. CASE ConnDrop BY <1>8 DEF ConnDrop
<1>9. CASE ReaderDrop BY <1>9 DEF ReaderDrop
<1>10. CASE LoopTop BY <1>10 DEF LoopTop, connUnchanged
<1>11. CASE LoopOpenFails BY <1>11 DEF LoopOpenFails, connUnchanged
<1>12. CASE HandshakePoll BY <1>12 DEF HandshakePoll, connUnchanged
<1>13. CASE HandshakeDone BY <1>13 DEF HandshakeDone, connUnchanged
<1>14. CASE HandshakeTimeout BY <1>14 DEF HandshakeTimeout, connUnchanged
<1>15. CASE Poll BY <1>15 DEF Poll, connUnchanged
<1>16. CASE LoopClose BY <1>16 DEF LoopClose, connUnchanged
<1>17. CASE LoopSleep BY <1>17 DEF LoopSleep, connUnchanged
<1>18. CASE LoopEnd BY <1>18 DEF LoopEnd, connUnchanged
<1>19. CASE PollWrite BY <1>19 DEF PollWrite, connUnchanged
<1>20. CASE Fragment BY <1>20 DEF Fragment, readerUnchanged
<1>21. CASE handle_other BY <1>21 DEF handle_other, readerUnchanged, Line
<1>22. CASE handle_ok BY <1>22 DEF handle_ok, readerUnchanged, Line, finish_pending
<1>23. CASE handle_error_line BY <1>23 DEF handle_error_line, readerUnchanged, Line, finish_pending
<1>24. CASE handle_alarm BY <1>24 DEF handle_alarm, readerUnchanged, Line, finish_pending
<1>25. CASE Raise BY <1>25 DEF Raise, readerUnchanged
<1>26. CASE handle_status_report BY <1>26 DEF handle_status_report, readerUnchanged, Line
<1>27. CASE StatusStore BY <1>27 DEF StatusStore, readerUnchanged
<1>28. ASSUME NEW s \in Senders, Send(s) PROVE NothingLeftOver'
  BY <1>28 DEF Send, senderUnchanged, After
<1>29. ASSUME NEW s \in Senders, Finish(s) PROVE NothingLeftOver'
  BY <1>29 DEF Finish, senderUnchanged, Leave, After
<1>30. ASSUME NEW s \in Senders, Timeout(s) PROVE NothingLeftOver'
  BY <1>30 DEF Timeout, senderUnchanged, Leave, After
<1>31. ASSUME NEW s \in Senders, Shutdown(s) PROVE NothingLeftOver'
  BY <1>31 DEF Shutdown, senderUnchanged, send_safety_shutdown
<1>32. CASE start_job BY <1>32 DEF start_job, jobUnchanged
<1>33. CASE RunHead BY <1>33 DEF RunHead, jobUnchanged
<1>34. CASE RunEnd BY <1>34 DEF RunEnd, jobUnchanged
<1>35. CASE Motion BY <1>35 DEF Motion, deviceUnchanged
<1>36. CASE Alarm BY <1>36 DEF Alarm, deviceUnchanged
<1>37. CASE Unplug BY <1>37 DEF Unplug, deviceUnchanged
<1>38. CASE Hang BY <1>38 DEF Hang, deviceUnchanged
<1>39. CASE Recover BY <1>39 DEF Recover, deviceUnchanged
<1>40. CASE UNCHANGED vars BY <1>40 DEF vars
<1> QED
  BY <1>1, <1>2, <1>3, <1>4, <1>5, <1>6, <1>7, <1>8, <1>9, <1>10, <1>11, <1>12, <1>13, <1>14, <1>15,
     <1>16, <1>17, <1>18, <1>19, <1>20, <1>21, <1>22, <1>23, <1>24, <1>25, <1>26, <1>27, <1>28,
     <1>29, <1>30, <1>31, <1>32, <1>33, <1>34, <1>35, <1>36, <1>37, <1>38, <1>39, <1>40 DEF Next,
     ConnStep, ReaderStep, Exchange, RunStep, UserStep

\* What an earlier link left in the buffer never meets a session that says Connected.
LEMMA BufferStep == PlacesOK /\ BufferInv /\ [Next]_vars => BufferInv'
<1> SUFFICES ASSUME PlacesOK, BufferInv, [Next]_vars PROVE BufferInv'
  OBVIOUS
<1> USE DEF BufferInv, FreshBuffer, ReportUsesUp, NotYetConnected, flags, buffer, exchange, link, firmware, bounds,
        WriteFails
<1>1. CASE CleanupFlags BY <1>1 DEF CleanupFlags
<1>2. CASE execute_command BY <1>2 DEF execute_command, callUnchanged
<1>3. CASE CancelFlags BY <1>3 DEF CancelFlags, callUnchanged
<1>4. CASE HoldFlag BY <1>4 DEF HoldFlag, callUnchanged
<1>5. CASE CleanupClose BY <1>5 DEF CleanupClose
<1>6. CASE CancelWrite BY <1>6 DEF CancelWrite, senderUnchanged
<1>7. CASE HoldWrite BY <1>7 DEF HoldWrite, callUnchanged
<1>8. CASE ConnDrop BY <1>8 DEF ConnDrop
<1>9. CASE ReaderDrop BY <1>9 DEF ReaderDrop
<1>10. CASE LoopTop BY <1>10 DEF LoopTop, connUnchanged, Outdated
<1>11. CASE LoopOpenFails BY <1>11 DEF LoopOpenFails, connUnchanged
<1>12. CASE HandshakePoll BY <1>12 DEF HandshakePoll, connUnchanged
<1>13. CASE HandshakeDone BY <1>13 DEF HandshakeDone, connUnchanged
<1>14. CASE HandshakeTimeout BY <1>14 DEF HandshakeTimeout, connUnchanged
<1>15. CASE Poll BY <1>15 DEF Poll, connUnchanged
<1>16. CASE LoopClose BY <1>16 DEF LoopClose, connUnchanged
<1>17. CASE LoopSleep BY <1>17 DEF LoopSleep, connUnchanged
<1>18. CASE LoopEnd BY <1>18 DEF LoopEnd, connUnchanged
<1>19. CASE PollWrite BY <1>19 DEF PollWrite, connUnchanged
<1>20. CASE Fragment BY <1>20 DEF Fragment, readerUnchanged
<1>21. CASE handle_other BY <1>21 DEF handle_other, readerUnchanged, Line
<1>22. CASE handle_ok BY <1>22 DEF handle_ok, readerUnchanged, Line
<1>23. CASE handle_error_line BY <1>23 DEF handle_error_line, readerUnchanged, Line
<1>24. CASE handle_alarm BY <1>24 DEF handle_alarm, readerUnchanged, Line
<1>25. CASE Raise BY <1>25 DEF Raise, readerUnchanged
<1>26. CASE handle_status_report BY <1>26 DEF handle_status_report, readerUnchanged, Line
<1>27. CASE StatusStore BY <1>27 DEF StatusStore, readerUnchanged
<1>28. ASSUME NEW s \in Senders, Send(s) PROVE BufferInv'
  BY <1>28 DEF Send, senderUnchanged
<1>29. ASSUME NEW s \in Senders, Finish(s) PROVE BufferInv'
  BY <1>29 DEF Finish, senderUnchanged
<1>30. ASSUME NEW s \in Senders, Timeout(s) PROVE BufferInv'
  BY <1>30 DEF Timeout, senderUnchanged
<1>31. ASSUME NEW s \in Senders, Shutdown(s) PROVE BufferInv'
  BY <1>31 DEF Shutdown, senderUnchanged, send_safety_shutdown
<1>32. CASE start_job BY <1>32 DEF start_job, jobUnchanged
<1>33. CASE RunHead BY <1>33 DEF RunHead, jobUnchanged
<1>34. CASE RunEnd BY <1>34 DEF RunEnd, jobUnchanged
<1>35. CASE Motion BY <1>35 DEF Motion, deviceUnchanged
<1>36. CASE Alarm BY <1>36 DEF Alarm, deviceUnchanged
<1>37. CASE Unplug BY <1>37 DEF Unplug, deviceUnchanged
<1>38. CASE Hang BY <1>38 DEF Hang, deviceUnchanged
<1>39. CASE Recover BY <1>39 DEF Recover, deviceUnchanged
<1>40. CASE UNCHANGED vars BY <1>40 DEF vars
<1> QED
  BY <1>1, <1>2, <1>3, <1>4, <1>5, <1>6, <1>7, <1>8, <1>9, <1>10, <1>11, <1>12, <1>13, <1>14, <1>15,
     <1>16, <1>17, <1>18, <1>19, <1>20, <1>21, <1>22, <1>23, <1>24, <1>25, <1>26, <1>27, <1>28,
     <1>29, <1>30, <1>31, <1>32, <1>33, <1>34, <1>35, <1>36, <1>37, <1>38, <1>39, <1>40 DEF Next,
     ConnStep, ReaderStep, Exchange, RunStep, UserStep

\* No step revives anything in a session that was cleaned up.
LEMMA CleanStep == PlacesOK /\ NoTaskLeft /\ [Next]_vars => NoTaskLeft'
<1> SUFFICES ASSUME PlacesOK, NoTaskLeft, [Next]_vars PROVE NoTaskLeft'
  OBVIOUS
<1> USE DEF PlacesOK, NoTaskLeft, Senders, Statuses, flags, buffer, exchange, link, firmware, bounds, Goto, WriteOk, WriteFails
<1>1. CASE CleanupFlags BY <1>1 DEF CleanupFlags, Call
<1>2. CASE execute_command BY <1>2 DEF execute_command, callUnchanged, Call
<1>3. CASE CancelFlags BY <1>3 DEF CancelFlags, callUnchanged, Call
<1>4. CASE HoldFlag BY <1>4 DEF HoldFlag, callUnchanged, Call
<1>5. CASE CleanupClose BY <1>5 DEF CleanupClose
<1>6. CASE CancelWrite BY <1>6 DEF CancelWrite, senderUnchanged
<1>7. CASE HoldWrite BY <1>7 DEF HoldWrite, callUnchanged
<1>8. CASE ConnDrop BY <1>8 DEF ConnDrop
<1>9. CASE ReaderDrop BY <1>9 DEF ReaderDrop
<1>10. CASE LoopTop BY <1>10 DEF LoopTop, connUnchanged
<1>11. CASE LoopOpenFails BY <1>11 DEF LoopOpenFails, connUnchanged
<1>12. CASE HandshakePoll BY <1>12 DEF HandshakePoll, connUnchanged
<1>13. CASE HandshakeDone BY <1>13 DEF HandshakeDone, connUnchanged
<1>14. CASE HandshakeTimeout BY <1>14 DEF HandshakeTimeout, connUnchanged
<1>15. CASE Poll BY <1>15 DEF Poll, connUnchanged
<1>16. CASE LoopClose BY <1>16 DEF LoopClose, connUnchanged
<1>17. CASE LoopSleep BY <1>17 DEF LoopSleep, connUnchanged
<1>18. CASE LoopEnd BY <1>18 DEF LoopEnd, connUnchanged
<1>19. CASE PollWrite BY <1>19 DEF PollWrite, connUnchanged
<1>20. CASE Fragment BY <1>20 DEF Fragment, readerUnchanged
<1>21. CASE handle_other BY <1>21 DEF handle_other, readerUnchanged, Line
<1>22. CASE handle_ok BY <1>22 DEF handle_ok, readerUnchanged, Line
<1>23. CASE handle_error_line BY <1>23 DEF handle_error_line, readerUnchanged, Line
<1>24. CASE handle_alarm BY <1>24 DEF handle_alarm, readerUnchanged, Line
<1>25. CASE Raise BY <1>25 DEF Raise, readerUnchanged
<1>26. CASE handle_status_report BY <1>26 DEF handle_status_report, readerUnchanged, Line
<1>27. CASE StatusStore BY <1>27 DEF StatusStore, readerUnchanged
<1>28. ASSUME NEW s \in Senders, Send(s) PROVE NoTaskLeft'
  BY <1>28 DEF Send, senderUnchanged, After
<1>29. ASSUME NEW s \in Senders, Finish(s) PROVE NoTaskLeft'
  BY <1>29 DEF Finish, senderUnchanged, After
<1>30. ASSUME NEW s \in Senders, Timeout(s) PROVE NoTaskLeft'
  BY <1>30 DEF Timeout, senderUnchanged, After
<1>31. ASSUME NEW s \in Senders, Shutdown(s) PROVE NoTaskLeft'
  BY <1>31 DEF Shutdown, senderUnchanged, send_safety_shutdown
<1>32. CASE start_job BY <1>32 DEF start_job, jobUnchanged
<1>33. CASE RunHead BY <1>33 DEF RunHead, jobUnchanged
<1>34. CASE RunEnd BY <1>34 DEF RunEnd, jobUnchanged
<1>35. CASE Motion BY <1>35 DEF Motion, deviceUnchanged
<1>36. CASE Alarm BY <1>36 DEF Alarm, deviceUnchanged
<1>37. CASE Unplug BY <1>37 DEF Unplug, deviceUnchanged
<1>38. CASE Hang BY <1>38 DEF Hang, deviceUnchanged
<1>39. CASE Recover BY <1>39 DEF Recover, deviceUnchanged
<1>40. CASE UNCHANGED vars BY <1>40 DEF vars
<1> QED
  BY <1>1, <1>2, <1>3, <1>4, <1>5, <1>6, <1>7, <1>8, <1>9, <1>10, <1>11, <1>12, <1>13, <1>14, <1>15,
     <1>16, <1>17, <1>18, <1>19, <1>20, <1>21, <1>22, <1>23, <1>24, <1>25, <1>26, <1>27, <1>28,
     <1>29, <1>30, <1>31, <1>32, <1>33, <1>34, <1>35, <1>36, <1>37, <1>38, <1>39, <1>40 DEF Next,
     ConnStep, ReaderStep, Exchange, RunStep, UserStep

\* The invariant holds in every reachable state.
LEMMA InvAlways == Spec => []Inv
<1>1. Inv /\ [Next]_vars => Inv'
  BY FlagsStep, PlacesStep, ExchangeStep, BufferStep, CleanStep DEF Inv, TypeOK
<1> QED BY InvInit, <1>1, PTL DEF Spec

\* Every flag, position, reply and counter of the Smoothieware session keeps its type.
THEOREM TypeCorrect == Spec => []TypeOK
BY InvAlways, PTL DEF Inv

\* Slot, finished flag and cmd_lock are those of a sender that waits, for every length of the job
\* and every number of calls and faults: no command finds the leftovers of another (ping_pong).
THEOREM NothingIsLeftOver == Spec => []NothingLeftOver
BY InvAlways, PTL DEF Inv

\* A session that says Connected over an open link has used up the piece of a line that the link
\* before it left in the buffer, so that the answer to its next command is not glued to it.
THEOREM BufferIsFresh == Spec => []FreshBuffer
BY InvAlways, PTL DEF Inv, BufferInv

\* After cleanup() returned no task opens the transport, reports a connection status or stores a
\* device status.
THEOREM CleanupFinal == Spec => CleanupIsFinal
<1> DEFINE Final == ~keep_running /\ ~keep_running' /\ pc["user"] = "ready" /\ pc'["user"] = "ready"
                      => UNCHANGED <<connection_status, open>> /\ (status' = status \/ pc["job"] # pc'["job"])
<1>1. Inv /\ [Next]_vars => Final
  <2> SUFFICES ASSUME PlacesOK, NoTaskLeft, [Next]_vars, ~keep_running, ~keep_running', pc["user"] = "ready", pc'["user"] = "ready"
               PROVE  UNCHANGED <<connection_status, open>> /\ (status' = status \/ pc["job"] # pc'["job"])
    BY DEF Inv, TypeOK
  <2> USE DEF PlacesOK, NoTaskLeft, Senders, Statuses, flags, buffer, exchange, link, firmware, bounds, Goto, WriteOk, WriteFails
  <2>1. CASE CleanupFlags BY <2>1 DEF CleanupFlags, Call
  <2>2. CASE execute_command BY <2>2 DEF execute_command, callUnchanged, Call
  <2>3. CASE CancelFlags BY <2>3 DEF CancelFlags, callUnchanged, Call
  <2>4. CASE HoldFlag BY <2>4 DEF HoldFlag, callUnchanged, Call
  <2>5. CASE CleanupClose BY <2>5 DEF CleanupClose
  <2>6. CASE CancelWrite BY <2>6 DEF CancelWrite, senderUnchanged
  <2>7. CASE HoldWrite BY <2>7 DEF HoldWrite, callUnchanged
  <2>8. CASE ConnDrop BY <2>8 DEF ConnDrop
  <2>9. CASE ReaderDrop BY <2>9 DEF ReaderDrop
  <2>10. CASE LoopTop BY <2>10 DEF LoopTop, connUnchanged
  <2>11. CASE LoopOpenFails BY <2>11 DEF LoopOpenFails, connUnchanged
  <2>12. CASE HandshakePoll BY <2>12 DEF HandshakePoll, connUnchanged
  <2>13. CASE HandshakeDone BY <2>13 DEF HandshakeDone, connUnchanged
  <2>14. CASE HandshakeTimeout BY <2>14 DEF HandshakeTimeout, connUnchanged
  <2>15. CASE Poll BY <2>15 DEF Poll, connUnchanged
  <2>16. CASE LoopClose BY <2>16 DEF LoopClose, connUnchanged
  <2>17. CASE LoopSleep BY <2>17 DEF LoopSleep, connUnchanged
  <2>18. CASE LoopEnd BY <2>18 DEF LoopEnd, connUnchanged
  <2>19. CASE PollWrite BY <2>19 DEF PollWrite, connUnchanged
  <2>20. CASE Fragment BY <2>20 DEF Fragment, readerUnchanged
  <2>21. CASE handle_other BY <2>21 DEF handle_other, readerUnchanged, Line
  <2>22. CASE handle_ok BY <2>22 DEF handle_ok, readerUnchanged, Line
  <2>23. CASE handle_error_line BY <2>23 DEF handle_error_line, readerUnchanged, Line
  <2>24. CASE handle_alarm BY <2>24 DEF handle_alarm, readerUnchanged, Line
  <2>25. CASE Raise BY <2>25 DEF Raise, readerUnchanged
  <2>26. CASE handle_status_report BY <2>26 DEF handle_status_report, readerUnchanged, Line
  <2>27. CASE StatusStore BY <2>27 DEF StatusStore, readerUnchanged
  <2>28. ASSUME NEW s \in Senders, Send(s) PROVE UNCHANGED <<connection_status, open>> /\ (status' = status \/ pc["job"] # pc'["job"])
    BY <2>28 DEF Send, senderUnchanged, After
  <2>29. ASSUME NEW s \in Senders, Finish(s) PROVE UNCHANGED <<connection_status, open>> /\ (status' = status \/ pc["job"] # pc'["job"])
    BY <2>29 DEF Finish, senderUnchanged, After
  <2>30. ASSUME NEW s \in Senders, Timeout(s) PROVE UNCHANGED <<connection_status, open>> /\ (status' = status \/ pc["job"] # pc'["job"])
    BY <2>30 DEF Timeout, senderUnchanged, After
  <2>31. ASSUME NEW s \in Senders, Shutdown(s) PROVE UNCHANGED <<connection_status, open>> /\ (status' = status \/ pc["job"] # pc'["job"])
    BY <2>31 DEF Shutdown, senderUnchanged, send_safety_shutdown
  <2>32. CASE start_job BY <2>32 DEF start_job, jobUnchanged
  <2>33. CASE RunHead BY <2>33 DEF RunHead, jobUnchanged
  <2>34. CASE RunEnd BY <2>34 DEF RunEnd, jobUnchanged
  <2>35. CASE Motion BY <2>35 DEF Motion, deviceUnchanged
  <2>36. CASE Alarm BY <2>36 DEF Alarm, deviceUnchanged
  <2>37. CASE Unplug BY <2>37 DEF Unplug, deviceUnchanged
  <2>38. CASE Hang BY <2>38 DEF Hang, deviceUnchanged
  <2>39. CASE Recover BY <2>39 DEF Recover, deviceUnchanged
  <2>40. CASE UNCHANGED vars BY <2>40 DEF vars
  <2> QED
    BY <2>1, <2>2, <2>3, <2>4, <2>5, <2>6, <2>7, <2>8, <2>9, <2>10, <2>11, <2>12, <2>13, <2>14,
       <2>15, <2>16, <2>17, <2>18, <2>19, <2>20, <2>21, <2>22, <2>23, <2>24, <2>25, <2>26, <2>27,
       <2>28, <2>29, <2>30, <2>31, <2>32, <2>33, <2>34, <2>35, <2>36, <2>37, <2>38, <2>39, <2>40 DEF
       Next, ConnStep, ReaderStep, Exchange, RunStep, UserStep
<1>2. CleanupIsFinal <=> [][Final]_vars
  BY DEF CleanupIsFinal
<1> QED BY InvAlways, <1>1, <1>2, PTL DEF Spec
-----------------------------------------------------------------------------
(* The inductive invariant: the link belongs to the connection loop, a     *)
(* loop past its handshake has had an answer, and a session that was       *)
(* cleaned up has no task left.                                            *)

\* Past the handshake the device has answered on this link (await_handshake).
PastHandshake == {"build_info_lock", "build_info", "build_info_wait", "connected", "poll", "poll_wait"}
AnsweredFirst == conn_pc \in PastHandshake => handshake_received

\* No task survives cleanup(), and the link is closed (abort_background_tasks).
CleanMeansClean == user_pc = "clean" => Grbl!Dropped /\ open = FALSE

GrblInv == Grbl!TypeOK /\ Grbl!NoLeakedLink /\ AnsweredFirst /\ CleanMeansClean

\* Nothing runs and nothing is open before the first connect().
LEMMA GrblInvInit == Grbl!Init => GrblInv
<1> SUFFICES ASSUME Grbl!Init PROVE GrblInv
  OBVIOUS
<1>1. Grbl!FlagsOK
  BY Zenon DEF Grbl!Init, Grbl!FlagsOK
<1>2. Grbl!PlacesOK
  BY BoundsAssumption DEF Grbl!Init, Grbl!PlacesOK, Grbl!Statuses, Grbl!ConnPC, Grbl!UserPC
<1>3. Grbl!NoLeakedLink /\ AnsweredFirst /\ CleanMeansClean
  BY DEF Grbl!Init, Grbl!NoLeakedLink, AnsweredFirst, PastHandshake, CleanMeansClean, Grbl!Dropped
<1> QED BY <1>1, <1>2, <1>3 DEF GrblInv, Grbl!TypeOK

\* Every step keeps the flags Boolean.
LEMMA GrblFlagsStep == Grbl!FlagsOK /\ [Grbl!Next]_Grbl!vars => Grbl!FlagsOK'
<1> SUFFICES ASSUME Grbl!FlagsOK, [Grbl!Next]_Grbl!vars PROVE Grbl!FlagsOK'
  OBVIOUS
<1> USE DEF Grbl!FlagsOK, Grbl!core, Grbl!linkVars, Grbl!WriteFails, Grbl!WriteOk, Grbl!TrackAndWrite
<1>1. CASE Grbl!Connect BY <1>1, Zenon DEF Grbl!Connect
<1>2. CASE Grbl!ConnectStart BY <1>2, Zenon DEF Grbl!ConnectStart, Grbl!Dropped
<1>3. CASE Grbl!CleanupStop BY <1>3, Zenon DEF Grbl!CleanupStop
<1>4. CASE Grbl!CleanupAbort BY <1>4, Zenon DEF Grbl!CleanupAbort
<1>5. CASE Grbl!CleanupEnd BY <1>5, Zenon DEF Grbl!CleanupEnd, Grbl!Dropped, Grbl!Unanswered
<1>6. CASE Grbl!ConnDrop BY <1>6, Zenon DEF Grbl!ConnDrop
<1>7. CASE Grbl!CommandDrop BY <1>7, Zenon DEF Grbl!CommandDrop
<1>8. CASE Grbl!LoopTop BY <1>8, Zenon DEF Grbl!LoopTop
<1>9. CASE Grbl!HandshakeFails BY <1>9, Zenon DEF Grbl!HandshakeFails
<1>10. CASE Grbl!HandshakeTimeout BY <1>10, Zenon DEF Grbl!HandshakeTimeout
<1>11. CASE Grbl!HandshakeDone BY <1>11, Zenon DEF Grbl!HandshakeDone
<1>12. CASE Grbl!BuildInfoLock BY <1>12, Zenon DEF Grbl!BuildInfoLock
<1>13. CASE Grbl!BuildInfoSend BY <1>13, Zenon DEF Grbl!BuildInfoSend
<1>14. CASE Grbl!BuildInfoDone BY <1>14, Zenon DEF Grbl!BuildInfoDone
<1>15. CASE Grbl!Connected BY <1>15, Zenon DEF Grbl!Connected
<1>16. CASE Grbl!Poll BY <1>16, Zenon DEF Grbl!Poll
<1>17. CASE Grbl!PollRound BY <1>17, Zenon DEF Grbl!PollRound
<1>18. CASE Grbl!LoopClose BY <1>18, Zenon DEF Grbl!LoopClose, Grbl!Unanswered
<1>19. CASE Grbl!LoopSleep BY <1>19, Zenon DEF Grbl!LoopSleep
<1>20. CASE Grbl!Run BY <1>20, Zenon DEF Grbl!Run
<1>21. CASE Grbl!JobSend BY <1>21, Zenon DEF Grbl!JobSend
<1>22. CASE Grbl!JobEnd BY <1>22, Zenon DEF Grbl!JobEnd
<1>23. CASE Grbl!CommandCall BY <1>23, Zenon DEF Grbl!CommandCall
<1>24. CASE Grbl!CommandSend BY <1>24, Zenon DEF Grbl!CommandSend
<1>25. CASE Grbl!CommandError BY <1>25, Zenon DEF Grbl!CommandError
<1>26. CASE Grbl!Answer BY <1>26, Zenon DEF Grbl!Answer
<1>27. CASE Grbl!Ack BY <1>27, Zenon DEF Grbl!Ack
<1>28. CASE Grbl!Unplug BY <1>28, Zenon DEF Grbl!Unplug, Grbl!Unanswered
<1>29. CASE Grbl!Hang BY <1>29, Zenon DEF Grbl!Hang
<1>30. CASE Grbl!Recover BY <1>30, Zenon DEF Grbl!Recover
<1>31. CASE UNCHANGED Grbl!vars BY <1>31, Zenon DEF Grbl!vars
<1> QED
  BY <1>1, <1>2, <1>3, <1>4, <1>5, <1>6, <1>7, <1>8, <1>9, <1>10, <1>11, <1>12, <1>13, <1>14, <1>15, <1>16,
     <1>17, <1>18, <1>19, <1>20, <1>21, <1>22, <1>23, <1>24, <1>25, <1>26, <1>27, <1>28, <1>29, <1>30,
     <1>31 DEF Grbl!Next, Grbl!ConnStep, Grbl!UserStep

\* Every step of the tasks, the user and the device keeps every other variable in its type.
LEMMA GrblPlacesStep == Grbl!PlacesOK /\ [Grbl!Next]_Grbl!vars => Grbl!PlacesOK'
<1> SUFFICES ASSUME Grbl!PlacesOK, [Grbl!Next]_Grbl!vars PROVE Grbl!PlacesOK'
  OBVIOUS
<1> USE BoundsAssumption DEF Grbl!PlacesOK, Grbl!ConnPC, Grbl!UserPC, Grbl!Statuses, Grbl!bounds, Grbl!ConnGoto,
        Grbl!update_connection_status, Grbl!Calls, Grbl!TrackAndWrite, Grbl!Fault
<1>1. CASE Grbl!Connect BY <1>1 DEF Grbl!Connect
<1>2. CASE Grbl!ConnectStart BY <1>2 DEF Grbl!ConnectStart, Grbl!Dropped
<1>3. CASE Grbl!CleanupStop BY <1>3 DEF Grbl!CleanupStop
<1>4. CASE Grbl!CleanupAbort BY <1>4 DEF Grbl!CleanupAbort
<1>5. CASE Grbl!CleanupEnd BY <1>5 DEF Grbl!CleanupEnd, Grbl!Dropped, Grbl!Unanswered
<1>6. CASE Grbl!ConnDrop BY <1>6 DEF Grbl!ConnDrop
<1>7. CASE Grbl!CommandDrop BY <1>7 DEF Grbl!CommandDrop
<1>8. CASE Grbl!LoopTop BY <1>8 DEF Grbl!LoopTop
<1>9. CASE Grbl!HandshakeFails BY <1>9 DEF Grbl!HandshakeFails
<1>10. CASE Grbl!HandshakeTimeout BY <1>10 DEF Grbl!HandshakeTimeout
<1>11. CASE Grbl!HandshakeDone BY <1>11 DEF Grbl!HandshakeDone
<1>12. CASE Grbl!BuildInfoLock BY <1>12 DEF Grbl!BuildInfoLock
<1>13. CASE Grbl!BuildInfoSend BY <1>13 DEF Grbl!BuildInfoSend
<1>14. CASE Grbl!BuildInfoDone BY <1>14 DEF Grbl!BuildInfoDone
<1>15. CASE Grbl!Connected BY <1>15 DEF Grbl!Connected
<1>16. CASE Grbl!Poll BY <1>16 DEF Grbl!Poll
<1>17. CASE Grbl!PollRound BY <1>17 DEF Grbl!PollRound
<1>18. CASE Grbl!LoopClose BY <1>18 DEF Grbl!LoopClose, Grbl!Unanswered
<1>19. CASE Grbl!LoopSleep BY <1>19 DEF Grbl!LoopSleep
<1>20. CASE Grbl!Run BY <1>20 DEF Grbl!Run
<1>21. CASE Grbl!JobSend BY <1>21 DEF Grbl!JobSend
<1>22. CASE Grbl!JobEnd BY <1>22 DEF Grbl!JobEnd
<1>23. CASE Grbl!CommandCall BY <1>23 DEF Grbl!CommandCall
<1>24. CASE Grbl!CommandSend BY <1>24 DEF Grbl!CommandSend
<1>25. CASE Grbl!CommandError BY <1>25 DEF Grbl!CommandError
<1>26. CASE Grbl!Answer BY <1>26 DEF Grbl!Answer
<1>27. CASE Grbl!Ack BY <1>27 DEF Grbl!Ack
<1>28. CASE Grbl!Unplug BY <1>28 DEF Grbl!Unplug, Grbl!Unanswered
<1>29. CASE Grbl!Hang BY <1>29 DEF Grbl!Hang
<1>30. CASE Grbl!Recover BY <1>30 DEF Grbl!Recover
<1>31. CASE UNCHANGED Grbl!vars BY <1>31 DEF Grbl!vars
<1> QED
  BY <1>1, <1>2, <1>3, <1>4, <1>5, <1>6, <1>7, <1>8, <1>9, <1>10, <1>11, <1>12, <1>13, <1>14, <1>15, <1>16,
     <1>17, <1>18, <1>19, <1>20, <1>21, <1>22, <1>23, <1>24, <1>25, <1>26, <1>27, <1>28, <1>29, <1>30,
     <1>31 DEF Grbl!Next, Grbl!ConnStep, Grbl!UserStep

\* The three parts about the link survive every step.
LEMMA GrblLinkStep == GrblInv /\ [Grbl!Next]_Grbl!vars => Grbl!NoLeakedLink' /\ AnsweredFirst' /\ CleanMeansClean'
<1> SUFFICES ASSUME GrblInv, [Grbl!Next]_Grbl!vars PROVE Grbl!NoLeakedLink' /\ AnsweredFirst' /\ CleanMeansClean'
  OBVIOUS
<1> USE DEF GrblInv, Grbl!NoLeakedLink, AnsweredFirst, PastHandshake, CleanMeansClean, Grbl!Dropped, Grbl!core, Grbl!linkVars,
        Grbl!bounds,
            Grbl!ConnGoto, Grbl!update_connection_status, Grbl!Calls, Grbl!WriteOk, Grbl!WriteFails, Grbl!TrackAndWrite, Grbl!LockFree, Grbl!Fault
<1>1. CASE Grbl!Connect BY <1>1 DEF Grbl!Connect
<1>2. CASE Grbl!ConnectStart BY <1>2 DEF Grbl!ConnectStart, Grbl!Dropped
<1>3. CASE Grbl!CleanupStop BY <1>3 DEF Grbl!CleanupStop
<1>4. CASE Grbl!CleanupAbort BY <1>4 DEF Grbl!CleanupAbort
<1>5. CASE Grbl!CleanupEnd BY <1>5 DEF Grbl!CleanupEnd, Grbl!Dropped, Grbl!Unanswered
<1>6. CASE Grbl!ConnDrop BY <1>6 DEF Grbl!ConnDrop
<1>7. CASE Grbl!CommandDrop BY <1>7 DEF Grbl!CommandDrop
<1>8. CASE Grbl!LoopTop BY <1>8 DEF Grbl!LoopTop
<1>9. CASE Grbl!HandshakeFails BY <1>9 DEF Grbl!HandshakeFails
<1>10. CASE Grbl!HandshakeTimeout BY <1>10 DEF Grbl!HandshakeTimeout
<1>11. CASE Grbl!HandshakeDone BY <1>11 DEF Grbl!HandshakeDone
<1>12. CASE Grbl!BuildInfoLock BY <1>12 DEF Grbl!BuildInfoLock
<1>13. CASE Grbl!BuildInfoSend BY <1>13 DEF Grbl!BuildInfoSend
<1>14. CASE Grbl!BuildInfoDone BY <1>14 DEF Grbl!BuildInfoDone
<1>15. CASE Grbl!Connected BY <1>15 DEF Grbl!Connected
<1>16. CASE Grbl!Poll BY <1>16 DEF Grbl!Poll
<1>17. CASE Grbl!PollRound BY <1>17 DEF Grbl!PollRound
<1>18. CASE Grbl!LoopClose BY <1>18 DEF Grbl!LoopClose, Grbl!Unanswered
<1>19. CASE Grbl!LoopSleep BY <1>19 DEF Grbl!LoopSleep
<1>20. CASE Grbl!Run BY <1>20 DEF Grbl!Run
<1>21. CASE Grbl!JobSend BY <1>21 DEF Grbl!JobSend
<1>22. CASE Grbl!JobEnd BY <1>22 DEF Grbl!JobEnd
<1>23. CASE Grbl!CommandCall BY <1>23 DEF Grbl!CommandCall
<1>24. CASE Grbl!CommandSend BY <1>24 DEF Grbl!CommandSend
<1>25. CASE Grbl!CommandError BY <1>25 DEF Grbl!CommandError
<1>26. CASE Grbl!Answer BY <1>26 DEF Grbl!Answer
<1>27. CASE Grbl!Ack BY <1>27 DEF Grbl!Ack
<1>28. CASE Grbl!Unplug BY <1>28 DEF Grbl!Unplug, Grbl!Unanswered
<1>29. CASE Grbl!Hang BY <1>29 DEF Grbl!Hang
<1>30. CASE Grbl!Recover BY <1>30 DEF Grbl!Recover
<1>31. CASE UNCHANGED Grbl!vars BY <1>31 DEF Grbl!vars
<1> QED
  BY <1>1, <1>2, <1>3, <1>4, <1>5, <1>6, <1>7, <1>8, <1>9, <1>10, <1>11, <1>12, <1>13, <1>14, <1>15, <1>16,
     <1>17, <1>18, <1>19, <1>20, <1>21, <1>22, <1>23, <1>24, <1>25, <1>26, <1>27, <1>28, <1>29, <1>30,
     <1>31 DEF Grbl!Next, Grbl!ConnStep, Grbl!UserStep

\* The invariant holds in every reachable state.
LEMMA GrblInvAlways == Grbl!Spec => []GrblInv
<1>1. GrblInv /\ [Grbl!Next]_Grbl!vars => GrblInv'
  BY GrblFlagsStep, GrblPlacesStep, GrblLinkStep DEF GrblInv, Grbl!TypeOK
<1> QED BY GrblInvInit, <1>1, PTL DEF Grbl!Spec

-----------------------------------------------------------------------------
(* What follows.                                                           *)

\* Every flag, position, status and counter keeps its type.
THEOREM GrblTypeCorrect == Grbl!Spec => []Grbl!TypeOK
BY GrblInvAlways, PTL DEF GrblInv

\* The transport is open only while the connection loop looks after it or the user's task is
\* about to close it, for every number of faults and calls (connection_loop, cleanup).
THEOREM GrblNoLeak == Grbl!Spec => []Grbl!NoLeakedLink
BY GrblInvAlways, PTL DEF GrblInv

\* After cleanup() returned, nothing opens the transport or changes the connection status: the
\* connection loop and the command loop are gone, and a job that outlives them finds the link closed.
THEOREM GrblCleanupFinal == Grbl!Spec => Grbl!CleanupIsFinal
<1>1. GrblInv /\ [Grbl!Next]_Grbl!vars => (user_pc = "clean" /\ user_pc' = "clean" => UNCHANGED <<last_connection_status, open>>)
  <2> SUFFICES ASSUME GrblInv, [Grbl!Next]_Grbl!vars, user_pc = "clean", user_pc' = "clean"
               PROVE  UNCHANGED <<last_connection_status, open>>
    OBVIOUS
  <2> USE DEF GrblInv, CleanMeansClean, Grbl!Dropped, Grbl!core, Grbl!linkVars, Grbl!bounds, Grbl!ConnGoto, Grbl!WriteOk, Grbl!WriteFails,
          Grbl!TrackAndWrite, Grbl!LockFree
  <2>1. CASE Grbl!Connect BY <2>1 DEF Grbl!Connect
  <2>2. CASE Grbl!ConnectStart BY <2>2 DEF Grbl!ConnectStart, Grbl!Dropped
  <2>3. CASE Grbl!CleanupStop BY <2>3 DEF Grbl!CleanupStop
  <2>4. CASE Grbl!CleanupAbort BY <2>4 DEF Grbl!CleanupAbort
  <2>5. CASE Grbl!CleanupEnd BY <2>5 DEF Grbl!CleanupEnd, Grbl!Dropped, Grbl!Unanswered
  <2>6. CASE Grbl!ConnDrop BY <2>6 DEF Grbl!ConnDrop
  <2>7. CASE Grbl!CommandDrop BY <2>7 DEF Grbl!CommandDrop
  <2>8. CASE Grbl!LoopTop BY <2>8 DEF Grbl!LoopTop
  <2>9. CASE Grbl!HandshakeFails BY <2>9 DEF Grbl!HandshakeFails
  <2>10. CASE Grbl!HandshakeTimeout BY <2>10 DEF Grbl!HandshakeTimeout
  <2>11. CASE Grbl!HandshakeDone BY <2>11 DEF Grbl!HandshakeDone
  <2>12. CASE Grbl!BuildInfoLock BY <2>12 DEF Grbl!BuildInfoLock
  <2>13. CASE Grbl!BuildInfoSend BY <2>13 DEF Grbl!BuildInfoSend
  <2>14. CASE Grbl!BuildInfoDone BY <2>14 DEF Grbl!BuildInfoDone
  <2>15. CASE Grbl!Connected BY <2>15 DEF Grbl!Connected
  <2>16. CASE Grbl!Poll BY <2>16 DEF Grbl!Poll
  <2>17. CASE Grbl!PollRound BY <2>17 DEF Grbl!PollRound
  <2>18. CASE Grbl!LoopClose BY <2>18 DEF Grbl!LoopClose, Grbl!Unanswered
  <2>19. CASE Grbl!LoopSleep BY <2>19 DEF Grbl!LoopSleep
  <2>20. CASE Grbl!Run BY <2>20 DEF Grbl!Run
  <2>21. CASE Grbl!JobSend BY <2>21 DEF Grbl!JobSend
  <2>22. CASE Grbl!JobEnd BY <2>22 DEF Grbl!JobEnd
  <2>23. CASE Grbl!CommandCall BY <2>23 DEF Grbl!CommandCall
  <2>24. CASE Grbl!CommandSend BY <2>24 DEF Grbl!CommandSend
  <2>25. CASE Grbl!CommandError BY <2>25 DEF Grbl!CommandError
  <2>26. CASE Grbl!Answer BY <2>26 DEF Grbl!Answer
  <2>27. CASE Grbl!Ack BY <2>27 DEF Grbl!Ack
  <2>28. CASE Grbl!Unplug BY <2>28 DEF Grbl!Unplug, Grbl!Unanswered
  <2>29. CASE Grbl!Hang BY <2>29 DEF Grbl!Hang
  <2>30. CASE Grbl!Recover BY <2>30 DEF Grbl!Recover
  <2>31. CASE UNCHANGED Grbl!vars BY <2>31 DEF Grbl!vars
  <2> QED
    BY <2>1, <2>2, <2>3, <2>4, <2>5, <2>6, <2>7, <2>8, <2>9, <2>10, <2>11, <2>12, <2>13, <2>14, <2>15,
         <2>16,
       <2>17, <2>18, <2>19, <2>20, <2>21, <2>22, <2>23, <2>24, <2>25, <2>26, <2>27, <2>28, <2>29, <2>30,
       <2>31 DEF Grbl!Next, Grbl!ConnStep, Grbl!UserStep
<1>2. Grbl!CleanupIsFinal <=> [][user_pc = "clean" /\ user_pc' = "clean" => UNCHANGED <<last_connection_status, open>>]_Grbl!vars
  BY DEF Grbl!CleanupIsFinal
<1> QED BY GrblInvAlways, <1>1, <1>2, PTL DEF Grbl!Spec

\* The status becomes Connected only on a link on which the device has answered (await_handshake,
\* status_poll_loop).
THEOREM GrblConnectedAnswered == Grbl!Spec => Grbl!ConnectedMeansAnswered
<1>1. GrblInv /\ [Grbl!Next]_Grbl!vars => (last_connection_status' = "Connected" /\ last_connection_status # "Connected" => handshake_received)
  <2> SUFFICES ASSUME GrblInv, [Grbl!Next]_Grbl!vars, last_connection_status' = "Connected", last_connection_status # "Connected"
               PROVE  handshake_received
    OBVIOUS
  <2> USE DEF GrblInv, AnsweredFirst, PastHandshake, Grbl!ConnGoto, Grbl!update_connection_status
  <2>1. CASE Grbl!Connect BY <2>1 DEF Grbl!Connect
  <2>2. CASE Grbl!ConnectStart BY <2>2 DEF Grbl!ConnectStart, Grbl!Dropped
  <2>3. CASE Grbl!CleanupStop BY <2>3 DEF Grbl!CleanupStop
  <2>4. CASE Grbl!CleanupAbort BY <2>4 DEF Grbl!CleanupAbort
  <2>5. CASE Grbl!CleanupEnd BY <2>5 DEF Grbl!CleanupEnd, Grbl!Dropped, Grbl!Unanswered
  <2>6. CASE Grbl!ConnDrop BY <2>6 DEF Grbl!ConnDrop
  <2>7. CASE Grbl!CommandDrop BY <2>7 DEF Grbl!CommandDrop
  <2>8. CASE Grbl!LoopTop BY <2>8 DEF Grbl!LoopTop
  <2>9. CASE Grbl!HandshakeFails BY <2>9 DEF Grbl!HandshakeFails
  <2>10. CASE Grbl!HandshakeTimeout BY <2>10 DEF Grbl!HandshakeTimeout
  <2>11. CASE Grbl!HandshakeDone BY <2>11 DEF Grbl!HandshakeDone
  <2>12. CASE Grbl!BuildInfoLock BY <2>12 DEF Grbl!BuildInfoLock
  <2>13. CASE Grbl!BuildInfoSend BY <2>13 DEF Grbl!BuildInfoSend
  <2>14. CASE Grbl!BuildInfoDone BY <2>14 DEF Grbl!BuildInfoDone
  <2>15. CASE Grbl!Connected BY <2>15 DEF Grbl!Connected
  <2>16. CASE Grbl!Poll BY <2>16 DEF Grbl!Poll
  <2>17. CASE Grbl!PollRound BY <2>17 DEF Grbl!PollRound
  <2>18. CASE Grbl!LoopClose BY <2>18 DEF Grbl!LoopClose, Grbl!Unanswered
  <2>19. CASE Grbl!LoopSleep BY <2>19 DEF Grbl!LoopSleep
  <2>20. CASE Grbl!Run BY <2>20 DEF Grbl!Run
  <2>21. CASE Grbl!JobSend BY <2>21 DEF Grbl!JobSend
  <2>22. CASE Grbl!JobEnd BY <2>22 DEF Grbl!JobEnd
  <2>23. CASE Grbl!CommandCall BY <2>23 DEF Grbl!CommandCall
  <2>24. CASE Grbl!CommandSend BY <2>24 DEF Grbl!CommandSend
  <2>25. CASE Grbl!CommandError BY <2>25 DEF Grbl!CommandError
  <2>26. CASE Grbl!Answer BY <2>26 DEF Grbl!Answer
  <2>27. CASE Grbl!Ack BY <2>27 DEF Grbl!Ack
  <2>28. CASE Grbl!Unplug BY <2>28 DEF Grbl!Unplug, Grbl!Unanswered
  <2>29. CASE Grbl!Hang BY <2>29 DEF Grbl!Hang
  <2>30. CASE Grbl!Recover BY <2>30 DEF Grbl!Recover
  <2>31. CASE UNCHANGED Grbl!vars BY <2>31 DEF Grbl!vars
  <2> QED
    BY <2>1, <2>2, <2>3, <2>4, <2>5, <2>6, <2>7, <2>8, <2>9, <2>10, <2>11, <2>12, <2>13, <2>14, <2>15,
         <2>16,
       <2>17, <2>18, <2>19, <2>20, <2>21, <2>22, <2>23, <2>24, <2>25, <2>26, <2>27, <2>28, <2>29, <2>30,
       <2>31 DEF Grbl!Next, Grbl!ConnStep, Grbl!UserStep
<1>2. Grbl!ConnectedMeansAnswered <=>
        [][last_connection_status' = "Connected" /\ last_connection_status # "Connected" => handshake_received]_Grbl!vars
  BY DEF Grbl!ConnectedMeansAnswered
<1> QED BY GrblInvAlways, <1>1, <1>2, PTL DEF Grbl!Spec
=============================================================================
