------------------------ MODULE MarlinExchangeProofs ------------------------
(***************************************************************************)
(* Theorems about MarlinExchange for every set of callers and jobs, every  *)
(* dialect and every bound.                                                *)
(***************************************************************************)
EXTENDS MarlinExchange, TLAPS

-----------------------------------------------------------------------------
(* The inductive invariants.                                               *)

\* Until the first handshake nothing gets past the gate.
HeldBack ==
    connected = FALSE =>
        /\ pending_queue = <<>> /\ pc[Poller] \in {"down", "handshake"}
        /\ \A t \in Tasks : pc[t] \notin {"lock", "write", "wait", "fail"}

QueueInv == TypeOK /\ QueueOwned /\ HeldBack

\* As long as answers cannot be out of step:
\* only a command whose task still waits is finished;
FinishedWaits == \A t \in Tasks : finished_by[t] # None => pc[t] = "wait"

\* and once the device has announced itself, while the link is up, what is finished is the front of the queue,
FinishedFirst == \A t \in Tasks : finished_by[t] # None => pending_queue # <<>> /\ pending_queue[1] = Command(t)

\* the task between its push and its write is the last,
WriterLast ==
    \A t \in Tasks : pc[t] = "write" => pending_queue # <<>> /\ pending_queue[Len(pending_queue)] = Command(t)

\* and the device has still to answer what is in the queue, in that order, but for the front once
\* it is finished and for the last while it is not written.
Finished == IF \E t \in Tasks : finished_by[t] # None THEN 1 ELSE 0
Unwritten == IF \E t \in Tasks : pc[t] = "write" THEN 1 ELSE 0
WireIsQueue ==
    /\ Len(wire) = Len(pending_queue) - Finished - Unwritten
    /\ \A k \in 1 .. Len(wire) : wire[k] = pending_queue[k + Finished]

Up == FinishedFirst /\ WriterLast /\ WireIsQueue /\ \A t \in Tasks : pc[t] # "fail"
Ordered ==
    /\ stops = 0 /\ FinishedWaits /\ OwnAnswer
    /\ open = FALSE => wire = <<>>
    /\ connected /\ open => Up
InStep == disorder = "none" => Ordered

\* Of a job that is not un-cancelled: while it streams and does not count as running it is
\* cancelled, and once it has written its late line it never begins another.
LateOnce ==
    \A j \in Jobs :
        /\ job_running = FALSE /\ Streaming(j) => is_cancelled
        /\ pc[j] = "idle" => late[j] = 0
        /\ late[j] > 0 => late[j] = 1 /\ job_running = FALSE /\ pc[j] \notin {"gate", "lock", "write"}
Late == disorder # "uncancelled" => LateOnce

Inv == QueueInv /\ InStep

-----------------------------------------------------------------------------
(* Queues.                                                                 *)

\* What appending to a queue does: one longer, the old elements in place.
LEMMA AppendLast ==
  ASSUME NEW S, NEW s \in Seq(S), NEW e \in S
  PROVE  /\ Append(s, e) \in Seq(S) /\ Len(Append(s, e)) = Len(s) + 1
         /\ Append(s, e) # <<>> /\ Append(s, e)[Len(s) + 1] = e
         /\ \A k \in 1 .. Len(s) : Append(s, e)[k] = s[k]
OBVIOUS

\* What taking the front does: the others move up by one.
LEMMA TailMoves ==
  ASSUME NEW S, NEW s \in Seq(S), s # <<>>
  PROVE  /\ Head(s) = s[1] /\ Head(s) \in S /\ Tail(s) \in Seq(S)
         /\ Len(s) \in Nat \ {0} /\ Len(Tail(s)) = Len(s) - 1
         /\ \A k \in 1 .. Len(s) - 1 : Tail(s)[k] = s[k + 1]
OBVIOUS

\* What retain does to a queue without the entry: nothing.
LEMMA WithoutNothing ==
  ASSUME NEW S, NEW s \in Seq(S), NEW e, \A i \in 1 .. Len(s) : s[i] # e
  PROVE  Without(s, e) = s
BY DEF Without, Contains

\* What retain does to a queue that has the entry once: the entries behind it move up by one.
LEMMA WithoutMoves ==
  ASSUME NEW S, NEW s \in Seq(S), NEW m \in 1 .. Len(s), \A i \in 1 .. Len(s) : s[i] = s[m] => i = m
  PROVE  /\ Without(s, s[m]) \in Seq(S) /\ Len(Without(s, s[m])) = Len(s) - 1
         /\ \A i \in 1 .. Len(s) - 1 : Without(s, s[m])[i] = IF i < m THEN s[i] ELSE s[i + 1]
<1>1. Contains(s, s[m])
  BY DEF Contains
<1>2. Without(s, s[m]) = RemoveAt(s, m)
  BY <1>1 DEF Without
<1>3. /\ SubSeq(s, 1, m - 1) \in Seq(S) /\ Len(SubSeq(s, 1, m - 1)) = m - 1
      /\ SubSeq(s, m + 1, Len(s)) \in Seq(S) /\ Len(SubSeq(s, m + 1, Len(s))) = Len(s) - m
      /\ \A i \in 1 .. m - 1 : SubSeq(s, 1, m - 1)[i] = s[i]
      /\ \A i \in 1 .. Len(s) - m : SubSeq(s, m + 1, Len(s))[i] = s[m + i]
  OBVIOUS
<1>4. /\ RemoveAt(s, m) \in Seq(S) /\ Len(RemoveAt(s, m)) = Len(s) - 1
      /\ \A i \in 1 .. Len(s) - 1 : RemoveAt(s, m)[i] = IF i < m THEN s[i] ELSE s[i + 1]
  <2> DEFINE front == SubSeq(s, 1, m - 1)
             back == SubSeq(s, m + 1, Len(s))
  <2>1. RemoveAt(s, m) = front \o back
    BY DEF RemoveAt
  <2> HIDE DEF front, back
  <2>2. front \in Seq(S) /\ back \in Seq(S) /\ Len(front) = m - 1 /\ Len(back) = Len(s) - m
    BY <1>3 DEF front, back
  <2>3. /\ front \o back \in Seq(S) /\ Len(front \o back) = Len(s) - 1
        /\ \A i \in 1 .. Len(s) - 1 : (front \o back)[i] = IF i < m THEN front[i] ELSE back[i - (m - 1)]
    BY <2>2
  <2>4. \A i \in 1 .. Len(s) - 1 : (IF i < m THEN front[i] ELSE back[i - (m - 1)]) = IF i < m THEN s[i] ELSE s[i + 1]
    BY <1>3 DEF front, back
  <2> QED BY <2>1, <2>3, <2>4
<1> QED BY <1>2, <1>4

-----------------------------------------------------------------------------
(* Types.                                                                  *)

\* Before the first connection nothing is queued, held or sent.
LEMMA InvInit == Init => Inv /\ LateOnce
<1> SUFFICES ASSUME Init PROVE Inv /\ LateOnce
  OBVIOUS
<1> USE NamesAssumption
<1>1. FlagsOK
  BY Zenon DEF Init, FlagsOK
<1>2. PlacesOK
  BY DEF Init, PlacesOK, Labels, Tokens
<1>3. QueueOwned /\ HeldBack
  BY DEF Init, QueueOwned, HeldBack, Tasks
<1>4. InStep
  BY DEF Init, InStep, Ordered, FinishedWaits, OwnAnswer
<1>5. LateOnce
  BY DEF Init, LateOnce, Streaming, Tasks
<1> QED BY <1>1, <1>2, <1>3, <1>4, <1>5 DEF Inv, QueueInv, TypeOK

\* Every step keeps the flags Boolean.
LEMMA FlagsStep == FlagsOK /\ [Next]_vars => FlagsOK'
<1> SUFFICES ASSUME FlagsOK, [Next]_vars PROVE FlagsOK'
  OBVIOUS
<1> USE DEF FlagsOK, linkVars, jobVars, exchangeVars, Push, Line, JobGoto
<1>1. ASSUME NEW t \in Tasks, Begin(t) PROVE FlagsOK' BY <1>1, Zenon DEF Begin
<1>2. ASSUME NEW t \in Tasks, Gate(t) PROVE FlagsOK' BY <1>2, Zenon DEF Gate
<1>3. ASSUME NEW t \in Tasks, Lock(t) PROVE FlagsOK' BY <1>3, Zenon DEF Lock
<1>4. ASSUME NEW t \in Tasks, LockFails(t) PROVE FlagsOK' BY <1>4, Zenon DEF LockFails
<1>5. ASSUME NEW t \in Tasks, Write(t) PROVE FlagsOK' BY <1>5, Zenon DEF Write
<1>6. ASSUME NEW t \in Tasks, Leave(t) PROVE FlagsOK' BY <1>6, Zenon DEF Leave
<1>7. ASSUME NEW t \in Tasks, Timeout(t) PROVE FlagsOK' BY <1>7, Zenon DEF Timeout
<1>8. ASSUME NEW j \in Jobs, start_job(j) PROVE FlagsOK' BY <1>8, Zenon DEF start_job
<1>9. ASSUME NEW j \in Jobs, RunHead(j) PROVE FlagsOK' BY <1>9, Zenon DEF RunHead
<1>10. ASSUME NEW j \in Jobs, RunEnd(j) PROVE FlagsOK' BY <1>10, Zenon DEF RunEnd
<1>11. ASSUME NEW j \in Jobs, RunShutdown(j) PROVE FlagsOK' BY <1>11, Zenon DEF RunShutdown
<1>12. CASE Poll BY <1>12, Zenon DEF Poll
<1>13. CASE handle_line BY <1>13, Zenon DEF handle_line
<1>14. CASE handle_error_line BY <1>14, Zenon DEF handle_error_line, Finishing
<1>15. CASE Raise BY <1>15, Zenon DEF Raise
<1>16. CASE cancel BY <1>16, Zenon DEF cancel
<1>17. CASE CancelWrite BY <1>17, Zenon DEF CancelWrite
<1>18. CASE Open BY <1>18, Zenon DEF Open
<1>19. CASE Settle BY <1>19, Zenon DEF Settle
<1>20. CASE Close BY <1>20, Zenon DEF Close
<1>21. CASE LinkLost BY <1>21, Zenon DEF LinkLost
<1>22. CASE UNCHANGED vars BY <1>22 DEF vars
<1>23. CASE handle_ok BY <1>23, Zenon DEF handle_ok, Finishing
<1>24. CASE Unsolicited BY <1>24, Zenon DEF Unsolicited
<1> QED
  BY <1>1, <1>2, <1>3, <1>4, <1>5, <1>6, <1>7, <1>8, <1>9, <1>10, <1>11, <1>12, <1>13, <1>14, <1>15, <1>16,
     <1>17, <1>18, <1>19, <1>20, <1>21, <1>22, <1>23, <1>24 DEF Next, Step, Run

\* The tool-off commands are answers that nothing awaits.
LEMMA StraysTyped ==
  ASSUME NEW s \in Seq(Answers)
  PROVE  /\ s \o [n \in 1..ToolOff |-> Stray] \in Seq(Answers)
         /\ Append(s, Stray) \o [n \in 1..ToolOff |-> Stray] \in Seq(Answers)
<1>1. [n \in 1..ToolOff |-> Stray] \in Seq(Answers)
  BY BoundsAssumption DEF Answers
<1>2. Append(s, Stray) \in Seq(Answers)
  BY DEF Answers
<1> QED BY <1>1, <1>2

\* What is left of the queue is still a queue of commands.
LEMMA RetainTyped == ASSUME NEW s \in Seq(Commands), NEW e PROVE Without(s, e) \in Seq(Commands)
<1>1. CASE Contains(s, e)
  <2>1. PICK k \in 1 .. Len(s) : Without(s, e) = RemoveAt(s, k)
    BY <1>1 DEF Without, Contains
  <2>2. SubSeq(s, 1, k - 1) \in Seq(Commands) /\ SubSeq(s, k + 1, Len(s)) \in Seq(Commands)
    OBVIOUS
  <2> QED BY <2>1, <2>2 DEF RemoveAt
<1>2. CASE ~Contains(s, e)
  BY <1>2 DEF Without
<1> QED BY <1>1, <1>2

\* Every step keeps every other variable in its type.
LEMMA PlacesStep == QueueInv /\ [Next]_vars => PlacesOK'
<1> SUFFICES ASSUME QueueInv, [Next]_vars PROVE PlacesOK'
  OBVIOUS
<1> USE DEF QueueInv, TypeOK, Labels, linkVars, jobVars, exchangeVars, Goto, JobGoto, OutOfStep,
        Release, AfterFailure, AfterAnswer
<1>a. pending_queue \in Seq(Commands) /\ wire \in Seq(Answers) /\ <<>> \in Seq(Commands) /\ <<>> \in Seq(Answers)
  BY DEF PlacesOK
<1>b. finished_by \in [Tasks -> Commands \cup Tokens] /\ sent \in [Tasks -> Nat] /\ late \in [Jobs -> Nat]
  BY DEF PlacesOK
<1>c. /\ Poller \in Tasks /\ Jobs \subseteq Tasks /\ Tokens \subseteq Commands \cup Tokens /\ None \in Tokens
      /\ Cancelled \in Tokens /\ Answers \subseteq Commands \cup Tokens /\ {Stray, Start, Banner, Unasked} \subseteq Answers
  BY DEF Tasks, Tokens, Answers
<1>1. ASSUME NEW t \in Tasks, Begin(t) PROVE PlacesOK'
  BY <1>1, <1>c DEF Begin, PlacesOK
<1>2. ASSUME NEW t \in Tasks, Gate(t) PROVE PlacesOK' BY <1>2 DEF Gate, PlacesOK
<1>3. ASSUME NEW t \in Tasks, Lock(t) PROVE PlacesOK'
  <2>1. sent' = [sent EXCEPT ![t] = sent[t] + 1] /\ sent' \in [Tasks -> Nat]
    BY <1>3, <1>b DEF Lock, Push
  <2>2. Command(t)' \in Commands
    BY <2>1 DEF Command, Commands
  <2>3. pending_queue' \in Seq(Commands)
    BY <1>3, <1>a, <2>2, AppendLast DEF Lock, Push
  <2> QED BY <1>3, <2>1, <2>3 DEF Lock, Push, PlacesOK
<1>4. ASSUME NEW t \in Tasks, LockFails(t) PROVE PlacesOK' BY <1>4 DEF LockFails, PlacesOK
<1>5. ASSUME NEW t \in Tasks, Write(t) PROVE PlacesOK'
  <2>1. Command(t) \in Answers
    BY <1>b DEF Command, Commands, Answers
  <2>2. wire' \in Seq(Answers)
    <3>1. Append(wire, Command(t)) \in Seq(Answers)
      BY <1>a, <2>1, AppendLast
    <3> QED BY <1>5, <1>a, <3>1 DEF Write
  <2>3. late' \in [Jobs -> Nat]
    BY <1>5, <1>b DEF Write
  <2>4. pc' \in [Tasks -> Labels]
    BY <1>5 DEF Write, PlacesOK
  <2> QED BY <1>5, <2>2, <2>3, <2>4 DEF Write, PlacesOK
<1>6. ASSUME NEW t \in Tasks, Leave(t) PROVE PlacesOK'
  <2>1. pending_queue' \in Seq(Commands)
    BY <1>6, <1>a, RetainTyped DEF Leave
  <2>2. wire' \in Seq(Answers)
    BY <1>6, <1>a, <1>c DEF Leave
  <2>3. finished_by' \in [Tasks -> Commands \cup Tokens]
    BY <1>6, <1>b, <1>c DEF Leave
  <2> QED BY <1>6, <2>1, <2>2, <2>3 DEF Leave, PlacesOK
<1>7. ASSUME NEW t \in Tasks, Timeout(t) PROVE PlacesOK' BY <1>7 DEF Timeout, PlacesOK
<1>8. ASSUME NEW j \in Jobs, start_job(j) PROVE PlacesOK'
  BY <1>8, <1>c DEF start_job, PlacesOK
<1>9. ASSUME NEW j \in Jobs, RunHead(j) PROVE PlacesOK'
  BY <1>9, <1>c DEF RunHead, PlacesOK
<1>10. ASSUME NEW j \in Jobs, RunEnd(j) PROVE PlacesOK'
  BY <1>10, <1>c DEF RunEnd, PlacesOK
<1>11. ASSUME NEW j \in Jobs, RunShutdown(j) PROVE PlacesOK'
  <2>1. wire' \in Seq(Answers)
    BY <1>11, <1>a, StraysTyped DEF RunShutdown, send_safety_shutdown
  <2> QED BY <1>11, <1>c, <2>1 DEF RunShutdown, PlacesOK
<1>12. CASE Poll
  <2>1. sent' = [sent EXCEPT ![Poller] = sent[Poller] + 1] /\ sent' \in [Tasks -> Nat]
    BY <1>12, <1>b, <1>c DEF Poll, Push
  <2>2. Command(Poller)' \in Commands
    BY <1>c, <2>1 DEF Command, Commands
  <2>3. pending_queue' \in Seq(Commands)
    BY <1>12, <1>a, <2>2, AppendLast DEF Poll, Push
  <2> QED BY <1>12, <1>c, <2>1, <2>3 DEF Poll, Push, PlacesOK
<1>13. CASE handle_line
  <2>1. Head(wire) \in Answers /\ wire' \in Seq(Answers)
    BY <1>13, <1>a, TailMoves DEF handle_line, Line
  <2>2. finished_by' \in [Tasks -> Commands \cup Tokens]
    BY <1>13, <1>b DEF handle_line
  <2> QED BY <1>13, <2>1, <2>2 DEF handle_line, Line, PlacesOK
<1>14. CASE handle_error_line
  <2>1. Head(wire) \in Answers /\ wire' \in Seq(Answers)
    BY <1>14, <1>a, TailMoves DEF handle_error_line, Finishing, Line
  <2>2. finished_by' \in [Tasks -> Commands \cup Tokens]
    BY <1>14, <1>b, <1>c, <2>1 DEF handle_error_line, Finishing, finish_pending
  <2> QED BY <1>14, <2>1, <2>2 DEF handle_error_line, Finishing, Line, PlacesOK
<1>15. CASE Raise BY <1>15 DEF Raise, PlacesOK
<1>16. CASE cancel
  <2>1. finished_by' \in [Tasks -> Commands \cup Tokens] /\ pending_queue' \in Seq(Commands)
    BY <1>16, <1>a, <1>b, <1>c DEF cancel
  <2> QED BY <1>16, <2>1 DEF cancel, PlacesOK
<1>17. CASE CancelWrite
  <2>1. wire' \in Seq(Answers)
    BY <1>17, <1>a, StraysTyped DEF CancelWrite, send_safety_shutdown
  <2>2. stops' \in Nat
    BY <1>17 DEF CancelWrite, PlacesOK
  <2> QED BY <1>17, <2>1, <2>2 DEF CancelWrite, PlacesOK
<1>18. CASE Open
  <2>1. wire' \in Seq(Answers)
    <3>1. <<Start>> \in Seq(Answers) /\ <<Banner>> \in Seq(Answers) /\ <<Start, Banner>> \in Seq(Answers)
      BY <1>c
    <3> QED BY <1>18, <3>1, Zenon DEF Open
  <2> QED BY <1>18, <1>c, <2>1 DEF Open, PlacesOK
<1>19. CASE Settle
  BY <1>19, <1>c DEF Settle, PlacesOK
<1>20. CASE Close
  BY <1>20, <1>a, <1>c DEF Close, PlacesOK
<1>21. CASE LinkLost
  BY <1>21, <1>a DEF LinkLost, PlacesOK
<1>22. CASE UNCHANGED vars BY <1>22 DEF vars, PlacesOK
<1>23. CASE handle_ok
  <2>1. Head(wire) \in Answers /\ wire' \in Seq(Answers)
    BY <1>23, <1>a, TailMoves DEF handle_ok, Finishing, Line
  <2>2. finished_by' \in [Tasks -> Commands \cup Tokens]
    BY <1>23, <1>b, <1>c, <2>1 DEF handle_ok, Finishing, finish_pending
  <2> QED BY <1>23, <2>1, <2>2 DEF handle_ok, Finishing, Line, PlacesOK
<1>24. CASE Unsolicited
  <2>1. wire' \in Seq(Answers)
    BY <1>24, <1>a, <1>c DEF Unsolicited
  <2> QED BY <1>24, <2>1 DEF Unsolicited, PlacesOK
<1> QED
  BY <1>1, <1>2, <1>3, <1>4, <1>5, <1>6, <1>7, <1>8, <1>9, <1>10, <1>11, <1>12, <1>13, <1>14, <1>15, <1>16,
     <1>17, <1>18, <1>19, <1>20, <1>21, <1>22, <1>23, <1>24 DEF Next, Step, Run

-----------------------------------------------------------------------------
(* The queue.                                                              *)

\* A step that leaves the queue and the counters alone, and no task that is in flight, keeps it owned.
LEMMA Kept ==
  QueueOwned /\ UNCHANGED <<pending_queue, sent>> /\ (\A t \in Tasks : InFlight(t) => InFlight(t)') => QueueOwned'
BY DEF QueueOwned, Command

\* A push by a task that is not in flight puts a new entry behind the others.
LEMMA Pushed ==
  ASSUME QueueInv, NEW t \in Tasks, ~InFlight(t), Push(t)
  PROVE  /\ QueueOwned' /\ sent' = [sent EXCEPT ![t] = sent[t] + 1] /\ pc' = [pc EXCEPT ![t] = "write"]
         /\ Len(pending_queue') = Len(pending_queue) + 1 /\ pending_queue'[Len(pending_queue) + 1] = Command(t)'
         /\ \A k \in 1 .. Len(pending_queue) : pending_queue'[k] = pending_queue[k]
         /\ \A k \in 1 .. Len(pending_queue) : \E u \in Tasks \ {t} :
               InFlight(u) /\ pending_queue[k] = Command(u) /\ Command(u)' = Command(u)
         /\ \A u \in Tasks \ {t} : Command(u)' = Command(u) /\ InFlight(u)' = InFlight(u)
<1> USE DEF QueueInv, TypeOK
<1>1. /\ sent' = [sent EXCEPT ![t] = sent[t] + 1] /\ pc' = [pc EXCEPT ![t] = "write"]
      /\ pending_queue' = Append(pending_queue, Command(t)')
  BY DEF Push, Goto
<1>2. /\ sent \in [Tasks -> Nat] /\ pc \in [Tasks -> Labels] /\ pending_queue \in Seq(Commands)
      /\ DOMAIN pending_queue = 1 .. Len(pending_queue)
  BY DEF PlacesOK
<1>3. sent'[t] = sent[t] + 1 /\ sent'[t] \in Nat /\ Command(t)' = <<t, sent[t] + 1>> /\ Command(t)' \in Commands
  BY <1>1, <1>2 DEF Command, Commands
<1>4. /\ pending_queue' \in Seq(Commands) /\ Len(pending_queue') = Len(pending_queue) + 1
      /\ pending_queue'[Len(pending_queue) + 1] = Command(t)'
      /\ \A k \in 1 .. Len(pending_queue) : pending_queue'[k] = pending_queue[k]
  BY <1>1, <1>2, <1>3, AppendLast
<1>5. DOMAIN pending_queue' = 1 .. Len(pending_queue) + 1
  BY <1>4
<1>6. \A u \in Tasks \ {t} : Command(u)' = Command(u) /\ InFlight(u)' = InFlight(u)
  BY <1>1, <1>2 DEF Command, InFlight
<1>7. \A k \in 1 .. Len(pending_queue) : \E u \in Tasks \ {t} : InFlight(u) /\ pending_queue[k] = Command(u)
  BY <1>2 DEF QueueOwned
<1>8. \A u \in Tasks \ {t} : Command(u) # Command(t)'
  BY <1>3 DEF Command
<1>9. InFlight(t)'
  BY <1>1, <1>2 DEF InFlight
<1>10. \A i \in DOMAIN pending_queue' : \E u \in Tasks : InFlight(u)' /\ pending_queue'[i] = Command(u)'
  <2> SUFFICES ASSUME NEW i \in 1 .. Len(pending_queue) + 1
               PROVE  \E u \in Tasks : InFlight(u)' /\ pending_queue'[i] = Command(u)'
    BY <1>5
  <2>1. CASE i = Len(pending_queue) + 1
    BY <1>4, <1>9, <2>1
  <2>2. CASE i \in 1 .. Len(pending_queue)
    BY <1>4, <1>6, <1>7, <2>2
  <2> QED BY <2>1, <2>2, <1>2
<1>11. \A i, k \in DOMAIN pending_queue' : pending_queue'[i] = pending_queue'[k] => i = k
  BY <1>2, <1>4, <1>5, <1>7, <1>8 DEF QueueOwned
<1> QED BY <1>1, <1>4, <1>6, <1>7, <1>10, <1>11 DEF QueueOwned

\* A task that leaves takes its entry along.
LEMMA Left ==
  ASSUME QueueInv, NEW t \in Tasks, Leave(t)
  PROVE  QueueOwned'
<1> USE DEF QueueInv, TypeOK
<1> DEFINE q == pending_queue
<1>1. /\ q' = Without(q, Command(t)) /\ sent' = sent
      /\ \A u \in Tasks \ {t} : InFlight(u) => InFlight(u)'
  BY DEF Leave, Goto, InFlight, PlacesOK
<1>2. q \in Seq(Commands) /\ DOMAIN q = 1 .. Len(q)
  BY DEF PlacesOK
<1>3. \A u \in Tasks : Command(u)' = Command(u)
  BY <1>1 DEF Command
<1>4. CASE \A i \in 1 .. Len(q) : q[i] # Command(t)
  <2>1. q' = q
    BY <1>1, <1>2, <1>4, WithoutNothing
  <2> QED BY <1>1, <1>2, <1>3, <1>4, <2>1 DEF QueueOwned
<1>5. ASSUME NEW k \in 1 .. Len(q), q[k] = Command(t) PROVE QueueOwned'
  <2>0. /\ q' \in Seq(Commands) /\ DOMAIN q' = 1 .. Len(q') /\ Len(q') = Len(q) - 1
        /\ \A i \in 1 .. Len(q) - 1 : q'[i] = IF i < k THEN q[i] ELSE q[i + 1]
    <3>1. \A i \in 1 .. Len(q) : q[i] = q[k] => i = k
      BY <1>2 DEF QueueOwned
    <3>2. q' = Without(q, q[k])
      BY <1>1, <1>5
    <3>3. /\ q' \in Seq(Commands) /\ Len(q') = Len(q) - 1
          /\ \A i \in 1 .. Len(q) - 1 : q'[i] = IF i < k THEN q[i] ELSE q[i + 1]
      BY <1>2, <3>1, <3>2, WithoutMoves
    <3> QED BY <3>3
  <2>1. \A i \in 1 .. Len(q) : i # k => \E u \in Tasks \ {t} : InFlight(u) /\ q[i] = Command(u)
    <3> SUFFICES ASSUME NEW i \in 1 .. Len(q), i # k PROVE \E u \in Tasks \ {t} : InFlight(u) /\ q[i] = Command(u)
      OBVIOUS
    <3>1. PICK u \in Tasks : InFlight(u) /\ q[i] = Command(u)
      BY <1>2 DEF QueueOwned
    <3>2. u # t
      BY <1>2, <1>5, <3>1 DEF QueueOwned
    <3> QED BY <3>1, <3>2
  <2>2. \A i \in 1 .. Len(q) - 1 : \E m \in 1 .. Len(q) : m # k /\ q'[i] = q[m]
    BY <1>2, <2>0
  <2>3. \A i \in DOMAIN q' : \E u \in Tasks : InFlight(u)' /\ q'[i] = Command(u)'
    BY <1>1, <1>2, <1>3, <2>0, <2>1, <2>2
  <2>4. \A i, m \in DOMAIN q : q[i] = q[m] => i = m
    BY DEF QueueOwned
  <2>5. \A i, m \in 1 .. Len(q) - 1 : q'[i] = q'[m] => i = m
    <3> DEFINE Old(i) == IF i < k THEN i ELSE i + 1
    <3>1. \A i \in 1 .. Len(q) - 1 : Old(i) \in 1 .. Len(q) /\ q'[i] = q[Old(i)]
      BY <1>2, <2>0
    <3>2. \A i, m \in 1 .. Len(q) - 1 : Old(i) = Old(m) => i = m
      BY <1>2
    <3> HIDE DEF Old
    <3> QED BY <1>2, <2>4, <3>1, <3>2
  <2> QED BY <1>2, <2>0, <2>3, <2>5 DEF QueueOwned
<1> QED BY <1>4, <1>5

\* Every step leaves in the queue only commands of tasks between their push and their removal.
LEMMA QueueStep == QueueInv /\ [Next]_vars => QueueOwned'
<1> SUFFICES ASSUME QueueInv, [Next]_vars PROVE QueueOwned'
  OBVIOUS
<1> USE Kept DEF QueueInv, TypeOK, PlacesOK, InFlight, Goto, JobGoto
<1>1. ASSUME NEW t \in Tasks, Begin(t) PROVE QueueOwned' BY <1>1 DEF Begin
<1>2. ASSUME NEW t \in Tasks, Gate(t) PROVE QueueOwned' BY <1>2 DEF Gate
<1>3. ASSUME NEW t \in Tasks, Lock(t) PROVE QueueOwned'
  BY <1>3, Pushed DEF Lock
<1>4. ASSUME NEW t \in Tasks, LockFails(t) PROVE QueueOwned' BY <1>4 DEF LockFails
<1>5. ASSUME NEW t \in Tasks, Write(t) PROVE QueueOwned' BY <1>5 DEF Write
<1>6. ASSUME NEW t \in Tasks, Leave(t) PROVE QueueOwned'
  BY <1>6, Left
<1>7. ASSUME NEW t \in Tasks, Timeout(t) PROVE QueueOwned' BY <1>7 DEF Timeout
<1>8. ASSUME NEW j \in Jobs, start_job(j) PROVE QueueOwned' BY <1>8 DEF start_job
<1>9. ASSUME NEW j \in Jobs, RunHead(j) PROVE QueueOwned' BY <1>9 DEF RunHead
<1>10. ASSUME NEW j \in Jobs, RunEnd(j) PROVE QueueOwned' BY <1>10 DEF RunEnd
<1>11. ASSUME NEW j \in Jobs, RunShutdown(j) PROVE QueueOwned' BY <1>11 DEF RunShutdown
<1>12. CASE Poll
  <2>1. Poller \in Tasks /\ ~InFlight(Poller) /\ Push(Poller)
    BY <1>12 DEF Poll, Tasks
  <2> QED BY <2>1, Pushed
<1>13. CASE handle_line BY <1>13 DEF handle_line, Line
<1>14. CASE handle_error_line BY <1>14 DEF handle_error_line, Finishing, Line
<1>15. CASE Raise
  BY <1>15 DEF Raise, exchangeVars
<1>16. CASE cancel
  BY <1>16 DEF cancel, QueueOwned
<1>17. CASE CancelWrite BY <1>17 DEF CancelWrite
<1>18. CASE Open BY <1>18 DEF Open
<1>19. CASE Settle BY <1>19 DEF Settle
<1>20. CASE Close BY <1>20 DEF Close
<1>21. CASE LinkLost BY <1>21 DEF LinkLost
<1>22. CASE UNCHANGED vars BY <1>22 DEF vars, exchangeVars
<1>23. CASE handle_ok BY <1>23 DEF handle_ok, Finishing, Line
<1>24. CASE Unsolicited BY <1>24 DEF Unsolicited
<1> QED
  BY <1>1, <1>2, <1>3, <1>4, <1>5, <1>6, <1>7, <1>8, <1>9, <1>10, <1>11, <1>12, <1>13, <1>14, <1>15, <1>16,
     <1>17, <1>18, <1>19, <1>20, <1>21, <1>22, <1>23, <1>24 DEF Next, Step, Run

\* Every step before the first handshake leaves all tasks outside the exchange.
LEMMA HeldBackStep == QueueInv /\ [Next]_vars => HeldBack'
<1> SUFFICES ASSUME QueueInv, [Next]_vars PROVE HeldBack'
  OBVIOUS
<1> USE NamesAssumption
<1> USE DEF QueueInv, TypeOK, PlacesOK, HeldBack, Tasks, linkVars, exchangeVars, Goto, JobGoto,
        AfterFailure, AfterAnswer
<1>1. ASSUME NEW t \in Tasks, Begin(t) PROVE HeldBack' BY <1>1 DEF Begin
<1>2. ASSUME NEW t \in Tasks, Gate(t) PROVE HeldBack' BY <1>2 DEF Gate
<1>3. ASSUME NEW t \in Tasks, Lock(t) PROVE HeldBack' BY <1>3 DEF Lock, Push
<1>4. ASSUME NEW t \in Tasks, LockFails(t) PROVE HeldBack' BY <1>4 DEF LockFails
<1>5. ASSUME NEW t \in Tasks, Write(t) PROVE HeldBack' BY <1>5 DEF Write
<1>6. ASSUME NEW t \in Tasks, Leave(t) PROVE HeldBack'
  BY <1>6 DEF Leave, Answered
<1>7. ASSUME NEW t \in Tasks, Timeout(t) PROVE HeldBack' BY <1>7 DEF Timeout
<1>8. ASSUME NEW j \in Jobs, start_job(j) PROVE HeldBack' BY <1>8 DEF start_job
<1>9. ASSUME NEW j \in Jobs, RunHead(j) PROVE HeldBack' BY <1>9 DEF RunHead
<1>10. ASSUME NEW j \in Jobs, RunEnd(j) PROVE HeldBack' BY <1>10 DEF RunEnd
<1>11. ASSUME NEW j \in Jobs, RunShutdown(j) PROVE HeldBack' BY <1>11 DEF RunShutdown
<1>12. CASE Poll BY <1>12 DEF Poll, Push
<1>13. CASE handle_line BY <1>13 DEF handle_line, Line
<1>14. CASE handle_error_line BY <1>14 DEF handle_error_line, Finishing, Line
<1>15. CASE Raise BY <1>15 DEF Raise
<1>16. CASE cancel BY <1>16 DEF cancel
<1>17. CASE CancelWrite BY <1>17 DEF CancelWrite
<1>18. CASE Open BY <1>18 DEF Open
<1>19. CASE Settle BY <1>19 DEF Settle
<1>20. CASE Close BY <1>20 DEF Close
<1>21. CASE LinkLost BY <1>21 DEF LinkLost
<1>22. CASE UNCHANGED vars BY <1>22 DEF vars
<1>23. CASE handle_ok BY <1>23 DEF handle_ok, Finishing, Line
<1>24. CASE Unsolicited BY <1>24 DEF Unsolicited
<1> QED
  BY <1>1, <1>2, <1>3, <1>4, <1>5, <1>6, <1>7, <1>8, <1>9, <1>10, <1>11, <1>12, <1>13, <1>14, <1>15, <1>16,
     <1>17, <1>18, <1>19, <1>20, <1>21, <1>22, <1>23, <1>24 DEF Next, Step, Run

-----------------------------------------------------------------------------
(* A cancelled job.                                                        *)

\* The ghost never returns to "none", and an un-cancelled session stays so.
GhostLasts ==
    /\ disorder' = "none" => disorder = "none"
    /\ disorder = "uncancelled" => disorder' = "uncancelled"

\* So it is with every step.
LEMMA GhostStep == [Next]_vars => GhostLasts
<1> SUFFICES ASSUME [Next]_vars PROVE GhostLasts
  OBVIOUS
<1> USE DEF GhostLasts, OutOfStep, exchangeVars
<1>1. ASSUME NEW t \in Tasks, Begin(t) PROVE GhostLasts
  BY <1>1 DEF Begin
<1>2. ASSUME NEW t \in Tasks, Gate(t) PROVE GhostLasts
  BY <1>2 DEF Gate
<1>3. ASSUME NEW t \in Tasks, Lock(t) PROVE GhostLasts
  BY <1>3 DEF Lock, Push
<1>4. ASSUME NEW t \in Tasks, LockFails(t) PROVE GhostLasts
  BY <1>4 DEF LockFails
<1>5. ASSUME NEW t \in Tasks, Write(t) PROVE GhostLasts
  BY <1>5 DEF Write
<1>6. ASSUME NEW t \in Tasks, Leave(t) PROVE GhostLasts
  BY <1>6 DEF Leave
<1>7. ASSUME NEW t \in Tasks, Timeout(t) PROVE GhostLasts
  BY <1>7 DEF Timeout
<1>8. ASSUME NEW j \in Jobs, start_job(j) PROVE GhostLasts
  BY <1>8 DEF start_job
<1>9. ASSUME NEW j \in Jobs, RunHead(j) PROVE GhostLasts
  BY <1>9 DEF RunHead
<1>10. ASSUME NEW j \in Jobs, RunEnd(j) PROVE GhostLasts
  BY <1>10 DEF RunEnd
<1>11. ASSUME NEW j \in Jobs, RunShutdown(j) PROVE GhostLasts
  BY <1>11 DEF RunShutdown
<1>12. CASE Poll BY <1>12 DEF Poll, Push
<1>13. CASE handle_line BY <1>13 DEF handle_line, Line
<1>14. CASE handle_error_line BY <1>14 DEF handle_error_line, Finishing, Line
<1>15. CASE Raise BY <1>15 DEF Raise
<1>16. CASE cancel BY <1>16 DEF cancel
<1>17. CASE CancelWrite BY <1>17 DEF CancelWrite
<1>18. CASE Open BY <1>18 DEF Open
<1>19. CASE Settle BY <1>19 DEF Settle
<1>20. CASE Close BY <1>20 DEF Close
<1>21. CASE LinkLost BY <1>21 DEF LinkLost
<1>22. CASE UNCHANGED vars BY <1>22 DEF vars
<1>23. CASE handle_ok BY <1>23 DEF handle_ok, Finishing, Line
<1>24. CASE Unsolicited BY <1>24 DEF Unsolicited
<1> QED
  BY <1>1, <1>2, <1>3, <1>4, <1>5, <1>6, <1>7, <1>8, <1>9, <1>10, <1>11, <1>12, <1>13, <1>14, <1>15, <1>16,
     <1>17, <1>18, <1>19, <1>20, <1>21, <1>22, <1>23, <1>24 DEF Next, Step, Run

\* With one job, every step that does not un-cancel it lets it write no second line after cancel().
LEMMA LateStep ==
  (\A i, k \in Jobs : i = k) /\ TypeOK /\ LateOnce /\ [Next]_vars /\ disorder' # "uncancelled" => LateOnce'
<1> SUFFICES ASSUME \A i, k \in Jobs : i = k, TypeOK, LateOnce, [Next]_vars, disorder' # "uncancelled" PROVE LateOnce'
  OBVIOUS
<1> USE NamesAssumption
<1> USE DEF TypeOK, PlacesOK, LateOnce, Streaming, Tasks, linkVars, jobVars, exchangeVars, Goto,
        JobGoto, AfterFailure, AfterAnswer
<1>1. ASSUME NEW t \in Tasks, Begin(t) PROVE LateOnce' BY <1>1 DEF Begin
<1>2. ASSUME NEW t \in Tasks, Gate(t) PROVE LateOnce' BY <1>2 DEF Gate
<1>3. ASSUME NEW t \in Tasks, Lock(t) PROVE LateOnce' BY <1>3 DEF Lock, Push
<1>4. ASSUME NEW t \in Tasks, LockFails(t) PROVE LateOnce' BY <1>4 DEF LockFails
<1>5. ASSUME NEW t \in Tasks, Write(t) PROVE LateOnce' BY <1>5 DEF Write
<1>6. ASSUME NEW t \in Tasks, Leave(t) PROVE LateOnce'
  BY <1>6 DEF Leave, Answered
<1>7. ASSUME NEW t \in Tasks, Timeout(t) PROVE LateOnce' BY <1>7 DEF Timeout
<1>8. ASSUME NEW j \in Jobs, start_job(j) PROVE LateOnce' BY <1>8 DEF start_job
<1>9. ASSUME NEW j \in Jobs, RunHead(j) PROVE LateOnce' BY <1>9 DEF RunHead
<1>10. ASSUME NEW j \in Jobs, RunEnd(j) PROVE LateOnce' BY <1>10 DEF RunEnd
<1>11. ASSUME NEW j \in Jobs, RunShutdown(j) PROVE LateOnce' BY <1>11 DEF RunShutdown
<1>12. CASE Poll BY <1>12 DEF Poll, Push
<1>13. CASE handle_line BY <1>13 DEF handle_line, Line
<1>14. CASE handle_error_line BY <1>14 DEF handle_error_line, Finishing, Line
<1>15. CASE Raise BY <1>15 DEF Raise
<1>16. CASE cancel BY <1>16 DEF cancel
<1>17. CASE CancelWrite BY <1>17 DEF CancelWrite
<1>18. CASE Open BY <1>18 DEF Open
<1>19. CASE Settle BY <1>19 DEF Settle
<1>20. CASE Close BY <1>20 DEF Close
<1>21. CASE LinkLost BY <1>21 DEF LinkLost
<1>22. CASE UNCHANGED vars BY <1>22 DEF vars
<1>23. CASE handle_ok BY <1>23 DEF handle_ok, Finishing, Line
<1>24. CASE Unsolicited BY <1>24 DEF Unsolicited
<1> QED
  BY <1>1, <1>2, <1>3, <1>4, <1>5, <1>6, <1>7, <1>8, <1>9, <1>10, <1>11, <1>12, <1>13, <1>14, <1>15, <1>16,
     <1>17, <1>18, <1>19, <1>20, <1>21, <1>22, <1>23, <1>24 DEF Next, Step, Run

-----------------------------------------------------------------------------
(* Answers in step.                                                        *)

\* A step beside the exchange: no task begins, writes, waits or leaves.
LEMMA Aside ==
  ASSUME Ordered, disorder = "none", disorder' = "none",
         UNCHANGED <<pending_queue, wire, sent, finished_by, stops, handshake_received, connected, open>>,
         \A t \in Tasks : \A l \in {"write", "wait", "fail"} : pc'[t] = l <=> pc[t] = l
  PROVE  Ordered'
<1>1. FinishedWaits' /\ OwnAnswer'
  BY DEF Ordered, FinishedWaits, OwnAnswer, Command
<1>2. Finished' = Finished /\ Unwritten' = Unwritten
  BY DEF Finished, Unwritten
<1>3. Up => FinishedFirst' /\ WriterLast' /\ \A t \in Tasks : pc'[t] # "fail"
  BY DEF Up, FinishedFirst, WriterLast, Command
<1>4. Up => Up'
  BY <1>2, <1>3 DEF Up, WireIsQueue
<1> QED BY <1>1, <1>4 DEF Ordered

\* A push with nobody between his own push and write.
LEMMA PushInStep ==
  ASSUME QueueInv, QueueInv', Ordered, disorder = "none", disorder' = "none",
         NEW t \in Tasks, ~InFlight(t), Push(t), connected, open
  PROVE  Ordered'
<1> USE DEF QueueInv, TypeOK
<1>1. /\ sent' = [sent EXCEPT ![t] = sent[t] + 1] /\ pc' = [pc EXCEPT ![t] = "write"]
      /\ Len(pending_queue') = Len(pending_queue) + 1 /\ pending_queue'[Len(pending_queue) + 1] = Command(t)'
      /\ \A k \in 1 .. Len(pending_queue) : pending_queue'[k] = pending_queue[k]
      /\ \A u \in Tasks \ {t} : Command(u)' = Command(u)
  BY Pushed
<1>2. UNCHANGED <<finished_by, wire, connected, open, handshake_received, stops>> /\ \A u \in Tasks \ {t} : pc[u] # "write"
  BY DEF Push, linkVars, OutOfStep
<1>3. Len(pending_queue) \in Nat /\ Len(wire) \in Nat /\ pc \in [Tasks -> Labels] /\ pending_queue' \in Seq(Commands)
      /\ (pending_queue # <<>> => 1 \in 1 .. Len(pending_queue))
  BY DEF PlacesOK
<1>4. finished_by[t] = None /\ Up
  BY DEF Ordered, FinishedWaits, InFlight
<1>5. FinishedFirst'
  <2> SUFFICES ASSUME NEW u \in Tasks, finished_by[u] # None
               PROVE  (pending_queue # <<>> /\ pending_queue[1] = Command(u))'
    BY <1>2 DEF FinishedFirst
  <2>1. u # t /\ pending_queue # <<>> /\ pending_queue[1] = Command(u)
    BY <1>4 DEF Up, FinishedFirst
  <2> QED BY <1>1, <1>3, <2>1
<1>6. WriterLast'
  BY <1>1, <1>2, <1>3 DEF WriterLast
<1>7. OwnAnswer'
  BY <1>1, <1>2, <1>4 DEF Ordered, OwnAnswer
<1>8. pc[t] \notin {"write", "wait", "fail"} /\ pc'[t] = "write" /\ \A u \in Tasks \ {t} : pc'[u] = pc[u]
  BY <1>1, <1>3 DEF InFlight
<1>9. Finished' = Finished /\ Unwritten = 0 /\ Unwritten' = 1 /\ Finished \in {0, 1}
  BY <1>2, <1>8 DEF Finished, Unwritten
<1>10. WireIsQueue'
  <2>1. Len(wire) = Len(pending_queue) - Finished /\ \A k \in 1 .. Len(wire) : wire[k] = pending_queue[k + Finished]
    BY <1>3, <1>4, <1>9 DEF Up, WireIsQueue
  <2>2. \A k \in 1 .. Len(wire) : k + Finished \in 1 .. Len(pending_queue)
    BY <1>3, <1>9, <2>1
  <2>3. Len(wire') = Len(pending_queue') - Finished' - Unwritten'
    BY <1>1, <1>2, <1>3, <1>9, <2>1
  <2>4. \A k \in 1 .. Len(wire) : wire[k] = pending_queue'[k + Finished]
    BY <1>1, <2>1, <2>2
  <2> QED BY <1>2, <1>9, <2>3, <2>4 DEF WireIsQueue
<1>11. FinishedWaits'
  BY <1>2, <1>4, <1>8 DEF Ordered, FinishedWaits
<1>12. Up'
  BY <1>4, <1>5, <1>6, <1>8, <1>10 DEF Up
<1> QED BY <1>2, <1>7, <1>11, <1>12 DEF Ordered

\* A write puts the last of the queue at the end of the wire.
LEMMA WriteInStep ==
  ASSUME QueueInv, Ordered, disorder = "none", disorder' = "none", NEW t \in Tasks, Write(t)
  PROVE  Ordered'
<1> USE DEF QueueInv, TypeOK
<1>1. UNCHANGED <<pending_queue, sent, finished_by, stops, handshake_received, connected, open>> /\ pc[t] = "write"
  BY DEF Write, linkVars
<1>2. connected = TRUE
  BY <1>1, Zenon DEF HeldBack, FlagsOK
<1>3. /\ pc \in [Tasks -> Labels] /\ wire \in Seq(Answers) /\ pending_queue \in Seq(Commands) /\ sent \in [Tasks -> Nat]
      /\ DOMAIN pending_queue = 1 .. Len(pending_queue)
  BY DEF PlacesOK
<1>5. \A u \in Tasks \ {t} : pc'[u] = pc[u]
  BY <1>3 DEF Write, Goto
<1>6. FinishedWaits' /\ OwnAnswer' /\ finished_by[t] = None
  BY <1>1, <1>5 DEF Ordered, FinishedWaits, OwnAnswer, Command
<1>7. CASE open
  <2>a. Up
    BY <1>2, <1>7 DEF Ordered
  <2>b. \A u \in Tasks \ {t} : pc[u] # "write"
    BY <1>1, <1>3, <2>a DEF Up, WriterLast, Command
  <2>1. pc'[t] = "wait" /\ wire' = Append(wire, Command(t))
    BY <1>3, <1>7 DEF Write, Goto
  <2>2. Command(t) \in Answers
    BY <1>3 DEF Command, Commands, Answers
  <2>3. Len(wire') = Len(wire) + 1 /\ wire'[Len(wire) + 1] = Command(t) /\ \A k \in 1 .. Len(wire) : wire'[k] = wire[k]
    BY <1>3, <2>1, <2>2, AppendLast
  <2>4. Finished' = Finished /\ Unwritten = 1 /\ Unwritten' = 0 /\ Finished \in {0, 1}
    BY <1>1, <1>5, <2>b, <2>1 DEF Finished, Unwritten
  <2>5. Len(wire) = Len(pending_queue) - Finished - 1 /\ \A k \in 1 .. Len(wire) : wire[k] = pending_queue[k + Finished]
    BY <2>4, <2>a DEF Up, WireIsQueue
  <2>6. pending_queue[Len(wire) + 1 + Finished] = Command(t)
    <3>1. Len(wire) + 1 + Finished = Len(pending_queue)
      BY <1>3, <2>4, <2>5
    <3> QED BY <1>1, <2>a, <3>1 DEF Up, WriterLast
  <2>7. WireIsQueue'
    BY <1>1, <1>3, <2>3, <2>4, <2>5, <2>6 DEF WireIsQueue
  <2>8. WriterLast' /\ FinishedFirst' /\ \A u \in Tasks : pc'[u] # "fail"
    BY <1>1, <1>5, <2>1, <2>a, <2>b DEF WriterLast, FinishedFirst, Up, Command
  <2>9. open'
    BY <1>1, <1>7
  <2> QED BY <1>1, <1>6, <2>7, <2>8, <2>9 DEF Ordered, Up
<1>8. CASE ~open
  <2>1. wire' = wire
    BY <1>8 DEF Write
  <2> QED BY <1>1, <1>2, <1>6, <1>8, <2>1 DEF Ordered
<1> QED BY <1>7, <1>8

\* An answer is that of the front, which it finishes.
LEMMA LineInStep ==
  ASSUME QueueInv, Ordered, disorder = "none", disorder' = "none", Finishing
  PROVE  Ordered'
<1> USE DEF QueueInv, TypeOK
<1>1. /\ UNCHANGED <<pending_queue, sent, pc, stops, connected, open>> /\ open /\ wire # <<>> /\ wire' = Tail(wire)
      /\ ~FrontFinished
  BY DEF Finishing, Line, OutOfStep
<1>2. /\ wire \in Seq(Answers) /\ pending_queue \in Seq(Commands) /\ DOMAIN pending_queue = 1 .. Len(pending_queue)
      /\ finished_by \in [Tasks -> Commands \cup Tokens] /\ sent \in [Tasks -> Nat]
  BY DEF PlacesOK
<1>3. Head(wire) = wire[1] /\ Len(wire) \in Nat \ {0} /\ Len(wire') = Len(wire) - 1 /\ \A k \in 1 .. Len(wire) - 1 : wire'[k] = wire[k + 1]
  BY <1>1, <1>2, TailMoves
<1>4. CASE connected
  <2>a. Up
    BY <1>1, <1>4 DEF Ordered
  <2>1. \A t \in Tasks : finished_by[t] = None
    BY <1>1, <1>2, <2>a DEF FrontFinished, Up, FinishedFirst, Command
  <2>2. Finished = 0
    BY <2>1 DEF Finished
  <2>3. Unwritten \in {0, 1} /\ Unwritten' = Unwritten
    BY <1>1 DEF Unwritten
  <2>4. Len(wire) = Len(pending_queue) - Unwritten /\ \A k \in 1 .. Len(wire) : wire[k] = pending_queue[k]
    BY <1>2, <2>2, <2>3, <2>a DEF Up, WireIsQueue
  <2>5. pending_queue # <<>> /\ wire[1] = pending_queue[1] /\ Head(pending_queue) = pending_queue[1] /\ 1 \in DOMAIN pending_queue
    <3>a. Len(pending_queue) \in Nat
      BY <1>2
    <3>b. Len(wire) \in Nat \ {0}
      BY <1>3
    <3>c. Len(wire) = Len(pending_queue) - Unwritten
      BY <2>4
    <3>1. Len(pending_queue) \in Nat /\ Len(pending_queue) >= 1 /\ 1 \in 1 .. Len(wire)
      BY <2>3, <3>a, <3>b, <3>c
    <3>2. pending_queue # <<>> /\ wire[1] = pending_queue[1]
      BY <2>4, <3>1
    <3> QED BY <1>2, <3>1, <3>2
  <2>6. PICK t \in Tasks : InFlight(t) /\ pending_queue[1] = Command(t)
    BY <2>5 DEF QueueOwned
  <2>7. pc[t] = "wait"
    <3>1. pc[t] # "fail"
      BY <2>a DEF Up
    <3>2. pc[t] # "write"
      <4> SUFFICES ASSUME pc[t] = "write" PROVE FALSE
        OBVIOUS
      <4>1. Unwritten = 1 /\ pending_queue[Len(pending_queue)] = pending_queue[1]
        BY <2>6, <2>a DEF Unwritten, Up, WriterLast
      <4>2. Len(pending_queue) = 1
        <5>1. Len(pending_queue) \in DOMAIN pending_queue
          BY <1>2, <2>5
        <5> QED BY <2>5, <4>1, <5>1 DEF QueueOwned
      <4> QED BY <1>3, <2>4, <4>1, <4>2
    <3> QED BY <2>6, <3>1, <3>2 DEF InFlight
  <2>8. finished_by' = [finished_by EXCEPT ![t] = Command(t)]
    <3>1. Head(pending_queue)[1] = t
      BY <2>5, <2>6 DEF Command
    <3> QED BY <1>1, <1>3, <2>5, <2>6, <3>1 DEF Finishing, finish_pending
  <2>9. finished_by'[t] = Command(t) /\ Command(t) # None /\ \A u \in Tasks \ {t} : finished_by'[u] = None
    <3>1. Command(t) \in Commands
      BY <1>2 DEF Command, Commands
    <3> QED BY <1>2, <2>1, <2>8, <3>1, NamesAssumption DEF Tokens
  <2>10. \A u \in Tasks : Command(u)' = Command(u)
    BY <1>1 DEF Command
  <2>11. FinishedWaits' /\ FinishedFirst' /\ OwnAnswer' /\ Finished' = 1
    BY <1>1, <2>5, <2>6, <2>7, <2>9, <2>10 DEF FinishedWaits, FinishedFirst, OwnAnswer, Finished
  <2>12. WireIsQueue'
    <3>1. Len(wire') = Len(pending_queue') - Finished' - Unwritten'
      <4>1. Len(pending_queue) \in Nat /\ pending_queue' = pending_queue
        BY <1>1, <1>2
      <4> QED BY <1>3, <2>3, <2>4, <2>11, <4>1
    <3>2. \A k \in 1 .. Len(wire') : wire'[k] = pending_queue[k + 1]
      BY <1>3, <2>4
    <3> QED BY <1>1, <2>11, <3>1, <3>2 DEF WireIsQueue
  <2>13. Up'
    BY <1>1, <2>a, <2>10, <2>11, <2>12 DEF Up, WriterLast
  <2> QED BY <1>1, <1>4, <2>11, <2>13 DEF Ordered
<1>5. CASE ~connected
  <2>1. connected = FALSE /\ connected' = FALSE
    BY <1>1, <1>5, Zenon DEF FlagsOK
  <2>2. pending_queue = <<>> /\ finished_by' = finished_by
    BY <2>1 DEF HeldBack, Finishing, finish_pending
  <2> QED BY <1>1, <2>1, <2>2 DEF Ordered, FinishedWaits, OwnAnswer, Command
<1> QED BY <1>4, <1>5

\* Text is printed only before the device has announced itself: later the wire holds commands.
LEMMA TextInStep ==
  ASSUME QueueInv, Ordered, disorder = "none", disorder' = "none", handle_line
  PROVE  Ordered'
<1> USE DEF QueueInv, TypeOK
<1>1. /\ UNCHANGED <<pending_queue, sent, pc, finished_by, stops, connected, open>> /\ open
      /\ wire # <<>> /\ Head(wire) = Start
  BY DEF handle_line, Line
<1>2. wire \in Seq(Answers) /\ pending_queue \in Seq(Commands)
  BY DEF PlacesOK
<1>3. connected = FALSE
  <2> SUFFICES ASSUME connected = TRUE PROVE FALSE
    BY Zenon DEF FlagsOK
  <2>1. WireIsQueue
    BY <1>1 DEF Ordered, Up
  <2>2. Finished \in {0, 1} /\ Unwritten \in {0, 1}
    BY DEF Finished, Unwritten
  <2>3. Head(wire) = wire[1] /\ Len(wire) \in Nat \ {0} /\ Len(pending_queue) \in Nat
    BY <1>1, <1>2, TailMoves
  <2>4. wire[1] = pending_queue[1 + Finished] /\ 1 + Finished \in 1 .. Len(pending_queue)
    BY <2>1, <2>2, <2>3 DEF WireIsQueue
  <2>5. Start \in Commands
    BY <1>1, <1>2, <2>3, <2>4
  <2> QED BY <2>5, NamesAssumption DEF Tokens
<1>4. FinishedWaits' /\ OwnAnswer'
  BY <1>1 DEF Ordered, FinishedWaits, OwnAnswer, Command
<1> QED BY <1>1, <1>3, <1>4 DEF Ordered

\* The finished front leaves; the wire did not hold it any more.
LEMMA LeaveInStep ==
  ASSUME QueueInv, QueueInv', Ordered, disorder = "none", disorder' = "none", NEW t \in Tasks, Leave(t)
  PROVE  Ordered'
<1> USE DEF QueueInv, TypeOK
<1> DEFINE q == pending_queue
<1>1. /\ UNCHANGED <<sent, stops, handshake_received, connected, open>> /\ pending_queue' = Without(pending_queue, Command(t))
      /\ wire' = [i \in DOMAIN wire |-> IF wire[i] = Command(t) THEN Stray ELSE wire[i]]
      /\ finished_by' = [finished_by EXCEPT ![t] = None]
      /\ (pc[t] = "fail" \/ (pc[t] = "wait" /\ finished_by[t] # None))
  <2>1. UNCHANGED <<sent, stops, handshake_received, connected, open>>
    BY DEF Leave, linkVars
  <2>2. pc[t] = "fail" \/ (pc[t] = "wait" /\ finished_by[t] # None)
    BY DEF Leave, Answered
  <2> QED BY <2>1, <2>2, Zenon DEF Leave
<1>2. /\ wire \in Seq(Answers) /\ DOMAIN wire = 1 .. Len(wire) /\ wire' \in Seq(Answers) /\ q \in Seq(Commands) /\ DOMAIN q = 1 .. Len(q)
      /\ finished_by \in [Tasks -> Commands \cup Tokens] /\ sent \in [Tasks -> Nat] /\ pc \in [Tasks -> Labels]
  BY DEF PlacesOK
<1>3. /\ pc'[t] \notin {"write", "wait", "fail"} /\ \A u \in Tasks \ {t} : pc'[u] = pc[u] /\ finished_by'[u] = finished_by[u]
      /\ finished_by'[t] = None
  BY <1>1, <1>2 DEF Leave, Goto, AfterFailure, AfterAnswer
<1>4. connected = TRUE
  BY <1>1, Zenon DEF HeldBack, FlagsOK
<1>5. \A u, v \in Tasks : Command(u)' = Command(u) /\ (Command(u) = Command(v) => u = v)
  BY <1>1 DEF Command
<1>6. \A i, k \in 1 .. Len(q) : q[i] = q[k] => i = k
  BY <1>2 DEF QueueOwned
<1>7. FinishedWaits' /\ OwnAnswer'
  BY <1>1, <1>3, <1>4, <1>5 DEF Ordered, FinishedWaits, OwnAnswer
<1>8. CASE open
  <2>a. Up /\ pc[t] # "fail" /\ finished_by[t] # None
    BY <1>1, <1>4, <1>8 DEF Ordered, Up
  <2>1. q # <<>> /\ q[1] = Command(t) /\ Len(q) \in Nat \ {0}
    BY <1>2, <2>a DEF Up, FinishedFirst
  <2>2. \A u \in Tasks \ {t} : finished_by[u] = None
    BY <1>5, <2>1, <2>a DEF Up, FinishedFirst
  <2>3. Len(q') = Len(q) - 1 /\ \A i \in 1 .. Len(q) - 1 : q'[i] = q[i + 1]
    <3>1. 1 \in 1 .. Len(q) /\ q' = Without(q, q[1]) /\ \A i \in 1 .. Len(q) : q[i] = q[1] => i = 1
      BY <1>1, <1>6, <2>1
    <3>2. Len(q') = Len(q) - 1 /\ \A i \in 1 .. Len(q) - 1 : q'[i] = IF i < 1 THEN q[i] ELSE q[i + 1]
      BY <1>2, <3>1, WithoutMoves
    <3> QED BY <1>2, <3>2
  <2>4. \A u \in Tasks : finished_by'[u] = None
    BY <1>3, <2>2
  <2>5. FinishedFirst' /\ Finished = 1 /\ Finished' = 0 /\ Unwritten' = Unwritten /\ Unwritten \in {0, 1}
    BY <1>1, <1>3, <2>a, <2>4 DEF FinishedFirst, Finished, Unwritten
  <2>6. WriterLast'
    <3> SUFFICES ASSUME NEW u \in Tasks, pc'[u] = "write" PROVE q' # <<>> /\ q'[Len(q')] = Command(u)'
      BY DEF WriterLast
    <3>1. u # t /\ pc[u] = "write" /\ q[Len(q)] = Command(u)
      BY <1>3, <2>a DEF Up, WriterLast
    <3>2. Len(q) # 1
      BY <1>5, <2>1, <3>1
    <3>3. q'[Len(q')] = q[Len(q)] /\ Len(q') > 0
      BY <2>1, <2>3, <3>2
    <3> QED BY <1>5, <3>1, <3>3
  <2>7. WireIsQueue'
    <3>1. Len(wire) = Len(q) - 1 - Unwritten /\ \A k \in 1 .. Len(wire) : wire[k] = q[k + 1]
      BY <2>5, <2>a DEF Up, WireIsQueue
    <3>2. \A k \in 1 .. Len(wire) : k + 1 \in 1 .. Len(q) /\ k + 1 # 1
      BY <2>1, <2>5, <3>1, <1>2
    <3>3. \A k \in 1 .. Len(wire) : wire[k] # Command(t)
      BY <1>6, <2>1, <3>1, <3>2
    <3>4. wire' = wire
      BY <1>1, <1>2, <3>3
    <3>5. Len(wire) = Len(q') - Unwritten
      <4>1. Len(wire) \in Nat
        BY <1>2
      <4> HIDE DEF q
      <4> QED BY <2>1, <2>3, <2>5, <3>1, <4>1
    <3>6. \A k \in 1 .. Len(wire) : wire[k] = q'[k]
      <4>1. \A k \in 1 .. Len(wire) : k \in 1 .. Len(q) - 1
        BY <1>2, <2>1, <2>5, <3>1
      <4> QED BY <2>3, <3>1, <4>1
    <3>7. Len(wire') = Len(q') - Finished' - Unwritten'
      BY <1>2, <2>1, <2>3, <2>5, <3>4, <3>5
    <3>8. \A k \in 1 .. Len(wire') : wire'[k] = q'[k + Finished']
      BY <2>5, <3>4, <3>6
    <3> QED BY <3>7, <3>8 DEF WireIsQueue
  <2>8. Up'
    BY <1>3, <2>5, <2>6, <2>7, <2>a DEF Up
  <2> QED BY <1>1, <1>7, <1>8, <2>8 DEF Ordered
<1>9. CASE ~open
  <2>1. open = FALSE
    BY <1>9, Zenon DEF FlagsOK
  <2>2. wire' = <<>>
    BY <1>1, <2>1 DEF Ordered
  <2> QED BY <1>1, <1>7, <1>9, <2>2 DEF Ordered
<1> QED BY <1>8, <1>9

\* Every step after which answers are still in step keeps them so.
LEMMA OrderStep == QueueInv /\ QueueInv' /\ Ordered /\ [Next]_vars /\ disorder = "none" /\ disorder' = "none" => Ordered'
<1> SUFFICES ASSUME QueueInv, QueueInv', Ordered, [Next]_vars, disorder = "none", disorder' = "none" PROVE Ordered'
  OBVIOUS
<1> USE NamesAssumption
<1>a. pc \in [Tasks -> Labels] /\ stops \in Nat /\ Poller \in Tasks /\ Jobs \subseteq Tasks /\ Callers \subseteq Tasks
  BY DEF QueueInv, TypeOK, PlacesOK, Tasks
<1> USE DEF linkVars, exchangeVars, Goto, JobGoto, OutOfStep
<1>1. ASSUME NEW t \in Tasks, Begin(t) PROVE Ordered'
  BY <1>1, <1>a, Aside DEF Begin
<1>2. ASSUME NEW t \in Tasks, Gate(t) PROVE Ordered'
  BY <1>2, <1>a, Aside DEF Gate, AfterFailure
<1>3. ASSUME NEW t \in Tasks, Lock(t) PROVE Ordered'
  <2>1. ~InFlight(t) /\ Push(t) /\ open
    BY <1>3 DEF Lock, InFlight
  <2>2. connected
    BY <1>3, Zenon DEF QueueInv, TypeOK, FlagsOK, HeldBack, Lock
  <2> QED BY <2>1, <2>2, PushInStep
<1>4. ASSUME NEW t \in Tasks, LockFails(t) PROVE Ordered'
  BY <1>4, <1>a, Aside DEF LockFails, AfterFailure
<1>5. ASSUME NEW t \in Tasks, Write(t) PROVE Ordered'
  BY <1>5, WriteInStep
<1>6. ASSUME NEW t \in Tasks, Leave(t) PROVE Ordered'
  BY <1>6, LeaveInStep
<1>7. ASSUME NEW t \in Tasks, Timeout(t) PROVE Ordered' BY <1>7 DEF Timeout
<1>8. ASSUME NEW j \in Jobs, start_job(j) PROVE Ordered'
  BY <1>8, <1>a, Aside DEF start_job
<1>9. ASSUME NEW j \in Jobs, RunHead(j) PROVE Ordered'
  BY <1>9, <1>a, Aside DEF RunHead
<1>10. ASSUME NEW j \in Jobs, RunEnd(j) PROVE Ordered'
  BY <1>10, <1>a, Aside DEF RunEnd
<1>11. ASSUME NEW j \in Jobs, RunShutdown(j) PROVE Ordered' BY <1>11 DEF RunShutdown
<1>12. CASE Poll
  <2>1. ~InFlight(Poller) /\ Push(Poller) /\ open /\ pc[Poller] = "idle"
    BY <1>12 DEF Poll, InFlight
  <2>2. connected # FALSE
    BY <2>1 DEF QueueInv, HeldBack
  <2>3. connected
    BY <2>2, Zenon DEF QueueInv, TypeOK, FlagsOK
  <2> QED BY <1>a, <2>1, <2>3, PushInStep
<1>13. CASE handle_line
  BY <1>13, TextInStep
<1>14. CASE handle_error_line
  BY <1>14, LineInStep DEF handle_error_line
<1>15. CASE Raise
  BY <1>15, <1>a, Aside DEF Raise
<1>16. CASE cancel BY <1>16 DEF cancel
<1>17. CASE CancelWrite
  BY <1>17, <1>a DEF CancelWrite, Ordered
<1>18. CASE Open
  <2>1. connected = FALSE
    BY <1>18, Zenon DEF Open, OutOfStep, QueueInv, TypeOK, FlagsOK
  <2>2. connected' = FALSE /\ open' = TRUE /\ pc' = [pc EXCEPT ![Poller] = "handshake"] /\ pc[Poller] = "down"
        /\ UNCHANGED <<pending_queue, sent, finished_by, stops>>
    BY <1>18, <2>1 DEF Open
  <2>3. FinishedWaits' /\ OwnAnswer'
    BY <1>a, <2>2 DEF Ordered, FinishedWaits, OwnAnswer, Command
  <2> QED BY <2>2, <2>3 DEF Ordered
<1>19. CASE Settle
  <2>1. /\ connected' = TRUE /\ pc' = [pc EXCEPT ![Poller] = "idle"] /\ pc[Poller] = "handshake" /\ wire = <<>>
        /\ UNCHANGED <<pending_queue, wire, sent, finished_by, stops, open>>
    BY <1>19 DEF Settle
  <2>2. FinishedWaits' /\ OwnAnswer'
    BY <1>a, <2>1 DEF Ordered, FinishedWaits, OwnAnswer, Command
  <2>3. CASE connected = FALSE
    <3>1. pending_queue = <<>> /\ \A t \in Tasks : pc[t] \notin {"write", "wait", "fail"}
      BY <2>1, <2>3 DEF QueueInv, HeldBack, Ordered
    <3>2. (\A t \in Tasks : finished_by'[t] = None /\ pc'[t] \notin {"write", "fail"}) /\ pending_queue' = <<>> /\ wire' = <<>>
      BY <1>a, <2>1, <3>1 DEF Ordered, FinishedWaits
    <3>3. Up'
      BY <3>2 DEF Up, FinishedFirst, WriterLast, WireIsQueue, Finished, Unwritten
    <3> QED BY <2>1, <2>2, <3>3 DEF Ordered
  <2>4. CASE connected
    <3>1. UNCHANGED connected
      BY <2>1, <2>4, Zenon DEF QueueInv, TypeOK, FlagsOK
    <3> QED BY <1>19, <1>a, <3>1, Aside DEF Settle
  <2> QED BY <2>3, <2>4, Zenon DEF QueueInv, TypeOK, FlagsOK
<1>20. CASE Close
  <2>1. FinishedWaits' /\ OwnAnswer'
    BY <1>20, <1>a DEF Close, Ordered, FinishedWaits, OwnAnswer, Command
  <2> QED BY <1>20, <2>1 DEF Close, Ordered
<1>21. CASE LinkLost
  <2>1. FinishedWaits' /\ OwnAnswer'
    BY <1>21 DEF LinkLost, Ordered, FinishedWaits, OwnAnswer, Command
  <2> QED BY <1>21, <2>1 DEF LinkLost, Ordered
<1>22. CASE UNCHANGED vars BY <1>22, Aside DEF vars
<1>23. CASE handle_ok
  BY <1>23, LineInStep DEF handle_ok
<1>24. CASE Unsolicited
  <2>1. connected = FALSE /\ connected' = FALSE
    BY <1>24, Zenon DEF Unsolicited, QueueInv, TypeOK, FlagsOK
  <2>2. UNCHANGED <<pc, pending_queue, sent, finished_by, stops, open>> /\ open
    BY <1>24 DEF Unsolicited
  <2>3. FinishedWaits' /\ OwnAnswer'
    BY <2>2 DEF Ordered, FinishedWaits, OwnAnswer, Command
  <2> QED BY <2>1, <2>2, <2>3 DEF Ordered
<1> QED
  BY <1>1, <1>2, <1>3, <1>4, <1>5, <1>6, <1>7, <1>8, <1>9, <1>10, <1>11, <1>12, <1>13, <1>14, <1>15, <1>16,
     <1>17, <1>18, <1>19, <1>20, <1>21, <1>22, <1>23, <1>24 DEF Next, Step, Run

\* The whole invariant holds in every reachable state.
LEMMA InvAlways == Spec => []Inv
<1>1. Inv /\ [Next]_vars => Inv'
  <2> SUFFICES ASSUME Inv, [Next]_vars PROVE Inv'
    OBVIOUS
  <2>1. QueueInv'
    BY FlagsStep, PlacesStep, QueueStep, HeldBackStep DEF Inv, QueueInv, TypeOK
  <2>2. ASSUME disorder' = "none" PROVE Ordered'
    <3>1. disorder = "none"
      BY <2>2, GhostStep DEF GhostLasts
    <3> QED BY <2>1, <2>2, <3>1, OrderStep DEF Inv, InStep
  <2> QED BY <2>1, <2>2 DEF Inv, InStep
<1> QED BY InvInit, <1>1, PTL DEF Spec

-----------------------------------------------------------------------------
(* The exchange implements SingleCommand.                                  *)

\* The poll never asks for cmd_lock, and whoever else is between push and removal has it.
LockKept ==
    /\ pc[Poller] \notin {"gate", "lock", "head", "end", "interrupted", "shutdown", "returned"}
    /\ \A t \in Callers \cup Jobs : InFlight(t) => cmd_lock = t

\* Every step keeps the lock with the caller or the job that has a command in flight.
LEMMA LockStep == PlacesOK /\ LockKept /\ [Next]_vars => LockKept'
<1> SUFFICES ASSUME PlacesOK, LockKept, [Next]_vars PROVE LockKept'
  OBVIOUS
<1> USE NamesAssumption
<1> USE DEF PlacesOK, LockKept, InFlight, Goto, JobGoto, Labels, Tasks, Tokens, exchangeVars
<1>1. ASSUME NEW t \in Tasks, Begin(t) PROVE LockKept'
  BY <1>1 DEF Begin
<1>2. ASSUME NEW t \in Tasks, Gate(t) PROVE LockKept'
  BY <1>2 DEF Gate, AfterFailure
<1>3. ASSUME NEW t \in Tasks, Lock(t) PROVE LockKept'
  BY <1>3 DEF Lock, Push
<1>4. ASSUME NEW t \in Tasks, LockFails(t) PROVE LockKept'
  BY <1>4 DEF LockFails, AfterFailure
<1>5. ASSUME NEW t \in Tasks, Write(t) PROVE LockKept'
  BY <1>5 DEF Write
<1>6. ASSUME NEW t \in Tasks, Leave(t) PROVE LockKept'
  BY <1>6 DEF Leave, AfterFailure, AfterAnswer, Release, Answered
<1>7. ASSUME NEW t \in Tasks, Timeout(t) PROVE LockKept'
  BY <1>7 DEF Timeout
<1>8. ASSUME NEW j \in Jobs, start_job(j) PROVE LockKept'
  BY <1>8 DEF start_job
<1>9. ASSUME NEW j \in Jobs, RunHead(j) PROVE LockKept'
  BY <1>9 DEF RunHead
<1>10. ASSUME NEW j \in Jobs, RunEnd(j) PROVE LockKept'
  BY <1>10 DEF RunEnd
<1>11. ASSUME NEW j \in Jobs, RunShutdown(j) PROVE LockKept'
  BY <1>11 DEF RunShutdown
<1>12. CASE Poll BY <1>12 DEF Poll, Push
<1>13. CASE handle_line BY <1>13 DEF handle_line, Line
<1>14. CASE handle_error_line BY <1>14 DEF handle_error_line, Finishing, Line
<1>15. CASE Raise BY <1>15 DEF Raise
<1>16. CASE cancel BY <1>16 DEF cancel
<1>17. CASE CancelWrite BY <1>17 DEF CancelWrite
<1>18. CASE Open BY <1>18 DEF Open
<1>19. CASE Settle BY <1>19 DEF Settle
<1>20. CASE Close BY <1>20 DEF Close
<1>21. CASE LinkLost BY <1>21 DEF LinkLost
<1>22. CASE UNCHANGED vars BY <1>22 DEF vars
<1>23. CASE handle_ok BY <1>23 DEF handle_ok, Finishing, Line
<1>24. CASE Unsolicited BY <1>24 DEF Unsolicited
<1> QED
  BY <1>1, <1>2, <1>3, <1>4, <1>5, <1>6, <1>7, <1>8, <1>9, <1>10, <1>11, <1>12, <1>13, <1>14, <1>15,
     <1>16, <1>17, <1>18, <1>19, <1>20, <1>21, <1>22, <1>23, <1>24 DEF Next, Step, Run

\* So it is in every reachable state.
LEMMA LockAlways == Spec => []LockKept
<1>1. Init => LockKept
  BY NamesAssumption DEF Init, LockKept, InFlight, Tasks
<1>2. Inv /\ LockKept /\ [Next]_vars => LockKept'
  BY LockStep DEF Inv, QueueInv, TypeOK
<1> QED BY InvAlways, <1>1, <1>2, PTL DEF Spec

\* A task that does nothing, and to which nothing is done, stays in its phase.
LEMMA PhaseSame ==
  ASSUME NEW u \in Tasks, pc'[u] = pc[u], finished_by'[u] = finished_by[u], sent'[u] = sent[u]
  PROVE  Phase(u)' = Phase(u)
BY DEF Phase, Command

\* A step of one task is a step of SingleCommand for this task.
LEMMA SingleMove ==
  ASSUME disorder = "none", disorder' = "none", NEW t \in Tasks, NEW to, Phase(t)' = to,
         \A u \in Tasks \ {t} : Phase(u)' = Phase(u)
  PROVE  Single!Move(t, Phase(t), to)
<1>1. Phases' = [Phases EXCEPT ![t] = to]
  BY DEF Phases
<1>2. Phases[t] = Phase(t)
  BY DEF Phases
<1> QED BY <1>1, <1>2 DEF Single!Move

\* A step that leaves every task in its phase is none of SingleCommand.
LEMMA SingleStutter ==
  ASSUME disorder = "none", disorder' = "none", \A u \in Tasks : Phase(u)' = Phase(u)
  PROVE  UNCHANGED Single!vars
<1>1. Phases' = Phases
  BY DEF Phases
<1> QED BY <1>1 DEF Single!vars

\* A step after which answers may be out of step ends the promise.
LEMMA SingleDistrust ==
  ASSUME disorder' # "none"
  PROVE  Single!Distrust
BY DEF Single!Distrust, Phases

\* Nothing is under way at the start.
LEMMA SingleInit == Init => Single!Init
BY DEF Init, Single!Init, Phases, Phase

\* An answer finishes the front of the queue: the task that waits for it has its own.
LEMMA LineAnswers ==
  ASSUME QueueInv, Ordered, Ordered', disorder = "none", disorder' = "none", Finishing
  PROVE  [Single!Next]_Single!vars
<1> USE DEF QueueInv, TypeOK, PlacesOK
<1>1. UNCHANGED <<pc, sent>> /\ wire # <<>> /\ ~FrontFinished /\ finish_pending(Head(wire))
  BY DEF Finishing, Line, OutOfStep
<1>2. CASE pending_queue = <<>>
  <2>1. \A u \in Tasks : Phase(u)' = Phase(u)
    BY <1>1, <1>2, PhaseSame DEF finish_pending
  <2> QED BY <2>1, SingleStutter
<1>3. CASE pending_queue # <<>>
  <2>a. 1 \in DOMAIN pending_queue
    BY <1>3
  <2>1. PICK t \in Tasks : InFlight(t) /\ pending_queue[1] = Command(t)
    BY <2>a, Zenon DEF QueueOwned
  <2>2. Head(pending_queue)[1] = t
    BY <1>3, <2>1 DEF Command
  <2>3. finished_by[t] = None /\ finished_by' = [finished_by EXCEPT ![t] = Head(wire)]
    BY <1>1, <1>3, <2>2 DEF finish_pending, FrontFinished
  <2>4. Head(wire) \in Answers
    BY <1>1
  <2>5. Head(wire) # None
    BY <2>4, NamesAssumption DEF Answers, Tokens
  <2>6. finished_by'[t] # None /\ pc[t] = "wait" /\ finished_by'[t] = Command(t)'
    BY <1>1, <2>3, <2>5 DEF Ordered, FinishedWaits, OwnAnswer
  <2>7. Phase(t) = "written" /\ Phase(t)' = "answered"
    BY <1>1, <2>3, <2>6 DEF Phase
  <2>8. \A u \in Tasks \ {t} : Phase(u)' = Phase(u)
    BY <1>1, <2>3, PhaseSame
  <2> QED BY <2>7, <2>8, SingleMove DEF Single!Next, Single!Answer
<1> QED BY <1>2, <1>3

\* Every step, while answers are in step, is a step of SingleCommand or none.
LEMMA SingleStep ==
  QueueInv /\ Ordered /\ Ordered' /\ LockKept /\ [Next]_vars /\ disorder = "none" /\ disorder' = "none" => [Single!Next]_Single!vars
<1> SUFFICES ASSUME QueueInv, Ordered, Ordered', LockKept, [Next]_vars, disorder = "none", disorder' = "none"
             PROVE  [Single!Next]_Single!vars
  OBVIOUS
<1> USE NamesAssumption
<1>a. /\ pc \in [Tasks -> Labels] /\ sent \in [Tasks -> Nat] /\ finished_by \in [Tasks -> Commands \cup Tokens]
      /\ Poller \in Tasks /\ Jobs \subseteq Tasks /\ Callers \subseteq Tasks
  BY DEF QueueInv, TypeOK, PlacesOK, Tasks
<1>b. FinishedWaits /\ OwnAnswer
  BY DEF Ordered
<1> USE DEF linkVars, exchangeVars, Goto, JobGoto, OutOfStep
<1>1. ASSUME NEW t \in Tasks, Begin(t) PROVE [Single!Next]_Single!vars
  <2>1. \A u \in Tasks \ {t} : Phase(u)' = Phase(u)
    BY <1>1, <1>a, PhaseSame DEF Begin
  <2>2. Phase(t) = "idle" /\ Phase(t)' = "asked"
    BY <1>1, <1>a DEF Begin, Phase
  <2> QED BY <2>1, <2>2, SingleMove DEF Single!Next, Single!Ask
<1>2. ASSUME NEW t \in Tasks, Gate(t) PROVE [Single!Next]_Single!vars
  <2>1. \A u \in Tasks \ {t} : Phase(u)' = Phase(u)
    BY <1>2, <1>a, PhaseSame DEF Gate
  <2>2. Phase(t) = "asked" /\ Phase(t)' \in {"asked", "idle"}
    BY <1>2, <1>a DEF Gate, Phase, AfterFailure
  <2>3. CASE Phase(t)' = "asked"
    BY <2>1, <2>2, <2>3, SingleStutter
  <2>4. CASE Phase(t)' = "idle"
    BY <2>1, <2>2, <2>4, SingleMove DEF Single!Next, Single!GiveUp
  <2> QED BY <2>2, <2>3, <2>4
<1>3. ASSUME NEW t \in Tasks, Lock(t) PROVE [Single!Next]_Single!vars
  <2>1. \A u \in Tasks \ {t} : Phase(u)' = Phase(u)
    BY <1>3, <1>a, PhaseSame DEF Lock, Push
  <2>2. Phase(t) = "asked" /\ Phase(t)' = "asked"
    BY <1>3, <1>a, <1>b DEF Lock, Push, Phase, FinishedWaits
  <2> QED BY <2>1, <2>2, SingleStutter
<1>4. ASSUME NEW t \in Tasks, LockFails(t) PROVE [Single!Next]_Single!vars
  <2>1. \A u \in Tasks \ {t} : Phase(u)' = Phase(u)
    BY <1>4, <1>a, PhaseSame DEF LockFails
  <2>2. Phase(t) = "asked" /\ Phase(t)' = "idle"
    BY <1>4, <1>a DEF LockFails, Phase, AfterFailure
  <2> QED BY <2>1, <2>2, SingleMove DEF Single!Next, Single!GiveUp
<1>5. ASSUME NEW t \in Tasks, Write(t) PROVE [Single!Next]_Single!vars
  <2>1. \A u \in Tasks \ {t} : Phase(u)' = Phase(u)
    BY <1>5, <1>a, PhaseSame DEF Write
  <2>2. pc[t] = "write" /\ finished_by[t] = None /\ finished_by' = finished_by /\ Phase(t) = "asked"
    BY <1>5, <1>b DEF Write, FinishedWaits, Phase
  <2>3. CASE open
    <3>1. Phase(t)' = "written"
      BY <1>5, <1>a, <2>2, <2>3 DEF Write, Phase
    <3>2. \A u \in Tasks : Phases[u] = "written" => pc[u] = "wait"
      BY DEF Phases, Phase
    <3>3. \A lane \in {Callers \cup Jobs, {Poller}} : t \in lane => \A u \in lane : Phases[u] # "written"
      BY <1>a, <2>2, <3>2 DEF LockKept, InFlight
    <3>4. Single!Write(t)
      BY <2>1, <2>2, <3>1, <3>3, SingleMove DEF Single!Write
    <3> QED BY <3>4 DEF Single!Next
  <2>4. CASE ~open
    <3>1. Phase(t)' = "asked"
      BY <1>5, <1>a, <2>4 DEF Write, Phase
    <3> QED BY <2>1, <2>2, <3>1, SingleStutter
  <2> QED BY <2>3, <2>4
<1>6. ASSUME NEW t \in Tasks, Leave(t) PROVE [Single!Next]_Single!vars
  <2>1. \A u \in Tasks \ {t} : Phase(u)' = Phase(u)
    BY <1>6, <1>a, PhaseSame DEF Leave
  <2>2. Phase(t)' = "idle"
    BY <1>6, <1>a DEF Leave, Phase, AfterFailure, AfterAnswer
  <2>3. CASE pc[t] = "fail"
    <3>1. Phase(t) = "asked"
      BY <2>3 DEF Phase
    <3> QED BY <2>1, <2>2, <3>1, SingleMove DEF Single!Next, Single!GiveUp
  <2>4. CASE Answered(t)
    <3>1. Phase(t) = "answered"
      BY <1>b, <2>4 DEF Phase, Answered, OwnAnswer
    <3> QED BY <2>1, <2>2, <3>1, SingleMove DEF Single!Next, Single!Return
  <2> QED BY <1>6, <2>3, <2>4 DEF Leave
<1>7. ASSUME NEW t \in Tasks, Timeout(t) PROVE [Single!Next]_Single!vars
  BY <1>7 DEF Timeout
<1>8. ASSUME NEW j \in Jobs, start_job(j) PROVE [Single!Next]_Single!vars
  <2>1. \A u \in Tasks \ {j} : Phase(u)' = Phase(u)
    BY <1>8, <1>a, PhaseSame DEF start_job
  <2>2. Phase(j) = "idle" /\ Phase(j)' = "idle"
    BY <1>8, <1>a DEF start_job, Phase
  <2> QED BY <2>1, <2>2, SingleStutter
<1>9. ASSUME NEW j \in Jobs, RunHead(j) PROVE [Single!Next]_Single!vars
  <2>1. \A u \in Tasks \ {j} : Phase(u)' = Phase(u)
    BY <1>9, <1>a, PhaseSame DEF RunHead
  <2>2. Phase(j) = "idle" /\ Phase(j)' \in {"idle", "asked"}
    BY <1>9, <1>a DEF RunHead, Phase
  <2>3. CASE Phase(j)' = "idle"
    BY <2>1, <2>2, <2>3, SingleStutter
  <2>4. CASE Phase(j)' = "asked"
    BY <1>a, <2>1, <2>2, <2>4, SingleMove DEF Single!Next, Single!Ask
  <2> QED BY <2>2, <2>3, <2>4
<1>10. ASSUME NEW j \in Jobs, RunEnd(j) PROVE [Single!Next]_Single!vars
  <2>1. \A u \in Tasks \ {j} : Phase(u)' = Phase(u)
    BY <1>10, <1>a, PhaseSame DEF RunEnd
  <2>2. Phase(j) = "idle" /\ Phase(j)' = "idle"
    BY <1>10, <1>a DEF RunEnd, Phase
  <2> QED BY <2>1, <2>2, SingleStutter
<1>11. ASSUME NEW j \in Jobs, RunShutdown(j) PROVE [Single!Next]_Single!vars
  BY <1>11 DEF RunShutdown
<1>12. CASE Poll
  <2>1. \A u \in Tasks \ {Poller} : Phase(u)' = Phase(u)
    BY <1>12, <1>a, PhaseSame DEF Poll, Push
  <2>2. Phase(Poller) = "idle" /\ Phase(Poller)' = "asked"
    BY <1>12, <1>a, <1>b DEF Poll, Push, Phase, FinishedWaits
  <2> QED BY <1>a, <2>1, <2>2, SingleMove DEF Single!Next, Single!Ask
<1>13. CASE handle_line
  <2>1. \A u \in Tasks : Phase(u)' = Phase(u)
    BY <1>13, PhaseSame DEF handle_line, Line
  <2> QED BY <2>1, SingleStutter
<1>14. CASE handle_error_line BY <1>14, LineAnswers DEF handle_error_line
<1>15. CASE Raise
  <2>1. \A u \in Tasks : Phase(u)' = Phase(u)
    BY <1>15, PhaseSame DEF Raise
  <2> QED BY <2>1, SingleStutter
<1>16. CASE cancel BY <1>16 DEF cancel
<1>17. CASE CancelWrite
  <2>1. \A u \in Tasks : Phase(u)' = Phase(u)
    BY <1>17, PhaseSame DEF CancelWrite
  <2> QED BY <2>1, SingleStutter
<1>18. CASE Open
  <2>1. \A u \in Tasks \ {Poller} : Phase(u)' = Phase(u)
    BY <1>18, <1>a, PhaseSame DEF Open
  <2>2. Phase(Poller) = "idle" /\ Phase(Poller)' = "idle"
    BY <1>18, <1>a DEF Open, Phase
  <2> QED BY <2>1, <2>2, SingleStutter
<1>19. CASE Settle
  <2>1. \A u \in Tasks \ {Poller} : Phase(u)' = Phase(u)
    BY <1>19, <1>a, PhaseSame DEF Settle
  <2>2. Phase(Poller) = "idle" /\ Phase(Poller)' = "idle"
    BY <1>19, <1>a DEF Settle, Phase
  <2> QED BY <2>1, <2>2, SingleStutter
<1>20. CASE Close
  <2>1. \A u \in Tasks \ {Poller} : Phase(u)' = Phase(u)
    BY <1>20, <1>a, PhaseSame DEF Close
  <2>2. Phase(Poller) = "idle" /\ Phase(Poller)' = "idle"
    BY <1>20, <1>a DEF Close, Phase
  <2> QED BY <2>1, <2>2, SingleStutter
<1>21. CASE LinkLost
  <2>1. \A u \in Tasks : Phase(u)' = Phase(u)
    BY <1>21, PhaseSame DEF LinkLost
  <2> QED BY <2>1, SingleStutter
<1>22. CASE UNCHANGED vars
  <2>1. \A u \in Tasks : Phase(u)' = Phase(u)
    BY <1>22, PhaseSame DEF vars
  <2> QED BY <2>1, SingleStutter
<1>23. CASE handle_ok BY <1>23, LineAnswers DEF handle_ok
<1>24. CASE Unsolicited
  <2>1. \A u \in Tasks : Phase(u)' = Phase(u)
    BY <1>24, PhaseSame DEF Unsolicited
  <2> QED BY <2>1, SingleStutter
<1> QED
  BY <1>1, <1>2, <1>3, <1>4, <1>5, <1>6, <1>7, <1>8, <1>9, <1>10, <1>11, <1>12, <1>13, <1>14, <1>15,
     <1>16, <1>17, <1>18, <1>19, <1>20, <1>21, <1>22, <1>23, <1>24 DEF Next, Step, Run

-----------------------------------------------------------------------------
(* What follows.                                                           *)

\* Every variable keeps its type: the queue and the wire hold commands and answers only.
THEOREM TypeCorrect == Spec => []TypeOK
BY InvAlways, PTL DEF Inv, QueueInv

\* For any number of callers and jobs beside the poll, and however they time out, fail to write or are
\* cancelled, the queue holds each command once and none of a task that has left enqueue_and_wait.
THEOREM QueueAlwaysOwned == Spec => []QueueOwned
BY InvAlways, PTL DEF Inv, QueueInv

\* For any number of callers and jobs beside the poll, whatever the device prints before it has
\* announced itself, a command is finished by its own answer as long as nothing timed out, was
\* cancelled or reopened, no task pushed between another's push and its write, no answer found the
\* front of the queue finished already, the banner was over when connect_settle ended and no error
\* line came unasked since.
THEOREM EachItsOwnAnswer == Spec => []OwnAnswer
<1>1. InStep => OwnAnswer
  BY DEF InStep, Ordered, OwnAnswer
<1> QED BY InvAlways, <1>1, PTL DEF Inv

\* A job that is cancelled writes at most the line whose ping_pong it had begun, however many callers
\* there are, if none of them un-cancels the session before.  There is one job: a second run() clears
\* the cancellation of the first (start_job), and the end of either clears job_running for both.
THEOREM LateLineOnce == ASSUME \A i, k \in Jobs : i = k PROVE Spec => []OneLineAfterCancel
<1>1. Init => Late
  BY InvInit DEF Late
<1>2. TypeOK /\ Late /\ [Next]_vars => Late'
  BY GhostStep, LateStep DEF Late, GhostLasts
<1>3. TypeOK /\ Late => OneLineAfterCancel
  BY DEF TypeOK, PlacesOK, Late, LateOnce, OneLineAfterCancel
<1> QED BY TypeCorrect, <1>1, <1>2, <1>3, PTL DEF Spec

\* As long as answers are in step (see EachItsOwnAnswer), every behaviour of callers, jobs, poll, reader
\* and device is one of SingleCommand: one command under cmd_lock and one poll with the device at a time,
\* and every task goes on with the answer to its own command, for any number of callers and jobs.
THEOREM Refinement == Spec => ImplementsSingle
<1>1. Inv /\ Inv' /\ LockKept /\ [Next]_vars => [Single!Next]_Single!vars
  <2> SUFFICES ASSUME Inv, Inv', LockKept, [Next]_vars PROVE [Single!Next]_Single!vars
    OBVIOUS
  <2>1. CASE disorder' # "none"
    BY <2>1, SingleDistrust DEF Single!Next
  <2>2. CASE disorder' = "none"
    <3>1. disorder = "none"
      BY <2>2, GhostStep DEF GhostLasts
    <3> QED BY <2>2, <3>1, SingleStep DEF Inv, InStep
  <2> QED BY <2>1, <2>2
<1>2. ImplementsSingle <=> Single!Init /\ [][Single!Next]_Single!vars
  BY DEF ImplementsSingle, Single!Spec
<1> QED BY InvAlways, LockAlways, SingleInit, <1>1, <1>2, PTL DEF Spec
=============================================================================
