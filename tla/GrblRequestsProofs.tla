------------------------- MODULE GrblRequestsProofs -------------------------
(***************************************************************************)
(* Theorems about GrblRequests for every set of queued and interactive     *)
(* calls, every choice of faults and every bound.                          *)
(***************************************************************************)
EXTENDS GrblRequests, TLAPS

-----------------------------------------------------------------------------
(* The inductive invariant.                                                *)

\* cmd_lock is held by the interactive call that is between its lock and the end of its guard's
\* scope, or by the command loop around its send.
LockHeld ==
    /\ \A i \in Interactive : pc[i] \in {"drain", "publish", "send", "await", "leave"} <=> cmd_lock = i
    /\ cmd_lock = Loop <=> loop_pc = "send"

\* The slot names the interactive call that has published itself and not left yet, or one that was
\* aborted.
SlotHeld ==
    \A i \in Interactive :
        /\ pc[i] \in {"send", "await", "leave"} => interactive_request = i
        /\ interactive_request = i => pc[i] \in {"send", "await", "leave", "aborted"}

\* The current request is the one that the command loop is at work on, or one that was when the loop
\* was aborted.
CurrentHeld ==
    /\ loop_pc \notin {"recv", "gone"} => current_request # None
    /\ loop_pc \in {"recv", "gone"} /\ current_request # None => "abort" \in disorder

\* An aborted call and a command loop that is gone leave their mark.
AbortMarked ==
    /\ \A i \in Interactive : pc[i] = "aborted" => "abort" \in disorder
    /\ loop_pc = "gone" => "abort" \in disorder

SlotInv == TypeOK /\ LockHeld /\ SlotHeld /\ CurrentHeld /\ AbortMarked

\* Where nothing was aborted, both slots name exactly the call that is at work.
SlotExact == \A i \in Interactive : pc[i] \in {"send", "await", "leave"} <=> interactive_request = i
CurrentExact == loop_pc # "gone" /\ (current_request # None <=> loop_pc # "recv")

InFlight(c) == (\E k \in 1 .. Len(wire) : wire[k] = c) \/ (\E k \in 1 .. Len(parsed) : parsed[k] = c)
NothingInFlight == wire = <<>> /\ parsed = <<>>
\* c's answer is the next to be handled
ComesNext(c) == IF parsed = <<>> THEN wire # <<>> /\ wire[1] = c ELSE parsed[1] = c

\* As long as answers cannot be out of step:
\* what is counted is what the device has still to answer, and a closed link carries nothing;
Counted == IF open THEN pending = wire ELSE wire = <<>>

\* an interactive call has the wire to itself from the end of its drain on, and its answer
\* finishes it;
AskAlone ==
    \A i \in Interactive :
        /\ pc[i] \in {"idle", "lock", "drain", "publish", "send"} => finished_by[i] = None
        /\ pc[i] = "publish" => wire = <<>>
        /\ pc[i] \in {"send", "leave"} => NothingInFlight
        /\ pc[i] = "await" => /\ \A c \in Sent : InFlight(c) => c = i
                              /\ Len(wire) + Len(parsed) <= 1
                              /\ finished_by[i] # None => NothingInFlight

\* an interactive command is in flight only while its call waits for it;
AskWaits == \A i \in Interactive : InFlight(i) => pc[i] = "await"

\* and the current request is the next to be answered, once it is sent and until it is finished,
\* unless the link took its answer away.
CurrentNext ==
    /\ loop_pc = "lock" => \A c \in Sent : InFlight(c) => c \in Interactive
    /\ loop_pc = "send" => NothingInFlight
    /\ loop_pc \in {"wait", "clear"} /\ finished_by[current_request] = None =>
        \/ ComesNext(current_request)
        \/ ~open /\ \A c \in Sent : InFlight(c) => c \in Interactive

Ordered == cancel_pc = "idle" /\ Counted /\ AskAlone /\ AskWaits /\ CurrentNext /\ OwnAnswer
InStep == disorder = {} => Ordered

Inv == SlotInv /\ InStep

-----------------------------------------------------------------------------
(* Queues.                                                                 *)

\* What appending to a queue does: one longer, the old elements in place.
LEMMA AppendLast ==
  ASSUME NEW S, NEW s \in Seq(S), NEW e \in S
  PROVE  /\ Append(s, e) \in Seq(S) /\ Len(Append(s, e)) = Len(s) + 1
         /\ Append(s, e) # <<>> /\ Append(s, e)[Len(s) + 1] = e
         /\ \A k \in 1 .. Len(s) : Append(s, e)[k] = s[k]
OBVIOUS

\* What is in a queue after an append: the new element, or an old one in its place.
LEMMA AppendElement ==
  ASSUME NEW S, NEW s \in Seq(S), NEW e \in S
  PROVE  \A k \in 1 .. Len(Append(s, e)) : Append(s, e)[k] = e \/ (k \in 1 .. Len(s) /\ Append(s, e)[k] = s[k])
<1> DEFINE t == Append(s, e)
<1>1. Len(t) = Len(s) + 1 /\ t[Len(s) + 1] = e /\ \A k \in 1 .. Len(s) : t[k] = s[k]
  BY AppendLast
<1>2. Len(s) \in Nat
  OBVIOUS
<1> HIDE DEF t
<1>3. ASSUME NEW k \in 1 .. Len(t) PROVE t[k] = e \/ (k \in 1 .. Len(s) /\ t[k] = s[k])
  <2>1. CASE k = Len(s) + 1
    BY <1>1, <1>2, <2>1
  <2>2. CASE k \in 1 .. Len(s)
    BY <1>1, <2>2
  <2> QED BY <1>1, <1>2, <2>1, <2>2
<1> QED BY <1>3 DEF t

\* What taking the front does: the others move up by one.
LEMMA TailMoves ==
  ASSUME NEW S, NEW s \in Seq(S), s # <<>>
  PROVE  /\ Head(s) = s[1] /\ Head(s) \in S /\ Tail(s) \in Seq(S)
         /\ Len(s) \in Nat \ {0} /\ Len(Tail(s)) = Len(s) - 1
         /\ \A k \in 1 .. Len(s) - 1 : Tail(s)[k] = s[k + 1]
OBVIOUS

\* A queue cut after its n-th element.
LEMMA Cut ==
  ASSUME NEW S, NEW s \in Seq(S), NEW n \in 1 .. Len(s)
  PROVE  /\ SubSeq(s, 1, n) \in Seq(S) /\ Len(SubSeq(s, 1, n)) = n
         /\ \A k \in 1 .. n : SubSeq(s, 1, n)[k] = s[k]
         /\ SubSeq(s, n + 1, Len(s)) \in Seq(S) /\ Len(SubSeq(s, n + 1, Len(s))) = Len(s) - n
         /\ \A k \in 1 .. Len(s) - n : SubSeq(s, n + 1, Len(s))[k] = s[n + k]
OBVIOUS

-----------------------------------------------------------------------------
(* The slots and the lock.                                                 *)

\* Before the first call nothing is asked, held or sent.
LEMMA InvInit == Init => Inv
<1> SUFFICES ASSUME Init PROVE Inv
  OBVIOUS
<1> USE NamesAssumption, BoundsAssumption
<1>1. FlagsOK
  BY Zenon DEF Init, FlagsOK
<1>2. PlacesOK
  BY DEF Init, PlacesOK
<1>3. LockHeld /\ SlotHeld /\ CurrentHeld /\ AbortMarked
  BY DEF Init, LockHeld, SlotHeld, CurrentHeld, AbortMarked, Requests
<1>4. InStep
  BY DEF Init, InStep, Ordered, Counted, AskAlone, AskWaits, CurrentNext, OwnAnswer, InFlight, Requests
<1> QED BY <1>1, <1>2, <1>3, <1>4 DEF Inv, SlotInv, TypeOK

\* Every step keeps the flags Boolean.
LEMMA FlagsStep == FlagsOK /\ [Next]_vars => FlagsOK'
<1> SUFFICES ASSUME FlagsOK, [Next]_vars PROVE FlagsOK'
  OBVIOUS
<1> USE DEF FlagsOK
<1>1. ASSUME NEW q \in Queued, execute_command(q) PROVE FlagsOK' BY <1>1, Zenon DEF execute_command
<1>2. ASSUME NEW q \in Queued, Return(q) PROVE FlagsOK' BY <1>2, Zenon DEF Return
<1>3. ASSUME NEW q \in Queued, QueuedTimeout(q) PROVE FlagsOK' BY <1>3, Zenon DEF QueuedTimeout
<1>4. ASSUME NEW i \in Interactive, Ask(i) PROVE FlagsOK' BY <1>4, Zenon DEF Ask
<1>5. ASSUME NEW i \in Interactive, Lock(i) PROVE FlagsOK' BY <1>5, Zenon DEF Lock
<1>6. ASSUME NEW i \in Interactive, Drain(i) PROVE FlagsOK' BY <1>6, Zenon DEF Drain
<1>7. ASSUME NEW i \in Interactive, Publish(i) PROVE FlagsOK' BY <1>7, Zenon DEF Publish
<1>8. ASSUME NEW i \in Interactive, AskSend(i) PROVE FlagsOK' BY <1>8, Zenon DEF AskSend
<1>9. ASSUME NEW i \in Interactive, AskWait(i) PROVE FlagsOK' BY <1>9, Zenon DEF AskWait
<1>10. ASSUME NEW i \in Interactive, Leave(i) PROVE FlagsOK' BY <1>10, Zenon DEF Leave
<1>11. CASE LoopLock BY <1>11, Zenon DEF LoopLock
<1>12. CASE LoopTake BY <1>12, Zenon DEF LoopTake
<1>13. CASE LoopSend BY <1>13, Zenon DEF LoopSend
<1>14. CASE LoopWait BY <1>14, Zenon DEF LoopWait
<1>15. CASE LoopClear BY <1>15, Zenon DEF LoopClear
<1>16. CASE parse_incoming BY <1>16, Zenon DEF parse_incoming
<1>17. CASE handle_ok BY <1>17, Zenon DEF handle_ok
<1>18. CASE start_job BY <1>18, Zenon DEF start_job
<1>19. CASE send_gcode_line BY <1>19, Zenon DEF send_gcode_line
<1>20. CASE JobEnd BY <1>20, Zenon DEF JobEnd
<1>21. CASE CancelFlags BY <1>21, Zenon DEF CancelFlags
<1>22. CASE CancelReset BY <1>22, Zenon DEF CancelReset
<1>23. CASE CancelDrain BY <1>23, Zenon DEF CancelDrain
<1>24. CASE CancelSafety BY <1>24, Zenon DEF CancelSafety
<1>25. CASE LinkLost BY <1>25, Zenon DEF LinkLost
<1>26. CASE UNCHANGED vars BY <1>26 DEF vars
<1>27. CASE Open BY <1>27, Zenon DEF Open
<1>28. ASSUME NEW d \in Interactive \cup {None}, connect(d) \/ cleanup(d) PROVE FlagsOK'
  BY <1>28, Zenon DEF connect, cleanup, Abort
<1> QED
  BY <1>1, <1>2, <1>3, <1>4, <1>5, <1>6, <1>7, <1>8, <1>9, <1>10, <1>11, <1>12, <1>13, <1>14, <1>15, <1>16,
     <1>17, <1>18, <1>19, <1>20, <1>21, <1>22, <1>23, <1>24, <1>25, <1>26, <1>27, <1>28 DEF Next, LoopStep, AskStep,
     CancelStep, Reader

\* Every step keeps every other variable in its type.
LEMMA PlacesStep == SlotInv /\ [Next]_vars => PlacesOK'
<1> SUFFICES ASSUME SlotInv, [Next]_vars PROVE PlacesOK'
  OBVIOUS
<1> USE NamesAssumption, BoundsAssumption
<1> USE DEF SlotInv, CurrentHeld, TypeOK, PlacesOK, slots, queue, traffic, bounds, Goto, Finish, Send,
        Disorder, Requests, Sent, Endings
<1>1. ASSUME NEW q \in Queued, execute_command(q) PROVE PlacesOK'
  <2>1. Append(channel, q) \in Seq(Queued)
    BY AppendLast
  <2>2. channel' \in Seq(Queued) /\ queued_requests' \in SUBSET Queued
    BY <1>1, <2>1 DEF execute_command
  <2>3. pc' \in [Requests -> {"idle", "wait", "lock", "drain", "publish", "send", "await", "leave", "done", "aborted"}]
    BY <1>1 DEF execute_command
  <2> QED BY <1>1, <2>2, <2>3 DEF execute_command
<1>2. ASSUME NEW q \in Queued, Return(q) PROVE PlacesOK' BY <1>2 DEF Return
<1>3. ASSUME NEW q \in Queued, QueuedTimeout(q) PROVE PlacesOK' BY <1>3 DEF QueuedTimeout
<1>4. ASSUME NEW i \in Interactive, Ask(i) PROVE PlacesOK' BY <1>4 DEF Ask
<1>5. ASSUME NEW i \in Interactive, Lock(i) PROVE PlacesOK' BY <1>5 DEF Lock
<1>6. ASSUME NEW i \in Interactive, Drain(i) PROVE PlacesOK' BY <1>6 DEF Drain
<1>7. ASSUME NEW i \in Interactive, Publish(i) PROVE PlacesOK' BY <1>7 DEF Publish
<1>8. ASSUME NEW i \in Interactive, AskSend(i) PROVE PlacesOK'
  <2>1. i \in Sent /\ Append(pending, i) \in Seq(Sent) /\ Append(wire, i) \in Seq(Sent)
    BY AppendLast
  <2> QED BY <1>8, <2>1 DEF AskSend
<1>9. ASSUME NEW i \in Interactive, AskWait(i) PROVE PlacesOK' BY <1>9 DEF AskWait
<1>10. ASSUME NEW i \in Interactive, Leave(i) PROVE PlacesOK' BY <1>10 DEF Leave
<1>11. CASE LoopLock BY <1>11 DEF LoopLock
<1>12. CASE LoopTake
  <2>1. Head(channel) \in Queued /\ Tail(channel) \in Seq(Queued)
    BY <1>12, TailMoves DEF LoopTake
  <2>2. finished_by' \in [Requests -> Sent \cup Endings \cup {None}]
    BY <1>12, <2>1 DEF LoopTake
  <2> QED BY <1>12, <2>1, <2>2 DEF LoopTake
<1>13. CASE LoopSend
  <2>1. current_request \in Sent
    BY <1>13 DEF LoopSend
  <2>2. Append(pending, current_request) \in Seq(Sent) /\ Append(wire, current_request) \in Seq(Sent)
    BY <2>1, AppendLast
  <2> QED BY <1>13, <2>2 DEF LoopSend
<1>14. CASE LoopWait BY <1>14 DEF LoopWait
<1>15. CASE LoopClear BY <1>15 DEF LoopClear
<1>16. CASE parse_incoming BY <1>16 DEF parse_incoming
<1>17. CASE handle_ok
  <2>1. Head(parsed) \in Sent /\ parsed' \in Seq(Sent)
    BY <1>17, TailMoves DEF handle_ok
  <2>2. finished_by' \in [Requests -> Sent \cup Endings \cup {None}]
    BY <1>17, <2>1 DEF handle_ok
  <2> QED BY <1>17, <2>1, <2>2 DEF handle_ok
<1>18. CASE start_job BY <1>18 DEF start_job
<1>19. CASE send_gcode_line BY <1>19 DEF send_gcode_line
<1>20. CASE JobEnd BY <1>20 DEF JobEnd
<1>21. CASE CancelFlags BY <1>21 DEF CancelFlags
<1>22. CASE CancelReset BY <1>22 DEF CancelReset
<1>23. CASE CancelDrain BY <1>23 DEF CancelDrain
<1>24. CASE CancelSafety
  <2>1. Append(pending, Safety) \in Seq(Sent) /\ Append(wire, Safety) \in Seq(Sent)
    BY AppendLast
  <2> QED BY <1>24, <2>1 DEF CancelSafety
<1>25. CASE LinkLost BY <1>25 DEF LinkLost
<1>26. CASE UNCHANGED vars BY <1>26 DEF vars
<1>27. CASE Open BY <1>27 DEF Open
<1>28. ASSUME NEW d \in Interactive \cup {None}, connect(d) \/ cleanup(d) PROVE PlacesOK'
  <2>1. channel' = <<>> /\ pending' = <<>> /\ wire' = <<>> /\ parsed' = parsed
    BY <1>28 DEF connect, cleanup, Abort
  <2>2. channel' \in Seq(Queued) /\ pending' \in Seq(Sent) /\ wire' \in Seq(Sent)
    BY <2>1
  <2>3. pc' \in [Requests -> {"idle", "wait", "lock", "drain", "publish", "send", "await", "leave", "done", "aborted"}]
    BY <1>28 DEF connect, cleanup, Abort
  <2>4. cmd_lock' \in Interactive \cup {Loop, None}
    BY <1>28 DEF connect, cleanup, Abort
  <2> QED BY <1>28, <2>1, <2>2, <2>3, <2>4 DEF connect, cleanup, Abort
<1> QED
  BY <1>1, <1>2, <1>3, <1>4, <1>5, <1>6, <1>7, <1>8, <1>9, <1>10, <1>11, <1>12, <1>13, <1>14, <1>15, <1>16,
     <1>17, <1>18, <1>19, <1>20, <1>21, <1>22, <1>23, <1>24, <1>25, <1>26, <1>27, <1>28 DEF Next, LoopStep, AskStep,
     CancelStep, Reader

\* Every step keeps the lock with its holder and the slots with the calls they name.
LEMMA SlotStep == SlotInv /\ [Next]_vars => LockHeld' /\ SlotHeld' /\ CurrentHeld' /\ AbortMarked'
<1> SUFFICES ASSUME SlotInv, [Next]_vars PROVE LockHeld' /\ SlotHeld' /\ CurrentHeld' /\ AbortMarked'
  OBVIOUS
<1> USE NamesAssumption
<1> USE DEF SlotInv, CurrentHeld, AbortMarked, Disorder, TypeOK, PlacesOK, LockHeld, SlotHeld, slots, queue, bounds, Goto, Requests
<1>1. ASSUME NEW q \in Queued, execute_command(q) PROVE LockHeld' /\ SlotHeld' /\ CurrentHeld' /\ AbortMarked'
  BY <1>1 DEF execute_command
<1>2. ASSUME NEW q \in Queued, Return(q) PROVE LockHeld' /\ SlotHeld' /\ CurrentHeld' /\ AbortMarked'
  BY <1>2 DEF Return
<1>3. ASSUME NEW q \in Queued, QueuedTimeout(q) PROVE LockHeld' /\ SlotHeld' /\ CurrentHeld' /\ AbortMarked'
  BY <1>3 DEF QueuedTimeout
<1>4. ASSUME NEW i \in Interactive, Ask(i) PROVE LockHeld' /\ SlotHeld' /\ CurrentHeld' /\ AbortMarked'
  BY <1>4 DEF Ask
<1>5. ASSUME NEW i \in Interactive, Lock(i) PROVE LockHeld' /\ SlotHeld' /\ CurrentHeld' /\ AbortMarked'
  BY <1>5 DEF Lock
<1>6. ASSUME NEW i \in Interactive, Drain(i) PROVE LockHeld' /\ SlotHeld' /\ CurrentHeld' /\ AbortMarked'
  BY <1>6 DEF Drain
<1>7. ASSUME NEW i \in Interactive, Publish(i) PROVE LockHeld' /\ SlotHeld' /\ CurrentHeld' /\ AbortMarked'
  BY <1>7 DEF Publish
<1>8. ASSUME NEW i \in Interactive, AskSend(i) PROVE LockHeld' /\ SlotHeld' /\ CurrentHeld' /\ AbortMarked'
  BY <1>8 DEF AskSend
<1>9. ASSUME NEW i \in Interactive, AskWait(i) PROVE LockHeld' /\ SlotHeld' /\ CurrentHeld' /\ AbortMarked'
  BY <1>9 DEF AskWait
<1>10. ASSUME NEW i \in Interactive, Leave(i) PROVE LockHeld' /\ SlotHeld' /\ CurrentHeld' /\ AbortMarked'
  BY <1>10 DEF Leave
<1>11. CASE LoopLock BY <1>11 DEF LoopLock
<1>12. CASE LoopTake BY <1>12 DEF LoopTake
<1>13. CASE LoopSend BY <1>13 DEF LoopSend
<1>14. CASE LoopWait BY <1>14 DEF LoopWait
<1>15. CASE LoopClear BY <1>15 DEF LoopClear
<1>16. CASE parse_incoming BY <1>16 DEF parse_incoming
<1>17. CASE handle_ok BY <1>17 DEF handle_ok
<1>18. CASE start_job BY <1>18 DEF start_job
<1>19. CASE send_gcode_line BY <1>19 DEF send_gcode_line
<1>20. CASE JobEnd BY <1>20 DEF JobEnd
<1>21. CASE CancelFlags BY <1>21 DEF CancelFlags
<1>22. CASE CancelReset BY <1>22 DEF CancelReset
<1>23. CASE CancelDrain BY <1>23 DEF CancelDrain
<1>24. CASE CancelSafety BY <1>24 DEF CancelSafety
<1>25. CASE LinkLost BY <1>25 DEF LinkLost
<1>26. CASE UNCHANGED vars BY <1>26 DEF vars
<1>27. CASE Open BY <1>27 DEF Open
<1>28. ASSUME NEW d \in Interactive \cup {None}, connect(d) \/ cleanup(d) PROVE LockHeld' /\ SlotHeld' /\ CurrentHeld' /\ AbortMarked'
  BY <1>28 DEF connect, cleanup, Abort
<1> QED
  BY <1>1, <1>2, <1>3, <1>4, <1>5, <1>6, <1>7, <1>8, <1>9, <1>10, <1>11, <1>12, <1>13, <1>14, <1>15, <1>16,
     <1>17, <1>18, <1>19, <1>20, <1>21, <1>22, <1>23, <1>24, <1>25, <1>26, <1>27, <1>28 DEF Next, LoopStep, AskStep,
     CancelStep, Reader

-----------------------------------------------------------------------------
(* Answers in step.                                                        *)

\* The ghost only grows: what is in step now has always been.
LEMMA InStepBefore == [Next]_vars /\ disorder' = {} => disorder = {}
<1> SUFFICES ASSUME [Next]_vars, disorder' = {} PROVE disorder = {}
  OBVIOUS
<1> USE DEF Disorder
<1>1. ASSUME NEW q \in Queued, execute_command(q) PROVE disorder = {} BY <1>1 DEF execute_command
<1>2. ASSUME NEW q \in Queued, Return(q) PROVE disorder = {} BY <1>2 DEF Return
<1>3. ASSUME NEW q \in Queued, QueuedTimeout(q) PROVE disorder = {} BY <1>3 DEF QueuedTimeout
<1>4. ASSUME NEW i \in Interactive, Ask(i) PROVE disorder = {} BY <1>4 DEF Ask
<1>5. ASSUME NEW i \in Interactive, Lock(i) PROVE disorder = {} BY <1>5 DEF Lock
<1>6. ASSUME NEW i \in Interactive, Drain(i) PROVE disorder = {} BY <1>6 DEF Drain
<1>7. ASSUME NEW i \in Interactive, Publish(i) PROVE disorder = {} BY <1>7 DEF Publish
<1>8. ASSUME NEW i \in Interactive, AskSend(i) PROVE disorder = {} BY <1>8 DEF AskSend
<1>9. ASSUME NEW i \in Interactive, AskWait(i) PROVE disorder = {} BY <1>9 DEF AskWait
<1>10. ASSUME NEW i \in Interactive, Leave(i) PROVE disorder = {} BY <1>10 DEF Leave
<1>11. CASE LoopLock BY <1>11 DEF LoopLock
<1>12. CASE LoopTake BY <1>12 DEF LoopTake
<1>13. CASE LoopSend BY <1>13 DEF LoopSend
<1>14. CASE LoopWait BY <1>14 DEF LoopWait
<1>15. CASE LoopClear BY <1>15 DEF LoopClear
<1>16. CASE parse_incoming BY <1>16 DEF parse_incoming
<1>17. CASE handle_ok BY <1>17 DEF handle_ok
<1>18. CASE start_job BY <1>18 DEF start_job
<1>19. CASE send_gcode_line BY <1>19 DEF send_gcode_line
<1>20. CASE JobEnd BY <1>20 DEF JobEnd
<1>21. CASE CancelFlags BY <1>21 DEF CancelFlags
<1>22. CASE CancelReset BY <1>22 DEF CancelReset
<1>23. CASE CancelDrain BY <1>23 DEF CancelDrain
<1>24. CASE CancelSafety BY <1>24 DEF CancelSafety
<1>25. CASE LinkLost BY <1>25 DEF LinkLost
<1>26. CASE UNCHANGED vars BY <1>26 DEF vars
<1>27. CASE Open BY <1>27 DEF Open
<1>28. ASSUME NEW d \in Interactive \cup {None}, connect(d) \/ cleanup(d) PROVE disorder = {}
  BY <1>28 DEF connect, cleanup, Abort
<1> QED
  BY <1>1, <1>2, <1>3, <1>4, <1>5, <1>6, <1>7, <1>8, <1>9, <1>10, <1>11, <1>12, <1>13, <1>14, <1>15, <1>16,
     <1>17, <1>18, <1>19, <1>20, <1>21, <1>22, <1>23, <1>24, <1>25, <1>26, <1>27, <1>28 DEF Next, LoopStep, AskStep,
     CancelStep, Reader

\* An abort, and a link opened again, leave their mark.
LEMMA AbortMarks == Open \/ (\E d \in Interactive \cup {None} : connect(d) \/ cleanup(d)) => disorder' # {}
BY DEF Open, connect, cleanup, Abort, Disorder

\* As long as answers are in step nothing was aborted.
LEMMA Exact == SlotInv /\ disorder = {} => SlotExact /\ CurrentExact
BY DEF SlotInv, SlotHeld, CurrentHeld, AbortMarked, SlotExact, CurrentExact

\* If no command is in flight, the wire and the answers are empty.
LEMMA NoneInFlight == PlacesOK /\ (\A c \in Sent : ~InFlight(c)) => NothingInFlight
<1> SUFFICES ASSUME PlacesOK, \A c \in Sent : ~InFlight(c) PROVE NothingInFlight
  OBVIOUS
<1>1. wire = <<>>
  <2> SUFFICES ASSUME wire # <<>> PROVE FALSE
    OBVIOUS
  <2>1. 1 \in 1 .. Len(wire) /\ wire[1] \in Sent
    BY TailMoves DEF PlacesOK
  <2> QED BY <2>1 DEF InFlight
<1>2. parsed = <<>>
  <2> SUFFICES ASSUME parsed # <<>> PROVE FALSE
    OBVIOUS
  <2>1. 1 \in 1 .. Len(parsed) /\ parsed[1] \in Sent
    BY TailMoves DEF PlacesOK
  <2> QED BY <2>1 DEF InFlight
<1> QED BY <1>1, <1>2 DEF NothingInFlight

\* What is underway when the loop takes a request.
LEMMA UnderwayMeans == PlacesOK /\ ~Underway => \A c \in Sent : InFlight(c) => c \in Interactive
<1> SUFFICES ASSUME PlacesOK, ~Underway, NEW c \in Sent, InFlight(c) PROVE c \in Interactive
  OBVIOUS
<1>1. DOMAIN wire = 1 .. Len(wire) /\ DOMAIN parsed = 1 .. Len(parsed)
  BY DEF PlacesOK
<1>2. c \in ToSet(wire) \cup ToSet(parsed)
  BY <1>1 DEF InFlight, ToSet
<1> QED BY <1>2 DEF Underway

\* Every step after which answers are still in step keeps them so.
LEMMA OrderStep == SlotInv /\ SlotInv' /\ Ordered /\ [Next]_vars /\ disorder = {} /\ disorder' = {} => Ordered'
<1> SUFFICES ASSUME SlotInv, SlotInv', Ordered, [Next]_vars, disorder = {}, disorder' = {} PROVE Ordered'
  OBVIOUS
<1> USE NamesAssumption
<1>0. SlotExact /\ CurrentExact /\ SlotExact' /\ CurrentExact'
  BY DEF SlotInv, SlotHeld, CurrentHeld, AbortMarked, SlotExact, CurrentExact
<1> USE <1>0
<1> USE DEF SlotInv, CurrentExact, TypeOK, PlacesOK, LockHeld, SlotExact, slots, queue, traffic, bounds,
        Goto, Requests, Finish, Disorder,
            Ordered, Counted, AskAlone, AskWaits, CurrentNext, OwnAnswer, NothingInFlight, InFlight, ComesNext
<1>1. ASSUME NEW q \in Queued, execute_command(q) PROVE Ordered' BY <1>1 DEF execute_command
<1>2. ASSUME NEW q \in Queued, Return(q) PROVE Ordered' BY <1>2 DEF Return
<1>3. ASSUME NEW q \in Queued, QueuedTimeout(q) PROVE Ordered' BY <1>3 DEF QueuedTimeout
<1>4. ASSUME NEW i \in Interactive, Ask(i) PROVE Ordered' BY <1>4 DEF Ask
<1>5. ASSUME NEW i \in Interactive, Lock(i) PROVE Ordered' BY <1>5 DEF Lock
<1>6. ASSUME NEW i \in Interactive, Drain(i) PROVE Ordered' BY <1>6 DEF Drain
<1>7. ASSUME NEW i \in Interactive, Publish(i) PROVE Ordered' BY <1>7 DEF Publish
<1>8. ASSUME NEW i \in Interactive, AskSend(i) PROVE Ordered'
  <2>1. pc[i] = "send" /\ cmd_lock = i /\ wire = <<>> /\ parsed = <<>> /\ parsed' = <<>> /\ finished_by[i] = None
    BY <1>8 DEF AskSend, Send
  <2>2. CASE open
    <3>1. pending' = Append(wire, i) /\ wire' = Append(wire, i) /\ pc' = [pc EXCEPT ![i] = "await"]
      BY <1>8, <2>2 DEF AskSend, Send
    <3>2. Len(wire') = 1 /\ wire' = <<i>> /\ \A c : InFlight(c)' <=> c = i
      BY <2>1, <3>1
    <3>3. AskAlone' /\ AskWaits'
      BY <1>8, <2>1, <3>1, <3>2 DEF AskSend
    <3>4. CurrentNext'
      BY <1>8, <2>1, <2>2, <3>1, <3>2 DEF AskSend
    <3>5. Counted' /\ cancel_pc' = "idle" /\ OwnAnswer'
      BY <1>8, <2>2, <3>1 DEF AskSend
    <3> QED BY <3>3, <3>4, <3>5
  <2>3. CASE ~open
    BY <1>8, <2>1, <2>3 DEF AskSend
  <2> QED BY <2>2, <2>3
<1>9. ASSUME NEW i \in Interactive, AskWait(i) PROVE Ordered' BY <1>9 DEF AskWait
<1>10. ASSUME NEW i \in Interactive, Leave(i) PROVE Ordered' BY <1>10 DEF Leave
<1>11. CASE LoopLock
  <2>1. \A c \in Sent : ~InFlight(c)
    BY <1>11 DEF LoopLock, Sent
  <2>2. NothingInFlight
    BY <2>1, NoneInFlight
  <2> QED BY <1>11, <2>2 DEF LoopLock
<1>12. CASE LoopTake
  <2>1. Head(channel) \in Queued
    BY <1>12, TailMoves DEF LoopTake
  <2>2. CASE ~open \/ is_cancelled
    <3>1. /\ loop_pc = "recv" /\ UNCHANGED <<pc, loop_pc, traffic, open, pending, cancel_pc>>
          /\ finished_by' = [finished_by EXCEPT ![Head(channel)] = IF @ = None THEN Dropped ELSE @]
      BY <1>12, <2>2 DEF LoopTake
    <3>2. OwnAnswer' /\ \A i \in Interactive : finished_by'[i] = finished_by[i]
      BY <2>1, <3>1
    <3> QED BY <3>1, <3>2
  <2>3. CASE ~(~open \/ is_cancelled)
    <3>1. ~Underway
      BY <1>12, <2>3 DEF LoopTake
    <3>2. \A c \in Sent : InFlight(c) => c \in Interactive
      BY <3>1, UnderwayMeans
    <3> QED BY <1>12, <2>1, <2>3, <3>2 DEF LoopTake
  <2> QED BY <2>2, <2>3
<1>13. CASE LoopSend
  <2>1. cmd_lock = Loop /\ wire = <<>> /\ parsed = <<>> /\ parsed' = <<>> /\ current_request \in Queued
    BY <1>13 DEF LoopSend, Send
  <2>2. CASE open
    <3>1. pending' = Append(wire, current_request) /\ wire' = Append(wire, current_request) /\ loop_pc' = "wait"
      BY <1>13, <2>2 DEF LoopSend, Send
    <3>2. wire' = <<current_request>> /\ \A c : InFlight(c)' <=> c = current_request
      BY <2>1, <3>1
    <3>3. AskAlone' /\ AskWaits'
      BY <1>13, <2>1, <3>2 DEF LoopSend
    <3>4. CurrentNext' /\ Counted' /\ cancel_pc' = "idle" /\ OwnAnswer'
      BY <1>13, <2>1, <2>2, <3>1, <3>2 DEF LoopSend
    <3> QED BY <3>3, <3>4
  <2>3. CASE ~open
    BY <1>13, <2>1, <2>3 DEF LoopSend
  <2> QED BY <2>2, <2>3
<1>14. CASE LoopWait BY <1>14 DEF LoopWait
<1>15. CASE LoopClear BY <1>15 DEF LoopClear
<1>16. CASE parse_incoming
  <2>1. PICK n \in 1 .. Len(wire) :
          /\ parsed' = SubSeq(wire, 1, n) /\ wire' = SubSeq(wire, n + 1, Len(wire))
          /\ pending' = SubSeq(pending, n + 1, Len(pending))
    BY <1>16 DEF parse_incoming
  <2>2. parsed = <<>> /\ open /\ pending = wire /\ wire # <<>> /\ n \in Nat
    BY <1>16 DEF parse_incoming
  <2>3. /\ Len(parsed') = n /\ Len(wire') = Len(wire) - n
        /\ \A k \in 1 .. n : parsed'[k] = wire[k]
        /\ \A k \in 1 .. Len(wire) - n : wire'[k] = wire[n + k]
    BY <2>1, Cut
  <2>4. \A c : InFlight(c)' => InFlight(c)
    BY <2>1, <2>2, <2>3
  <2>5. parsed' # <<>> /\ parsed'[1] = wire[1] /\ Len(wire') + Len(parsed') = Len(wire) + Len(parsed)
    <3>1. parsed' # <<>>
      BY <2>2, <2>3
    <3>2. parsed'[1] = wire[1]
      BY <2>2, <2>3
    <3>3. Len(parsed) = 0 /\ Len(wire) \in Nat
      BY <2>2
    <3> QED BY <2>2, <2>3, <3>1, <3>2, <3>3
  <2>6. pending' = wire'
    BY <2>1, <2>2
  <2> HIDE DEF InFlight
  <2>7. AskAlone'
    BY <1>16, <2>2, <2>4, <2>5 DEF parse_incoming
  <2>8. AskWaits' /\ CurrentNext'
    BY <1>16, <2>2, <2>4, <2>5 DEF parse_incoming
  <2> QED BY <1>16, <2>2, <2>6, <2>7, <2>8 DEF parse_incoming
<1>17. CASE handle_ok
  <2>1. /\ Head(parsed) = parsed[1] /\ Len(parsed') = Len(parsed) - 1 /\ Len(parsed) \in Nat \ {0}
        /\ parsed[1] \in Sent /\ \A k \in 1 .. Len(parsed) - 1 : parsed'[k] = parsed[k + 1]
    BY <1>17, TailMoves DEF handle_ok
  <2>2. InFlight(parsed[1]) /\ \A c : InFlight(c)' => InFlight(c)
    BY <1>17, <2>1 DEF handle_ok
  <2> HIDE DEF InFlight
  <2>3. CASE interactive_request # None
    <3>1. PICK i \in Interactive : i = interactive_request
      BY <2>3
    <3>2. pc[i] = "await" /\ parsed[1] = i /\ Len(parsed) = 1 /\ Len(wire) = 0 /\ cmd_lock = i
      BY <1>17, <2>1, <2>2, <3>1 DEF handle_ok
    <3>3. wire' = <<>> /\ parsed' = <<>>
      BY <1>17, <2>1, <3>2 DEF handle_ok
    <3>4. finished_by' = [finished_by EXCEPT ![i] = IF @ = None THEN i ELSE @]
      BY <1>17, <2>1, <3>1, <3>2 DEF handle_ok
    <3>5. \A c : ~InFlight(c)'
      BY <3>3 DEF InFlight
    <3>6. AskAlone' /\ AskWaits'
      <4>1. UNCHANGED pc /\ \A j \in Interactive \ {i} : finished_by'[j] = finished_by[j]
        BY <1>17, <3>4 DEF handle_ok
      <4>2. \A j \in Interactive \ {i} : pc[j] \notin {"publish", "send", "await", "leave"}
        BY <3>2
      <4> QED BY <3>2, <3>3, <3>5, <4>1, <4>2
    <3>7. CurrentNext'
      BY <1>17, <2>1, <2>2, <3>2, <3>3, <3>4, <3>5 DEF handle_ok
    <3>8. OwnAnswer'
      BY <3>4
    <3> QED BY <1>17, <3>3, <3>6, <3>7, <3>8 DEF handle_ok
  <2>4. CASE interactive_request = None /\ current_request # None
    <3>1. current_request \in Queued /\ loop_pc \in {"lock", "send", "wait", "clear"}
      BY <2>4
    <3>2. parsed[1] \notin Interactive
      BY <2>2, <2>4
    <3>3. loop_pc \in {"wait", "clear"}
      BY <1>17, <2>1, <2>2, <3>1, <3>2 DEF handle_ok
    <3>4. finished_by[current_request] = None => parsed[1] = current_request
      BY <1>17, <2>1, <2>2, <3>2, <3>3 DEF handle_ok
    <3>5. finished_by' = [finished_by EXCEPT ![current_request] = IF @ = None THEN current_request ELSE @]
      BY <1>17, <2>1, <2>4, <3>4 DEF handle_ok
    <3>6. finished_by'[current_request] # None /\ OwnAnswer' /\ \A i \in Interactive : finished_by'[i] = finished_by[i]
      BY <3>1, <3>5
    <3>7. AskAlone' /\ AskWaits'
      BY <1>17, <2>1, <2>2, <2>4, <3>6 DEF handle_ok
    <3>8. CurrentNext'
      BY <1>17, <3>3, <3>6 DEF handle_ok
    <3> QED BY <1>17, <3>6, <3>7, <3>8 DEF handle_ok
  <2>5. CASE interactive_request = None /\ current_request = None
    <3>1. UNCHANGED finished_by
      BY <1>17, <2>5 DEF handle_ok
    <3> QED BY <1>17, <2>1, <2>2, <2>5, <3>1 DEF handle_ok
  <2> QED BY <2>3, <2>4, <2>5
<1>18. CASE start_job BY <1>18 DEF start_job
<1>19. CASE send_gcode_line
  <2>1. cmd_lock = None /\ open /\ loop_pc # "lock" /\ wire' = Append(wire, Line) /\ parsed' = parsed /\ pending' = wire'
    BY <1>19 DEF send_gcode_line, Send
  <2>2. /\ \A c : InFlight(c)' => InFlight(c) \/ c = Line
        /\ \A c : ComesNext(c) => ComesNext(c)'
    <3>0. Line \in Sent
      BY DEF Sent
    <3>1. /\ Len(wire') = Len(wire) + 1 /\ wire' # <<>> /\ wire'[Len(wire) + 1] = Line
          /\ \A k \in 1 .. Len(wire) : wire'[k] = wire[k]
      BY <2>1, <3>0, AppendLast
    <3>2. wire # <<>> => 1 \in 1 .. Len(wire)
      OBVIOUS
    <3>3. \A c : InFlight(c)' => InFlight(c) \/ c = Line
      BY <2>1, <3>1
    <3>4. \A c : ComesNext(c) => ComesNext(c)'
      BY <2>1, <3>1, <3>2
    <3> QED BY <3>3, <3>4
  <2> HIDE DEF InFlight, ComesNext
  <2>3. AskAlone' /\ AskWaits' /\ Line \notin Interactive
    BY <1>19, <2>1, <2>2 DEF send_gcode_line
  <2>4. CurrentNext'
    BY <1>19, <2>1, <2>2 DEF send_gcode_line
  <2> QED BY <1>19, <2>1, <2>3, <2>4 DEF send_gcode_line
<1>20. CASE JobEnd BY <1>20 DEF JobEnd
<1>21. CASE CancelFlags BY <1>21 DEF CancelFlags
<1>22. CASE CancelReset BY <1>22 DEF CancelReset
<1>23. CASE CancelDrain BY <1>23 DEF CancelDrain
<1>24. CASE CancelSafety BY <1>24 DEF CancelSafety
<1>25. CASE LinkLost BY <1>25 DEF LinkLost
<1>26. CASE UNCHANGED vars BY <1>26 DEF vars
<1>27. CASE Open BY <1>27, AbortMarks
<1>28. ASSUME NEW d \in Interactive \cup {None}, connect(d) \/ cleanup(d) PROVE Ordered'
  BY <1>28, AbortMarks
<1> QED
  BY <1>1, <1>2, <1>3, <1>4, <1>5, <1>6, <1>7, <1>8, <1>9, <1>10, <1>11, <1>12, <1>13, <1>14, <1>15, <1>16,
     <1>17, <1>18, <1>19, <1>20, <1>21, <1>22, <1>23, <1>24, <1>25, <1>26, <1>27, <1>28 DEF Next, LoopStep, AskStep,
     CancelStep, Reader

\* The whole invariant holds in every reachable state.
LEMMA InvAlways == Spec => []Inv
<1>1. Inv /\ [Next]_vars => Inv'
  <2> SUFFICES ASSUME Inv, [Next]_vars PROVE Inv'
    OBVIOUS
  <2>1. SlotInv'
    BY FlagsStep, PlacesStep, SlotStep DEF Inv, SlotInv, TypeOK
  <2>2. ASSUME disorder' = {} PROVE Ordered'
    <3>1. disorder = {}
      BY <2>2, InStepBefore
    <3> QED BY <2>1, <2>2, <3>1, OrderStep DEF Inv, InStep
  <2> QED BY <2>1, <2>2 DEF Inv, InStep
<1> QED BY InvInit, <1>1, PTL DEF Spec

-----------------------------------------------------------------------------
(* The single commands implement SingleCommand.                            *)

\* Only queued requests are dropped, cancelled or given up: an interactive one is finished by an answer.
AskEndless == \A i \in Interactive : finished_by[i] \notin Endings

\* A queued call that is not made yet is nowhere: not finished, not in the channel, not current.
NotYetQueued ==
    \A q \in Queued : pc[q] = "idle" =>
        /\ finished_by[q] = None /\ q \notin queued_requests /\ current_request # q
        /\ \A k \in 1 .. Len(channel) : channel[k] # q

\* The loop lets go of a request that is not finished only when its send failed: then the link is
\* closed, and nothing of the request is in flight.
ClearMeans ==
    loop_pc = "clear" /\ finished_by[current_request] = None => open = FALSE /\ ~InFlight(current_request)

\* Every step finishes interactive requests by an answer.
LEMMA EndlessStep == PlacesOK /\ AskEndless /\ [Next]_vars => AskEndless'
<1> SUFFICES ASSUME PlacesOK, AskEndless, [Next]_vars PROVE AskEndless'
  OBVIOUS
<1> USE NamesAssumption
<1>a. finished_by \in [Requests -> Sent \cup Endings \cup {None}] /\ current_request \in Queued \cup {None}
      /\ interactive_request \in Interactive \cup {None} /\ queued_requests \subseteq Queued
  BY DEF PlacesOK
<1> USE DEF AskEndless, Requests, Finish
<1>1. ASSUME NEW q \in Queued, execute_command(q) PROVE AskEndless'
  BY <1>1 DEF execute_command
<1>2. ASSUME NEW q \in Queued, Return(q) PROVE AskEndless'
  BY <1>2 DEF Return
<1>3. ASSUME NEW q \in Queued, QueuedTimeout(q) PROVE AskEndless'
  BY <1>3, <1>a DEF QueuedTimeout
<1>4. ASSUME NEW i \in Interactive, Ask(i) PROVE AskEndless'
  BY <1>4 DEF Ask
<1>5. ASSUME NEW i \in Interactive, Lock(i) PROVE AskEndless'
  BY <1>5 DEF Lock
<1>6. ASSUME NEW i \in Interactive, Drain(i) PROVE AskEndless'
  BY <1>6 DEF Drain
<1>7. ASSUME NEW i \in Interactive, Publish(i) PROVE AskEndless'
  BY <1>7 DEF Publish
<1>8. ASSUME NEW i \in Interactive, AskSend(i) PROVE AskEndless'
  BY <1>8 DEF AskSend
<1>9. ASSUME NEW i \in Interactive, AskWait(i) PROVE AskEndless'
  BY <1>9 DEF AskWait
<1>10. ASSUME NEW i \in Interactive, Leave(i) PROVE AskEndless'
  BY <1>10 DEF Leave
<1>11. CASE LoopLock BY <1>11 DEF LoopLock
<1>12. CASE LoopTake
  <2>1. Head(channel) \in Queued
    BY <1>12, TailMoves DEF LoopTake, PlacesOK
  <2> QED BY <1>12, <1>a, <2>1 DEF LoopTake
<1>13. CASE LoopSend BY <1>13 DEF LoopSend
<1>14. CASE LoopWait BY <1>14 DEF LoopWait
<1>15. CASE LoopClear BY <1>15 DEF LoopClear
<1>16. CASE parse_incoming BY <1>16 DEF parse_incoming
<1>17. CASE handle_ok
  <2>1. Head(parsed) \in Sent
    BY <1>17, TailMoves DEF handle_ok, PlacesOK
  <2>2. Head(parsed) \notin Endings
    BY <2>1 DEF Sent
  <2> QED BY <1>17, <1>a, <2>2 DEF handle_ok
<1>18. CASE start_job BY <1>18 DEF start_job
<1>19. CASE send_gcode_line BY <1>19 DEF send_gcode_line
<1>20. CASE JobEnd BY <1>20 DEF JobEnd
<1>21. CASE CancelFlags BY <1>21 DEF CancelFlags
<1>22. CASE CancelReset BY <1>22 DEF CancelReset
<1>23. CASE CancelDrain BY <1>23, <1>a DEF CancelDrain
<1>24. CASE CancelSafety BY <1>24 DEF CancelSafety
<1>25. CASE LinkLost BY <1>25 DEF LinkLost
<1>26. CASE UNCHANGED vars BY <1>26 DEF vars
<1>27. CASE Open BY <1>27 DEF Open
<1>28. ASSUME NEW d \in Interactive \cup {None}, connect(d) \/ cleanup(d) PROVE AskEndless'
  BY <1>28 DEF connect, cleanup, Abort
<1> QED
  BY <1>1, <1>2, <1>3, <1>4, <1>5, <1>6, <1>7, <1>8, <1>9, <1>10, <1>11, <1>12, <1>13, <1>14, <1>15,
     <1>16, <1>17, <1>18, <1>19, <1>20, <1>21, <1>22, <1>23, <1>24, <1>25, <1>26, <1>27, <1>28 DEF Next, LoopStep,
     AskStep, CancelStep, Reader

\* Every step leaves the calls alone that are not made yet.
LEMMA QueuedStep == PlacesOK /\ NotYetQueued /\ [Next]_vars => NotYetQueued'
<1> SUFFICES ASSUME PlacesOK, NotYetQueued, [Next]_vars PROVE NotYetQueued'
  OBVIOUS
<1> USE NamesAssumption
<1>a. /\ finished_by \in [Requests -> Sent \cup Endings \cup {None}] /\ current_request \in Queued \cup {None}
      /\ interactive_request \in Interactive \cup {None} /\ queued_requests \subseteq Queued
      /\ pc \in [Requests -> {"idle", "wait", "lock", "drain", "publish", "send", "await", "leave", "done", "aborted"}]
      /\ channel \in Seq(Queued)
  BY DEF PlacesOK
<1> USE DEF NotYetQueued, Requests, Finish, Goto, slots, queue
<1>1. ASSUME NEW q \in Queued, execute_command(q) PROVE NotYetQueued'
  <2>0. \/ channel' = channel
        \/ channel' = Append(channel, q)
    BY <1>1 DEF execute_command
  <2>1. \A k \in 1 .. Len(channel') : channel'[k] = q \/ (k \in 1 .. Len(channel) /\ channel'[k] = channel[k])
    <3>1. CASE channel' = channel
      BY <1>a, <3>1
    <3>2. CASE channel' = Append(channel, q)
      BY <1>a, <3>2, AppendElement
    <3> QED BY <2>0, <3>1, <3>2
  <2>2. \A p \in Queued \ {q} : pc'[p] = pc[p]
    BY <1>1, <1>a DEF execute_command
  <2>3. pc'[q] # "idle"
    BY <1>1, <1>a DEF execute_command
  <2>4. ASSUME NEW p \in Queued \ {q}, pc'[p] = "idle", NEW k \in 1 .. Len(channel') PROVE channel'[k] # p
    BY <2>1, <2>2, <2>4
  <2> QED BY <1>1, <2>2, <2>3, <2>4 DEF execute_command
<1>2. ASSUME NEW q \in Queued, Return(q) PROVE NotYetQueued'
  BY <1>2, <1>a DEF Return
<1>3. ASSUME NEW q \in Queued, QueuedTimeout(q) PROVE NotYetQueued'
  BY <1>3, <1>a DEF QueuedTimeout
<1>4. ASSUME NEW i \in Interactive, Ask(i) PROVE NotYetQueued'
  BY <1>4, <1>a DEF Ask
<1>5. ASSUME NEW i \in Interactive, Lock(i) PROVE NotYetQueued'
  BY <1>5, <1>a DEF Lock
<1>6. ASSUME NEW i \in Interactive, Drain(i) PROVE NotYetQueued'
  BY <1>6, <1>a DEF Drain
<1>7. ASSUME NEW i \in Interactive, Publish(i) PROVE NotYetQueued'
  BY <1>7, <1>a DEF Publish
<1>8. ASSUME NEW i \in Interactive, AskSend(i) PROVE NotYetQueued'
  BY <1>8, <1>a DEF AskSend
<1>9. ASSUME NEW i \in Interactive, AskWait(i) PROVE NotYetQueued'
  BY <1>9, <1>a DEF AskWait
<1>10. ASSUME NEW i \in Interactive, Leave(i) PROVE NotYetQueued'
  BY <1>10, <1>a DEF Leave
<1>11. CASE LoopLock BY <1>11, <1>a DEF LoopLock
<1>12. CASE LoopTake
  <2>1. /\ Head(channel) = channel[1] /\ Head(channel) \in Queued /\ Len(channel) \in Nat \ {0}
        /\ Len(channel') = Len(channel) - 1 /\ \A k \in 1 .. Len(channel) - 1 : channel'[k] = channel[k + 1]
    BY <1>12, <1>a, TailMoves DEF LoopTake
  <2>2. pc[Head(channel)] # "idle"
    BY <2>1
  <2>3. UNCHANGED pc /\ queued_requests' \subseteq queued_requests
    BY <1>12 DEF LoopTake
  <2>4. \A p \in Queued : pc[p] = "idle" => finished_by'[p] = finished_by[p] /\ current_request' # p
    BY <1>12, <1>a, <2>1, <2>2 DEF LoopTake
  <2>5. ASSUME NEW p \in Queued, pc[p] = "idle", NEW k \in 1 .. Len(channel') PROVE channel'[k] # p
    BY <2>1, <2>5
  <2> QED BY <2>3, <2>4, <2>5
<1>13. CASE LoopSend BY <1>13, <1>a DEF LoopSend
<1>14. CASE LoopWait BY <1>14, <1>a DEF LoopWait
<1>15. CASE LoopClear BY <1>15, <1>a DEF LoopClear
<1>16. CASE parse_incoming BY <1>16, <1>a DEF parse_incoming
<1>17. CASE handle_ok BY <1>17, <1>a DEF handle_ok
<1>18. CASE start_job BY <1>18, <1>a DEF start_job
<1>19. CASE send_gcode_line BY <1>19, <1>a DEF send_gcode_line
<1>20. CASE JobEnd BY <1>20, <1>a DEF JobEnd
<1>21. CASE CancelFlags BY <1>21, <1>a DEF CancelFlags
<1>22. CASE CancelReset BY <1>22, <1>a DEF CancelReset
<1>23. CASE CancelDrain BY <1>23, <1>a DEF CancelDrain
<1>24. CASE CancelSafety BY <1>24, <1>a DEF CancelSafety
<1>25. CASE LinkLost BY <1>25, <1>a DEF LinkLost
<1>26. CASE UNCHANGED vars BY <1>26 DEF vars
<1>27. CASE Open BY <1>27, <1>a DEF Open
<1>28. ASSUME NEW d \in Interactive \cup {None}, connect(d) \/ cleanup(d) PROVE NotYetQueued'
  <2>1. channel' = <<>> /\ UNCHANGED <<queued_requests, finished_by, current_request>>
    BY <1>28 DEF connect, cleanup, Abort
  <2>2. \A p \in Queued : pc'[p] = "idle" => pc[p] = "idle"
    BY <1>28, <1>a DEF connect, cleanup, Abort
  <2> QED BY <2>1, <2>2
<1> QED
  BY <1>1, <1>2, <1>3, <1>4, <1>5, <1>6, <1>7, <1>8, <1>9, <1>10, <1>11, <1>12, <1>13, <1>14, <1>15,
     <1>16, <1>17, <1>18, <1>19, <1>20, <1>21, <1>22, <1>23, <1>24, <1>25, <1>26, <1>27, <1>28 DEF Next, LoopStep,
     AskStep, CancelStep, Reader

\* Every step after which answers are still in step keeps what a cleared request means.
LEMMA ClearStep ==
  SlotInv /\ Ordered /\ ClearMeans /\ [Next]_vars /\ disorder' = {} => ClearMeans'
<1> SUFFICES ASSUME SlotInv, Ordered, ClearMeans, [Next]_vars, disorder' = {} PROVE ClearMeans'
  OBVIOUS
<1> USE NamesAssumption
<1>a. /\ finished_by \in [Requests -> Sent \cup Endings \cup {None}] /\ current_request \in Queued \cup {None}
      /\ (loop_pc \notin {"recv", "gone"} => current_request \in Queued)
      /\ interactive_request \in Interactive \cup {None} /\ cancel_pc = "idle" /\ open \in BOOLEAN
  BY DEF SlotInv, TypeOK, FlagsOK, PlacesOK, CurrentHeld, Ordered
<1> USE DEF ClearMeans, Requests, Finish, slots, traffic, InFlight
<1>1. ASSUME NEW q \in Queued, execute_command(q) PROVE ClearMeans'
  BY <1>1, <1>a DEF execute_command
<1>2. ASSUME NEW q \in Queued, Return(q) PROVE ClearMeans'
  BY <1>2, <1>a DEF Return
<1>3. ASSUME NEW q \in Queued, QueuedTimeout(q) PROVE ClearMeans'
  BY <1>3 DEF QueuedTimeout, Disorder
<1>4. ASSUME NEW i \in Interactive, Ask(i) PROVE ClearMeans'
  BY <1>4, <1>a DEF Ask
<1>5. ASSUME NEW i \in Interactive, Lock(i) PROVE ClearMeans'
  BY <1>5, <1>a DEF Lock
<1>6. ASSUME NEW i \in Interactive, Drain(i) PROVE ClearMeans'
  BY <1>6, <1>a DEF Drain
<1>7. ASSUME NEW i \in Interactive, Publish(i) PROVE ClearMeans'
  BY <1>7, <1>a DEF Publish
<1>8. ASSUME NEW i \in Interactive, AskSend(i) PROVE ClearMeans'
  BY <1>8, <1>a DEF AskSend, Send
<1>9. ASSUME NEW i \in Interactive, AskWait(i) PROVE ClearMeans'
  BY <1>9, <1>a DEF AskWait
<1>10. ASSUME NEW i \in Interactive, Leave(i) PROVE ClearMeans'
  BY <1>10, <1>a DEF Leave
<1>11. CASE LoopLock BY <1>11, <1>a DEF LoopLock
<1>12. CASE LoopTake BY <1>12, <1>a DEF LoopTake
<1>13. CASE LoopSend
  <2>1. wire = <<>> /\ parsed = <<>>
    BY <1>13 DEF LoopSend, Ordered, CurrentNext, NothingInFlight
  <2> QED BY <1>13, <1>a, <2>1 DEF LoopSend
<1>14. CASE LoopWait BY <1>14, <1>a DEF LoopWait
<1>15. CASE LoopClear BY <1>15, <1>a DEF LoopClear
<1>16. CASE parse_incoming BY <1>16, <1>a DEF parse_incoming
<1>17. CASE handle_ok
  <2>1. /\ parsed \in Seq(Sent) /\ Len(parsed') = Len(parsed) - 1 /\ Len(parsed) \in Nat \ {0}
        /\ \A k \in 1 .. Len(parsed) - 1 : parsed'[k] = parsed[k + 1]
    BY <1>17, TailMoves DEF handle_ok, SlotInv, TypeOK, PlacesOK
  <2>2. \A c : InFlight(c)' => InFlight(c)
    BY <1>17, <2>1 DEF handle_ok
  <2> HIDE DEF InFlight
  <2>3. \A r \in Requests : finished_by'[r] = None => finished_by[r] = None
    BY <1>17, <1>a DEF handle_ok
  <2> QED BY <1>17, <1>a, <2>2, <2>3 DEF handle_ok
<1>18. CASE start_job BY <1>18, <1>a DEF start_job
<1>19. CASE send_gcode_line BY <1>19, <1>a DEF send_gcode_line, Send
<1>20. CASE JobEnd BY <1>20, <1>a DEF JobEnd
<1>21. CASE CancelFlags BY <1>21, <1>a DEF CancelFlags
<1>22. CASE CancelReset BY <1>22, <1>a DEF CancelReset
<1>23. CASE CancelDrain BY <1>23, <1>a DEF CancelDrain
<1>24. CASE CancelSafety BY <1>24, <1>a DEF CancelSafety
<1>25. CASE LinkLost BY <1>25, <1>a DEF LinkLost
<1>26. CASE UNCHANGED vars BY <1>26 DEF vars
<1>27. CASE Open BY <1>27, AbortMarks
<1>28. ASSUME NEW d \in Interactive \cup {None}, connect(d) \/ cleanup(d) PROVE ClearMeans'
  BY <1>28, AbortMarks
<1> QED
  BY <1>1, <1>2, <1>3, <1>4, <1>5, <1>6, <1>7, <1>8, <1>9, <1>10, <1>11, <1>12, <1>13, <1>14, <1>15,
     <1>16, <1>17, <1>18, <1>19, <1>20, <1>21, <1>22, <1>23, <1>24, <1>25, <1>26, <1>27, <1>28 DEF Next, LoopStep,
     AskStep, CancelStep, Reader

\* So it is in every reachable state.
CallsInv == AskEndless /\ NotYetQueued /\ (disorder = {} => ClearMeans)
LEMMA CallsAlways == Spec => []CallsInv
<1>1. Init => CallsInv
  BY NamesAssumption DEF Init, CallsInv, AskEndless, NotYetQueued, ClearMeans, Requests
<1>2. Inv /\ CallsInv /\ [Next]_vars => CallsInv'
  <2> SUFFICES ASSUME Inv, CallsInv, [Next]_vars PROVE CallsInv'
    OBVIOUS
  <2>1. AskEndless' /\ NotYetQueued'
    BY EndlessStep, QueuedStep DEF Inv, SlotInv, TypeOK, CallsInv
  <2>2. disorder' = {} => ClearMeans'
    BY InStepBefore, ClearStep DEF Inv, InStep, CallsInv
  <2> QED BY <2>1, <2>2 DEF CallsInv
<1> QED BY InvAlways, <1>1, <1>2, PTL DEF Spec

\* A call that does nothing, and to which nothing is done, stays in its phase.
LEMMA PhaseSame ==
  ASSUME NEW u \in Requests, pc'[u] = pc[u], finished_by'[u] = finished_by[u],
         u \in Queued => ((current_request' = u /\ loop_pc' = "wait") <=> (current_request = u /\ loop_pc = "wait"))
  PROVE  Phase(u)' = Phase(u)
BY DEF Phase, QueuedPhase, InteractivePhase

\* A step of one call is a step of SingleCommand for this call.
LEMMA SingleMove ==
  ASSUME disorder = {}, disorder' = {}, NEW r \in Requests, NEW to, Phase(r)' = to,
         \A u \in Requests \ {r} : Phase(u)' = Phase(u)
  PROVE  Single!Move(r, Phase(r), to)
<1>1. Phases' = [Phases EXCEPT ![r] = to]
  BY DEF Phases
<1>2. Phases[r] = Phase(r)
  BY DEF Phases
<1> QED BY <1>1, <1>2 DEF Single!Move

\* A step that leaves every call in its phase is none of SingleCommand.
LEMMA SingleStutter ==
  ASSUME disorder = {}, disorder' = {}, \A u \in Requests : Phase(u)' = Phase(u)
  PROVE  UNCHANGED Single!vars
<1>1. Phases' = Phases
  BY DEF Phases
<1> QED BY <1>1 DEF Single!vars

\* A step after which answers may be out of step ends the promise.
LEMMA SingleDistrust ==
  ASSUME disorder' # {}
  PROVE  Single!Distrust
BY DEF Single!Distrust, Phases

\* Nothing is under way at the start.
LEMMA SingleInit == Init => Single!Init
BY DEF Init, Single!Init, Phases, Phase, QueuedPhase, InteractivePhase, Requests

\* An answer in step is the answer to the command that the call it finishes waits for.
LEMMA OkAnswers ==
  ASSUME SlotInv, Ordered, Ordered', CallsInv, disorder = {}, disorder' = {}, handle_ok
  PROVE  [Single!Next]_Single!vars
<1> USE NamesAssumption
<1> USE DEF SlotInv, TypeOK, PlacesOK, CurrentExact, Requests
<1>0. SlotExact /\ CurrentExact
  BY Exact
<1> USE <1>0
<1>1. Head(parsed) = parsed[1] /\ parsed[1] \in Sent /\ Len(parsed) \in Nat \ {0}
  BY TailMoves DEF handle_ok
<1>2. InFlight(parsed[1]) /\ parsed # <<>> /\ UNCHANGED <<pc, current_request, loop_pc>>
  BY <1>1 DEF handle_ok, InFlight, slots
<1>3. CASE interactive_request # None
  <2>1. PICK i \in Interactive : i = interactive_request
    BY <1>3
  <2>2. pc[i] = "await" /\ parsed[1] = i /\ finished_by[i] = None
    BY <1>1, <1>2, <2>1 DEF SlotExact, Ordered, AskAlone, NothingInFlight
  <2>3. finished_by' = [finished_by EXCEPT ![i] = i]
    BY <1>1, <2>1, <2>2 DEF handle_ok, Finish
  <2>4. Phase(i) = "written" /\ Phase(i)' = "answered"
    BY <1>2, <2>2, <2>3 DEF Phase, InteractivePhase
  <2>5. \A u \in Requests \ {i} : Phase(u)' = Phase(u)
    BY <1>2, <2>3, PhaseSame
  <2> QED BY <2>4, <2>5, SingleMove DEF Single!Next, Single!Answer
<1>4. CASE interactive_request = None /\ current_request # None
  <2>1. PICK q \in Queued : q = current_request
    BY <1>4
  <2>2. finished_by' = [finished_by EXCEPT ![q] = IF @ = None THEN parsed[1] ELSE @]
    BY <1>1, <1>4, <2>1 DEF handle_ok, Finish
  <2>3. \A u \in Requests \ {q} : Phase(u)' = Phase(u)
    BY <1>2, <2>2, PhaseSame
  <2>4. CASE finished_by[q] # None \/ pc[q] # "wait"
    <3>1. Phase(q)' = Phase(q)
      BY <1>2, <2>2, <2>4, PhaseSame DEF Phase, QueuedPhase
    <3> QED BY <2>3, <3>1, SingleStutter
  <2>5. CASE finished_by[q] = None /\ pc[q] = "wait"
    <3>1. parsed[1] \notin Interactive
      BY <1>2, <1>4 DEF SlotExact, Ordered, AskWaits
    <3>2. loop_pc \in {"wait", "clear"}
      BY <1>1, <1>2, <1>4, <3>1 DEF Ordered, CurrentNext, NothingInFlight
    <3>3. parsed[1] = q
      BY <1>1, <1>2, <2>1, <2>5, <3>1, <3>2 DEF Ordered, CurrentNext, ComesNext
    <3>4. loop_pc = "wait"
      BY <1>2, <2>1, <2>5, <3>2, <3>3 DEF CallsInv, ClearMeans
    <3>5. finished_by'[q] = q
      BY <2>2, <2>5, <3>3
    <3>6. Phase(q) = "written" /\ Phase(q)' = "answered"
      BY <1>2, <2>1, <2>5, <3>4, <3>5 DEF Phase, QueuedPhase
    <3> QED BY <2>3, <3>6, SingleMove DEF Single!Next, Single!Answer
  <2> QED BY <2>4, <2>5
<1>5. CASE interactive_request = None /\ current_request = None
  <2>1. UNCHANGED finished_by
    BY <1>5 DEF handle_ok
  <2>2. \A u \in Requests : Phase(u)' = Phase(u)
    BY <1>2, <2>1, PhaseSame
  <2> QED BY <2>2, SingleStutter
<1> QED BY <1>3, <1>4, <1>5

\* Every step, while answers are in step, is a step of SingleCommand or none.
LEMMA SingleStep ==
  SlotInv /\ Ordered /\ Ordered' /\ CallsInv /\ [Next]_vars /\ disorder = {} /\ disorder' = {} => [Single!Next]_Single!vars
<1> SUFFICES ASSUME SlotInv, Ordered, Ordered', CallsInv, [Next]_vars, disorder = {}, disorder' = {}
             PROVE  [Single!Next]_Single!vars
  OBVIOUS
<1> USE NamesAssumption
<1>a. /\ pc \in [Requests -> {"idle", "wait", "lock", "drain", "publish", "send", "await", "leave", "done", "aborted"}]
      /\ finished_by \in [Requests -> Sent \cup Endings \cup {None}]
      /\ channel \in Seq(Queued) /\ current_request \in Queued \cup {None}
      /\ Queued \subseteq Requests /\ Interactive \subseteq Requests /\ Queued \cap Interactive = {}
  BY DEF SlotInv, TypeOK, PlacesOK, Requests
<1>b. cancel_pc = "idle" /\ AskAlone /\ OwnAnswer /\ AskEndless /\ NotYetQueued
  BY DEF Ordered, CallsInv
<1>c. LockHeld /\ CurrentExact
  BY Exact DEF SlotInv
<1> USE DEF Goto, slots, queue, Disorder
<1>1. ASSUME NEW q \in Queued, execute_command(q) PROVE [Single!Next]_Single!vars
  <2>1. \A u \in Requests \ {q} : Phase(u)' = Phase(u)
    BY <1>1, <1>a, PhaseSame DEF execute_command
  <2>2. Phase(q) = "idle" /\ Phase(q)' = "asked"
    BY <1>1, <1>a, <1>b, <1>c DEF execute_command, Phase, QueuedPhase, NotYetQueued, CurrentExact
  <2> QED BY <1>a, <2>1, <2>2, SingleMove DEF Single!Next, Single!Ask
<1>2. ASSUME NEW q \in Queued, Return(q) PROVE [Single!Next]_Single!vars
  <2>1. \A u \in Requests \ {q} : Phase(u)' = Phase(u)
    BY <1>2, <1>a, PhaseSame DEF Return
  <2>2. Phase(q)' = "idle"
    BY <1>2, <1>a DEF Return, Phase, QueuedPhase
  <2>3. pc[q] = "wait" /\ finished_by[q] \in {q, Dropped} /\ finished_by[q] # None
    BY <1>2, <1>a, <1>b DEF Return, OwnAnswer
  <2>4. Phase(q) \in {"answered", "idle"}
    BY <2>3 DEF Phase, QueuedPhase, Endings
  <2>5. CASE Phase(q) = "idle"
    BY <2>1, <2>2, <2>5, SingleStutter
  <2>6. CASE Phase(q) = "answered"
    BY <1>a, <2>1, <2>2, <2>6, SingleMove DEF Single!Next, Single!Return
  <2> QED BY <2>4, <2>5, <2>6
<1>3. ASSUME NEW q \in Queued, QueuedTimeout(q) PROVE [Single!Next]_Single!vars
  BY <1>3 DEF QueuedTimeout
<1>4. ASSUME NEW i \in Interactive, Ask(i) PROVE [Single!Next]_Single!vars
  <2>1. \A u \in Requests \ {i} : Phase(u)' = Phase(u)
    BY <1>4, <1>a, PhaseSame DEF Ask
  <2>2. Phase(i) = "idle" /\ Phase(i)' \in {"idle", "asked"}
    BY <1>4, <1>a, <1>b DEF Ask, Phase, InteractivePhase, AskAlone
  <2>3. CASE Phase(i)' = "idle"
    BY <2>1, <2>2, <2>3, SingleStutter
  <2>4. CASE Phase(i)' = "asked"
    BY <1>a, <2>1, <2>2, <2>4, SingleMove DEF Single!Next, Single!Ask
  <2> QED BY <2>2, <2>3, <2>4
<1>5. ASSUME NEW i \in Interactive, Lock(i) PROVE [Single!Next]_Single!vars
  <2>1. \A u \in Requests \ {i} : Phase(u)' = Phase(u)
    BY <1>5, <1>a, PhaseSame DEF Lock
  <2>2. Phase(i) = "asked" /\ Phase(i)' = "asked"
    BY <1>5, <1>a, <1>b DEF Lock, Phase, InteractivePhase, AskAlone
  <2> QED BY <2>1, <2>2, SingleStutter
<1>6. ASSUME NEW i \in Interactive, Drain(i) PROVE [Single!Next]_Single!vars
  <2>1. \A u \in Requests \ {i} : Phase(u)' = Phase(u)
    BY <1>6, <1>a, PhaseSame DEF Drain
  <2>2. Phase(i) = "asked" /\ Phase(i)' = "asked"
    BY <1>6, <1>a, <1>b DEF Drain, Phase, InteractivePhase, AskAlone
  <2> QED BY <2>1, <2>2, SingleStutter
<1>7. ASSUME NEW i \in Interactive, Publish(i) PROVE [Single!Next]_Single!vars
  <2>1. \A u \in Requests \ {i} : Phase(u)' = Phase(u)
    BY <1>7, <1>a, PhaseSame DEF Publish
  <2>2. Phase(i) = "asked" /\ Phase(i)' = "asked"
    BY <1>7, <1>a, <1>b DEF Publish, Phase, InteractivePhase, AskAlone
  <2> QED BY <2>1, <2>2, SingleStutter
<1>8. ASSUME NEW i \in Interactive, AskSend(i) PROVE [Single!Next]_Single!vars
  <2>1. \A u \in Requests \ {i} : Phase(u)' = Phase(u)
    BY <1>8, <1>a, PhaseSame DEF AskSend
  <2>2. pc[i] = "send" /\ finished_by[i] = None /\ UNCHANGED finished_by
    BY <1>8, <1>b DEF AskSend, AskAlone
  <2>3. Phase(i) = "asked"
    BY <1>a, <2>2 DEF Phase, InteractivePhase
  <2>4. CASE open
    <3>1. Phase(i)' = "written"
      BY <1>8, <1>a, <2>2, <2>4 DEF AskSend, Phase, InteractivePhase
    <3>2. \A u \in Interactive : Phases[u] = "written" => pc[u] = "await"
      BY <1>a DEF Phases, Phase, InteractivePhase
    <3>3. \A u \in Interactive : pc[u] # "await"
      BY <1>c, <2>2 DEF LockHeld
    <3>4. \A lane \in {Queued, Interactive} : i \in lane => \A u \in lane : Phases[u] # "written"
      BY <1>a, <3>2, <3>3
    <3>5. Single!Write(i)
      BY <1>a, <2>1, <2>3, <3>1, <3>4, SingleMove DEF Single!Write
    <3> QED BY <1>a, <3>5 DEF Single!Next
  <2>5. CASE ~open
    <3>1. Phase(i)' = "asked"
      BY <1>8, <1>a, <2>2, <2>5 DEF AskSend, Phase, InteractivePhase
    <3> QED BY <2>1, <2>3, <3>1, SingleStutter
  <2> QED BY <2>4, <2>5
<1>9. ASSUME NEW i \in Interactive, AskWait(i) PROVE [Single!Next]_Single!vars
  <2>1. \A u \in Requests \ {i} : Phase(u)' = Phase(u)
    BY <1>9, <1>a, PhaseSame DEF AskWait
  <2>2. finished_by[i] # None /\ finished_by[i] = i
    BY <1>9, <1>a, <1>b DEF AskWait, OwnAnswer, AskEndless, Endings
  <2>3. Phase(i) = "answered" /\ Phase(i)' = "answered"
    BY <1>9, <1>a, <2>2 DEF AskWait, Phase, InteractivePhase
  <2> QED BY <2>1, <2>3, SingleStutter
<1>10. ASSUME NEW i \in Interactive, Leave(i) PROVE [Single!Next]_Single!vars
  <2>1. \A u \in Requests \ {i} : Phase(u)' = Phase(u)
    BY <1>10, <1>a, PhaseSame DEF Leave
  <2>2. Phase(i)' = "idle"
    BY <1>10, <1>a DEF Leave, Phase, InteractivePhase
  <2>3. CASE finished_by[i] = None
    <3>1. Phase(i) = "asked"
      BY <1>10, <1>a, <2>3 DEF Leave, Phase, InteractivePhase
    <3> QED BY <1>a, <2>1, <2>2, <3>1, SingleMove DEF Single!Next, Single!GiveUp
  <2>4. CASE finished_by[i] # None
    <3>1. finished_by[i] = i
      BY <1>a, <1>b, <2>4 DEF OwnAnswer, AskEndless, Endings
    <3>2. Phase(i) = "answered"
      BY <1>10, <1>a, <2>4, <3>1 DEF Leave, Phase, InteractivePhase
    <3> QED BY <1>a, <2>1, <2>2, <3>2, SingleMove DEF Single!Next, Single!Return
  <2> QED BY <2>3, <2>4
<1>11. CASE LoopLock
  <2>1. \A u \in Requests : Phase(u)' = Phase(u)
    BY <1>11, PhaseSame DEF LoopLock
  <2> QED BY <2>1, SingleStutter
<1>12. CASE LoopTake
  <2>1. Head(channel) \in Queued /\ pc' = pc /\ loop_pc = "recv"
    BY <1>12, <1>a, TailMoves DEF LoopTake
  <2>2. CASE ~open \/ is_cancelled
    <3>1. PICK q \in Queued : q = Head(channel)
      BY <2>1
    <3>2. finished_by' = [finished_by EXCEPT ![q] = IF @ = None THEN Dropped ELSE @] /\ UNCHANGED <<current_request, loop_pc>>
      BY <1>12, <2>2, <3>1 DEF LoopTake, Finish
    <3>3. \A u \in Requests \ {q} : Phase(u)' = Phase(u)
      BY <1>a, <2>1, <3>1, <3>2, PhaseSame
    <3>4. CASE pc[q] # "wait" \/ finished_by[q] # None
      <4>1. Phase(q)' = Phase(q)
        BY <1>a, <2>1, <3>1, <3>2, <3>4 DEF Phase, QueuedPhase
      <4> QED BY <3>3, <4>1, SingleStutter
    <3>5. CASE pc[q] = "wait" /\ finished_by[q] = None
      <4>1. finished_by'[q] = Dropped /\ Dropped # q /\ Dropped # None /\ Dropped \in Endings
        BY <1>a, <3>1, <3>2, <3>5 DEF Endings
      <4>2. Phase(q) = "asked" /\ Phase(q)' = "idle"
        BY <2>1, <3>1, <3>5, <4>1 DEF Phase, QueuedPhase
      <4> QED BY <1>a, <3>1, <3>3, <4>2, SingleMove DEF Single!Next, Single!GiveUp
    <3> QED BY <3>4, <3>5
  <2>3. CASE ~(~open \/ is_cancelled)
    <3>1. finished_by' = finished_by /\ loop_pc' = "lock"
      BY <1>12, <2>3 DEF LoopTake
    <3>2. \A u \in Requests : Phase(u)' = Phase(u)
      BY <2>1, <3>1, PhaseSame
    <3> QED BY <3>2, SingleStutter
  <2> QED BY <2>2, <2>3
<1>13. CASE LoopSend
  <2>1. pc' = pc /\ finished_by' = finished_by /\ current_request' = current_request /\ loop_pc = "send"
    BY <1>13 DEF LoopSend
  <2>2. PICK q \in Queued : q = current_request
    BY <1>a, <1>c, <2>1 DEF CurrentExact
  <2>3. \A u \in Requests \ {q} : Phase(u)' = Phase(u)
    BY <2>1, <2>2, PhaseSame
  <2>4. CASE open /\ pc[q] = "wait" /\ finished_by[q] = None
    <3>1. loop_pc' = "wait"
      BY <1>13, <2>4 DEF LoopSend
    <3>2. Phase(q) = "asked" /\ Phase(q)' = "written"
      BY <2>1, <2>2, <2>4, <3>1 DEF Phase, QueuedPhase
    <3>3. \A u \in Queued : Phases[u] # "written"
      BY <1>a, <2>1 DEF Phases, Phase, QueuedPhase
    <3>4. \A lane \in {Queued, Interactive} : q \in lane => \A u \in lane : Phases[u] # "written"
      BY <1>a, <3>3
    <3>5. Single!Write(q)
      BY <1>a, <2>3, <3>2, <3>4, SingleMove DEF Single!Write
    <3> QED BY <1>a, <3>5 DEF Single!Next
  <2>5. CASE ~(open /\ pc[q] = "wait" /\ finished_by[q] = None)
    <3>1. ~open => loop_pc' = "clear"
      BY <1>13 DEF LoopSend
    <3>2. Phase(q)' = Phase(q)
      BY <2>1, <2>2, <2>5, <3>1 DEF Phase, QueuedPhase
    <3> QED BY <2>3, <3>2, SingleStutter
  <2> QED BY <2>4, <2>5
<1>14. CASE LoopWait
  <2>1. pc' = pc /\ finished_by' = finished_by /\ current_request' = current_request /\ finished_by[current_request] # None
    BY <1>14 DEF LoopWait
  <2>2. ASSUME NEW u \in Requests, u # current_request PROVE Phase(u)' = Phase(u)
    BY <2>1, <2>2, PhaseSame
  <2>3. ASSUME NEW u \in Requests, u = current_request PROVE Phase(u)' = Phase(u)
    <3>1. u \in Queued
      BY <1>a, <2>3 DEF Requests
    <3> QED BY <2>1, <2>3, <3>1 DEF Phase, QueuedPhase
  <2> QED BY <2>2, <2>3, SingleStutter
<1>15. CASE LoopClear
  <2>1. \A u \in Requests : Phase(u)' = Phase(u)
    BY <1>15, PhaseSame DEF LoopClear
  <2> QED BY <2>1, SingleStutter
<1>16. CASE parse_incoming
  <2>1. \A u \in Requests : Phase(u)' = Phase(u)
    BY <1>16, PhaseSame DEF parse_incoming
  <2> QED BY <2>1, SingleStutter
<1>17. CASE handle_ok BY <1>17, OkAnswers
<1>18. CASE start_job
  <2>1. \A u \in Requests : Phase(u)' = Phase(u)
    BY <1>18, PhaseSame DEF start_job
  <2> QED BY <2>1, SingleStutter
<1>19. CASE send_gcode_line
  <2>1. \A u \in Requests : Phase(u)' = Phase(u)
    BY <1>19, PhaseSame DEF send_gcode_line
  <2> QED BY <2>1, SingleStutter
<1>20. CASE JobEnd
  <2>1. \A u \in Requests : Phase(u)' = Phase(u)
    BY <1>20, PhaseSame DEF JobEnd
  <2> QED BY <2>1, SingleStutter
<1>21. CASE CancelFlags BY <1>21 DEF CancelFlags
<1>22. CASE CancelReset BY <1>22, <1>b DEF CancelReset
<1>23. CASE CancelDrain BY <1>23, <1>b DEF CancelDrain
<1>24. CASE CancelSafety BY <1>24, <1>b DEF CancelSafety
<1>25. CASE LinkLost
  <2>1. \A u \in Requests : Phase(u)' = Phase(u)
    BY <1>25, PhaseSame DEF LinkLost
  <2> QED BY <2>1, SingleStutter
<1>26. CASE UNCHANGED vars
  <2>1. \A u \in Requests : Phase(u)' = Phase(u)
    BY <1>26, PhaseSame DEF vars
  <2> QED BY <2>1, SingleStutter
<1>27. CASE Open BY <1>27, AbortMarks
<1>28. ASSUME NEW d \in Interactive \cup {None}, connect(d) \/ cleanup(d) PROVE [Single!Next]_Single!vars
  BY <1>28, AbortMarks
<1> QED
  BY <1>1, <1>2, <1>3, <1>4, <1>5, <1>6, <1>7, <1>8, <1>9, <1>10, <1>11, <1>12, <1>13, <1>14, <1>15,
     <1>16, <1>17, <1>18, <1>19, <1>20, <1>21, <1>22, <1>23, <1>24, <1>25, <1>26, <1>27, <1>28 DEF Next, LoopStep,
     AskStep, CancelStep, Reader

-----------------------------------------------------------------------------
(* What follows.                                                           *)

\* Every variable keeps its type; in particular the command loop never sends the empty request.
THEOREM TypeCorrect == Spec => []TypeOK
BY InvAlways, PTL DEF Inv, SlotInv

\* Both slots belong to a call that is still under way, for any number of calls, however they time
\* out, are cancelled or lose the link: no request is left behind to swallow a later answer.
THEOREM SlotsAlwaysOwned == Spec => []SlotsOwned
<1>1. SlotInv => SlotsOwned
  BY NamesAssumption DEF SlotInv, CurrentHeld, TypeOK, PlacesOK, LockHeld, SlotHeld, SlotsOwned, Requests
<1> QED BY InvAlways, <1>1, PTL DEF Inv

\* Among any number of queued and interactive calls and job lines, a request is finished by the
\* answer to its own command, as long as nothing timed out, was cancelled or reset, became current
\* early or was published before an answer counted off was handled.
THEOREM EachItsOwnAnswer == Spec => []OwnAnswer
<1>1. InStep => OwnAnswer
  BY DEF InStep, Ordered, OwnAnswer
<1> QED BY InvAlways, <1>1, PTL DEF Inv
\* As long as nothing timed out, was cancelled or reset, became current early or was published before an
\* answer counted off was handled, every behaviour of the calls, the command loop, the jobs and the device
\* is one of SingleCommand, the link lost or not: one queued and one interactive command with the device at
\* a time, and every call returns with the answer to its own command, or with none if it was not written.
THEOREM Refinement == Spec => ImplementsSingle
<1>1. Inv /\ Inv' /\ CallsInv /\ [Next]_vars => [Single!Next]_Single!vars
  <2> SUFFICES ASSUME Inv, Inv', CallsInv, [Next]_vars PROVE [Single!Next]_Single!vars
    OBVIOUS
  <2>1. CASE disorder' # {}
    BY <2>1, SingleDistrust DEF Single!Next
  <2>2. CASE disorder' = {}
    <3>1. disorder = {}
      BY <2>2, InStepBefore
    <3> QED BY <2>2, <3>1, SingleStep DEF Inv, InStep
  <2> QED BY <2>1, <2>2
<1>2. ImplementsSingle <=> Single!Init /\ [][Single!Next]_Single!vars
  BY DEF ImplementsSingle, Single!Spec
<1> QED BY InvAlways, CallsAlways, SingleInit, <1>1, <1>2, PTL DEF Spec
=============================================================================
