--------------------------- MODULE PingPongProofs ---------------------------
(***************************************************************************)
(* Theorems about PingPong for every set of callers and of cancel() calls, *)
(* every choice of faults and every bound.                                 *)
(***************************************************************************)
EXTENDS PingPong, TLAPS

-----------------------------------------------------------------------------
(* The inductive invariant.                                                *)

\* A sender waits for cmd_lock only with a command left to send (the job's loop head,
\* execute_command).
OneMore == (pc[Job] = "lock" => sent[Job] < Lines) /\ \A s \in Callers : pc[s] = "lock" => sent[s] < MaxCommands

\* cmd_lock is held exactly from the new PendingCmd to the way out of ping_pong.
LockHeld == \A s \in Senders : pc[s] \in {"write", "wait"} <=> cmd_lock = s

SlotInv == TypeOK /\ OneMore /\ LockHeld /\ SlotOwned

\* As long as answers cannot be out of step, the device has at most one line to answer, that of
\* the sender that has the lock and waits, and nobody is finished before he has written.
OneInFlight ==
    /\ wire # <<>> => \E s \in Senders : pc[s] = "wait" /\ finished_by[s] = None /\ wire = <<Command(s)>>
    /\ \A s \in Senders : pc[s] = "write" => finished_by[s] = None

InStep == disorder = "none" => OneInFlight /\ OwnAnswer

Inv == SlotInv /\ InStep

\* Before the first call nothing is held, written or finished.
LEMMA InvInit == Init => Inv
<1> SUFFICES ASSUME Init PROVE Inv
  OBVIOUS
<1> USE NamesAssumption, BoundsAssumption
<1>1. FlagsOK
  BY Zenon DEF Init, FlagsOK
<1>2. PlacesOK
  BY DEF Init, PlacesOK, PC, Senders
<1>3. OneMore /\ LockHeld /\ SlotOwned
  BY DEF Init, OneMore, LockHeld, SlotOwned, Senders
<1>4. InStep
  BY DEF Init, InStep, OneInFlight, OwnAnswer
<1> QED BY <1>1, <1>2, <1>3, <1>4 DEF Inv, SlotInv, TypeOK

-----------------------------------------------------------------------------
(* The slot and the lock.                                                  *)

\* Every step keeps the flags Boolean.
LEMMA FlagsStep == FlagsOK /\ [Next]_vars => FlagsOK'
<1> SUFFICES ASSUME FlagsOK, [Next]_vars PROVE FlagsOK'
  OBVIOUS
<1> USE DEF FlagsOK, flags, runVars, cancelVars
<1>1. ASSUME NEW s \in Senders, Acquire(s) PROVE FlagsOK' BY <1>1, Zenon DEF Acquire
<1>2. ASSUME NEW s \in Senders, Write(s) PROVE FlagsOK' BY <1>2, Zenon DEF Write
<1>3. ASSUME NEW s \in Senders, Finish(s) PROVE FlagsOK' BY <1>3, Zenon DEF Finish
<1>4. ASSUME NEW s \in Senders, Timeout(s) PROVE FlagsOK' BY <1>4, Zenon DEF Timeout
<1>5. ASSUME NEW s \in Senders, WriteError(s) PROVE FlagsOK' BY <1>5, Zenon DEF WriteError
<1>6. ASSUME NEW s \in Senders, Return(s) PROVE FlagsOK' BY <1>6, Zenon DEF Return
<1>7. ASSUME NEW s \in Callers, execute_command(s) PROVE FlagsOK' BY <1>7, Zenon DEF execute_command
<1>8. CASE start_job BY <1>8, Zenon DEF start_job
<1>9. CASE RunHead BY <1>9, Zenon DEF RunHead
<1>10. CASE RunAfter BY <1>10, Zenon DEF RunAfter
<1>11. CASE RunEnd BY <1>11, Zenon DEF RunEnd
<1>12. CASE RunShutdown BY <1>12, Zenon DEF RunShutdown
<1>13. CASE RunReport BY <1>13, Zenon DEF RunReport
<1>14. ASSUME NEW c \in Cancels, CancelFlags(c) PROVE FlagsOK' BY <1>14, Zenon DEF CancelFlags
<1>15. ASSUME NEW c \in Cancels, CancelReset(c) PROVE FlagsOK' BY <1>15, Zenon DEF CancelReset
<1>16. ASSUME NEW c \in Cancels, CancelSafety(c) PROVE FlagsOK' BY <1>16, Zenon DEF CancelSafety
<1>17. ASSUME NEW c \in Cancels, CancelEvent(c) PROVE FlagsOK' BY <1>17, Zenon DEF CancelEvent
<1>18. CASE handle_ok BY <1>18, Zenon DEF handle_ok
<1>19. CASE handle_error_line BY <1>19, Zenon DEF handle_error_line
<1>20. CASE handle_alarm BY <1>20, Zenon DEF handle_alarm
<1>21. CASE Raise BY <1>21, Zenon DEF Raise
<1>22. CASE handle_status_report BY <1>22, Zenon DEF handle_status_report
<1>23. CASE set_hold BY <1>23, Zenon DEF set_hold
<1>24. CASE LinkLost BY <1>24, Zenon DEF LinkLost
<1>25. CASE UNCHANGED vars BY <1>25 DEF vars
<1> QED
  BY <1>1, <1>2, <1>3, <1>4, <1>5, <1>6, <1>7, <1>8, <1>9, <1>10, <1>11, <1>12, <1>13, <1>14, <1>15, <1>16,
     <1>17, <1>18, <1>19, <1>20, <1>21, <1>22, <1>23, <1>24, <1>25 DEF Next, Exchange, RunStep, CancelStep

\* Every step keeps every other variable in its type.
LEMMA PlacesStep == SlotInv /\ [Next]_vars => PlacesOK'
<1> SUFFICES ASSUME SlotInv, [Next]_vars PROVE PlacesOK'
  OBVIOUS
<1> USE NamesAssumption, BoundsAssumption
<1> USE DEF SlotInv, TypeOK, PlacesOK, OneMore, flags, runVars, cancelVars, Goto, CancelGoto, Disorder,
        Leave,
            finish_pending, send_safety_shutdown, PC, Senders, Commands
<1>1. ASSUME NEW s \in Senders, Acquire(s) PROVE PlacesOK'
  <2>1. pc[s] = "lock" /\ cmd_lock = None /\ sent[s] \in Nat
    BY <1>1 DEF Acquire
  <2>2. CASE open
    <3>1. /\ cmd_lock' = s /\ sent' = [sent EXCEPT ![s] = sent[s] + 1] /\ slot' = <<s, sent[s] + 1>>
          /\ finished_by' = [finished_by EXCEPT ![s] = None] /\ pc' = [pc EXCEPT ![s] = "write"]
      BY <1>1, <2>1, <2>2 DEF Acquire
    <3> QED BY <1>1, <2>1, <3>1 DEF Acquire
  <2>3. CASE ~open
    BY <1>1, <2>1, <2>3 DEF Acquire
  <2> QED BY <2>2, <2>3
<1>2. ASSUME NEW s \in Senders, Write(s) PROVE PlacesOK'
  <2>1. Command(s) \in Commands
    BY DEF Command, Commands
  <2>2. Append(wire, Command(s)) \in Seq(Commands \cup {Safety})
    BY <2>1
  <2> QED BY <1>2, <2>2 DEF Write
<1>3. ASSUME NEW s \in Senders, Finish(s) PROVE PlacesOK' BY <1>3 DEF Finish
<1>4. ASSUME NEW s \in Senders, Timeout(s) PROVE PlacesOK' BY <1>4 DEF Timeout
<1>5. ASSUME NEW s \in Senders, WriteError(s) PROVE PlacesOK' BY <1>5 DEF WriteError
<1>6. ASSUME NEW s \in Senders, Return(s) PROVE PlacesOK' BY <1>6 DEF Return
<1>7. ASSUME NEW s \in Callers, execute_command(s) PROVE PlacesOK' BY <1>7 DEF execute_command
<1>8. CASE start_job BY <1>8 DEF start_job
<1>9. CASE RunHead BY <1>9 DEF RunHead
<1>10. CASE RunAfter BY <1>10 DEF RunAfter
<1>11. CASE RunEnd BY <1>11 DEF RunEnd
<1>12. CASE RunShutdown BY <1>12 DEF RunShutdown
<1>13. CASE RunReport BY <1>13 DEF RunReport
<1>14. ASSUME NEW c \in Cancels, CancelFlags(c) PROVE PlacesOK' BY <1>14 DEF CancelFlags
<1>15. ASSUME NEW c \in Cancels, CancelReset(c) PROVE PlacesOK' BY <1>15 DEF CancelReset
<1>16. ASSUME NEW c \in Cancels, CancelSafety(c) PROVE PlacesOK' BY <1>16 DEF CancelSafety
<1>17. ASSUME NEW c \in Cancels, CancelEvent(c) PROVE PlacesOK' BY <1>17 DEF CancelEvent
<1>18. CASE handle_ok BY <1>18 DEF handle_ok
<1>19. CASE handle_error_line BY <1>19 DEF handle_error_line
<1>20. CASE handle_alarm BY <1>20 DEF handle_alarm
<1>21. CASE Raise BY <1>21 DEF Raise
<1>22. CASE handle_status_report BY <1>22 DEF handle_status_report
<1>23. CASE set_hold BY <1>23 DEF set_hold
<1>24. CASE LinkLost BY <1>24 DEF LinkLost
<1>25. CASE UNCHANGED vars BY <1>25 DEF vars
<1> QED
  BY <1>1, <1>2, <1>3, <1>4, <1>5, <1>6, <1>7, <1>8, <1>9, <1>10, <1>11, <1>12, <1>13, <1>14, <1>15, <1>16,
     <1>17, <1>18, <1>19, <1>20, <1>21, <1>22, <1>23, <1>24, <1>25 DEF Next, Exchange, RunStep, CancelStep

\* Every step keeps the lock and the slot with the sender between its lock and its answer.
LEMMA SlotStep == SlotInv /\ [Next]_vars => OneMore' /\ LockHeld' /\ SlotOwned'
<1> SUFFICES ASSUME SlotInv, [Next]_vars PROVE OneMore' /\ LockHeld' /\ SlotOwned'
  OBVIOUS
<1> USE NamesAssumption, BoundsAssumption
<1> USE DEF SlotInv, TypeOK, PlacesOK, OneMore, LockHeld, SlotOwned, Command, Goto, Leave, PC, Senders
<1>1. ASSUME NEW s \in Senders, Acquire(s) PROVE OneMore' /\ LockHeld' /\ SlotOwned'
  <2>1. pc[s] = "lock" /\ cmd_lock = None /\ sent[s] \in Nat
    BY <1>1 DEF Acquire
  <2>2. CASE open
    <3>1. /\ cmd_lock' = s /\ sent' = [sent EXCEPT ![s] = sent[s] + 1] /\ slot' = <<s, sent[s] + 1>>
          /\ finished_by' = [finished_by EXCEPT ![s] = None] /\ pc' = [pc EXCEPT ![s] = "write"]
      BY <1>1, <2>1, <2>2 DEF Acquire
    <3> QED BY <1>1, <2>1, <3>1 DEF Acquire
  <2>3. CASE ~open
    <3>1. slot = None
      BY <2>1 DEF Commands
    <3> QED BY <1>1, <2>1, <2>3, <3>1 DEF Acquire
  <2> QED BY <2>2, <2>3
<1>2. ASSUME NEW s \in Senders, Write(s) PROVE OneMore' /\ LockHeld' /\ SlotOwned' BY <1>2 DEF Write
<1>3. ASSUME NEW s \in Senders, Finish(s) PROVE OneMore' /\ LockHeld' /\ SlotOwned' BY <1>3 DEF Finish
<1>4. ASSUME NEW s \in Senders, Timeout(s) PROVE OneMore' /\ LockHeld' /\ SlotOwned' BY <1>4 DEF Timeout
<1>5. ASSUME NEW s \in Senders, WriteError(s) PROVE OneMore' /\ LockHeld' /\ SlotOwned' BY <1>5 DEF WriteError
<1>6. ASSUME NEW s \in Senders, Return(s) PROVE OneMore' /\ LockHeld' /\ SlotOwned' BY <1>6 DEF Return
<1>7. ASSUME NEW s \in Callers, execute_command(s) PROVE OneMore' /\ LockHeld' /\ SlotOwned'
  BY <1>7 DEF execute_command
<1>8. CASE start_job BY <1>8 DEF start_job
<1>9. CASE RunHead BY <1>9 DEF RunHead
<1>10. CASE RunAfter BY <1>10 DEF RunAfter
<1>11. CASE RunEnd BY <1>11 DEF RunEnd
<1>12. CASE RunShutdown BY <1>12 DEF RunShutdown
<1>13. CASE RunReport BY <1>13 DEF RunReport
<1>14. ASSUME NEW c \in Cancels, CancelFlags(c) PROVE OneMore' /\ LockHeld' /\ SlotOwned'
  BY <1>14 DEF CancelFlags
<1>15. ASSUME NEW c \in Cancels, CancelReset(c) PROVE OneMore' /\ LockHeld' /\ SlotOwned'
  BY <1>15 DEF CancelReset
<1>16. ASSUME NEW c \in Cancels, CancelSafety(c) PROVE OneMore' /\ LockHeld' /\ SlotOwned'
  BY <1>16 DEF CancelSafety
<1>17. ASSUME NEW c \in Cancels, CancelEvent(c) PROVE OneMore' /\ LockHeld' /\ SlotOwned'
  BY <1>17 DEF CancelEvent
<1>18. CASE handle_ok BY <1>18 DEF handle_ok
<1>19. CASE handle_error_line BY <1>19 DEF handle_error_line
<1>20. CASE handle_alarm BY <1>20 DEF handle_alarm
<1>21. CASE Raise BY <1>21 DEF Raise
<1>22. CASE handle_status_report BY <1>22 DEF handle_status_report
<1>23. CASE set_hold BY <1>23 DEF set_hold
<1>24. CASE LinkLost BY <1>24 DEF LinkLost
<1>25. CASE UNCHANGED vars BY <1>25 DEF vars
<1> QED
  BY <1>1, <1>2, <1>3, <1>4, <1>5, <1>6, <1>7, <1>8, <1>9, <1>10, <1>11, <1>12, <1>13, <1>14, <1>15, <1>16,
     <1>17, <1>18, <1>19, <1>20, <1>21, <1>22, <1>23, <1>24, <1>25 DEF Next, Exchange, RunStep, CancelStep

-----------------------------------------------------------------------------
(* Answers in step.                                                        *)

\* The ghost never returns to "none": what is in step now has always been.
LEMMA InStepBefore == [Next]_vars /\ disorder' = "none" => disorder = "none"
<1> SUFFICES ASSUME [Next]_vars, disorder' = "none" PROVE disorder = "none"
  OBVIOUS
<1> USE DEF Disorder, send_safety_shutdown
<1>1. ASSUME NEW s \in Senders, Acquire(s) PROVE disorder = "none" BY <1>1 DEF Acquire
<1>2. ASSUME NEW s \in Senders, Write(s) PROVE disorder = "none" BY <1>2 DEF Write
<1>3. ASSUME NEW s \in Senders, Finish(s) PROVE disorder = "none" BY <1>3 DEF Finish
<1>4. ASSUME NEW s \in Senders, Timeout(s) PROVE disorder = "none" BY <1>4 DEF Timeout
<1>5. ASSUME NEW s \in Senders, WriteError(s) PROVE disorder = "none" BY <1>5 DEF WriteError
<1>6. ASSUME NEW s \in Senders, Return(s) PROVE disorder = "none" BY <1>6 DEF Return
<1>7. ASSUME NEW s \in Callers, execute_command(s) PROVE disorder = "none" BY <1>7 DEF execute_command
<1>8. CASE start_job BY <1>8 DEF start_job
<1>9. CASE RunHead BY <1>9 DEF RunHead
<1>10. CASE RunAfter BY <1>10 DEF RunAfter
<1>11. CASE RunEnd BY <1>11 DEF RunEnd
<1>12. CASE RunShutdown BY <1>12 DEF RunShutdown
<1>13. CASE RunReport BY <1>13 DEF RunReport
<1>14. ASSUME NEW c \in Cancels, CancelFlags(c) PROVE disorder = "none" BY <1>14 DEF CancelFlags
<1>15. ASSUME NEW c \in Cancels, CancelReset(c) PROVE disorder = "none" BY <1>15 DEF CancelReset
<1>16. ASSUME NEW c \in Cancels, CancelSafety(c) PROVE disorder = "none" BY <1>16 DEF CancelSafety
<1>17. ASSUME NEW c \in Cancels, CancelEvent(c) PROVE disorder = "none" BY <1>17 DEF CancelEvent
<1>18. CASE handle_ok BY <1>18 DEF handle_ok
<1>19. CASE handle_error_line BY <1>19 DEF handle_error_line
<1>20. CASE handle_alarm BY <1>20 DEF handle_alarm
<1>21. CASE Raise BY <1>21 DEF Raise
<1>22. CASE handle_status_report BY <1>22 DEF handle_status_report
<1>23. CASE set_hold BY <1>23 DEF set_hold
<1>24. CASE LinkLost BY <1>24 DEF LinkLost
<1>25. CASE UNCHANGED vars BY <1>25 DEF vars
<1> QED
  BY <1>1, <1>2, <1>3, <1>4, <1>5, <1>6, <1>7, <1>8, <1>9, <1>10, <1>11, <1>12, <1>13, <1>14, <1>15, <1>16,
     <1>17, <1>18, <1>19, <1>20, <1>21, <1>22, <1>23, <1>24, <1>25 DEF Next, Exchange, RunStep, CancelStep

\* Every step after which answers are still in step keeps them so.
LEMMA OrderStep ==
  SlotInv /\ OneInFlight /\ OwnAnswer /\ [Next]_vars /\ disorder = "none" /\ disorder' = "none" => OneInFlight' /\ OwnAnswer'
<1> SUFFICES ASSUME SlotInv, OneInFlight, OwnAnswer, [Next]_vars, disorder = "none", disorder' = "none"
             PROVE  OneInFlight' /\ OwnAnswer'
  OBVIOUS
<1> USE NamesAssumption
<1> USE DEF SlotInv, TypeOK, PlacesOK, LockHeld, SlotOwned, Command, Goto, Leave, Disorder, finish_pending,
            send_safety_shutdown, Senders, OneInFlight, OwnAnswer
<1>1. ASSUME NEW s \in Senders, Acquire(s) PROVE OneInFlight' /\ OwnAnswer' BY <1>1 DEF Acquire
<1>2. ASSUME NEW s \in Senders, Write(s) PROVE OneInFlight' /\ OwnAnswer'
  <2>1. cmd_lock = s /\ finished_by[s] = None /\ wire = <<>>
    BY <1>2 DEF Write
  <2>2. wire' = <<Command(s)>>
    BY <1>2, <2>1 DEF Write
  <2> QED BY <1>2, <2>1, <2>2 DEF Write
<1>3. ASSUME NEW s \in Senders, Finish(s) PROVE OneInFlight' /\ OwnAnswer' BY <1>3 DEF Finish
<1>4. ASSUME NEW s \in Senders, Timeout(s) PROVE OneInFlight' /\ OwnAnswer' BY <1>4 DEF Timeout
<1>5. ASSUME NEW s \in Senders, WriteError(s) PROVE OneInFlight' /\ OwnAnswer' BY <1>5 DEF WriteError
<1>6. ASSUME NEW s \in Senders, Return(s) PROVE OneInFlight' /\ OwnAnswer' BY <1>6 DEF Return
<1>7. ASSUME NEW s \in Callers, execute_command(s) PROVE OneInFlight' /\ OwnAnswer' BY <1>7 DEF execute_command
<1>8. CASE start_job BY <1>8 DEF start_job
<1>9. CASE RunHead BY <1>9 DEF RunHead
<1>10. CASE RunAfter BY <1>10 DEF RunAfter
<1>11. CASE RunEnd BY <1>11 DEF RunEnd
<1>12. CASE RunShutdown BY <1>12 DEF RunShutdown
<1>13. CASE RunReport BY <1>13 DEF RunReport
<1>14. ASSUME NEW c \in Cancels, CancelFlags(c) PROVE OneInFlight' /\ OwnAnswer' BY <1>14 DEF CancelFlags
<1>15. ASSUME NEW c \in Cancels, CancelReset(c) PROVE OneInFlight' /\ OwnAnswer' BY <1>15 DEF CancelReset
<1>16. ASSUME NEW c \in Cancels, CancelSafety(c) PROVE OneInFlight' /\ OwnAnswer' BY <1>16 DEF CancelSafety
<1>17. ASSUME NEW c \in Cancels, CancelEvent(c) PROVE OneInFlight' /\ OwnAnswer' BY <1>17 DEF CancelEvent
<1>18. CASE handle_ok
  <2>1. PICK s \in Senders : pc[s] = "wait" /\ finished_by[s] = None /\ wire = <<Command(s)>>
    BY <1>18 DEF handle_ok
  <2>2. Head(wire) = Command(s) /\ Tail(wire) = <<>> /\ cmd_lock = s
    BY <2>1
  <2>3. wire' = <<>> /\ finished_by' = IF slot # None THEN [finished_by EXCEPT ![s] = Command(s)] ELSE finished_by
    BY <1>18, <2>1, <2>2 DEF handle_ok
  <2> QED BY <1>18, <2>1, <2>2, <2>3 DEF handle_ok
<1>19. CASE handle_error_line
  <2>1. PICK s \in Senders : pc[s] = "wait" /\ finished_by[s] = None /\ wire = <<Command(s)>>
    BY <1>19 DEF handle_error_line
  <2>2. Head(wire) = Command(s) /\ Tail(wire) = <<>> /\ cmd_lock = s
    BY <2>1
  <2>3. wire' = <<>> /\ finished_by' = IF slot # None THEN [finished_by EXCEPT ![s] = Command(s)] ELSE finished_by
    BY <1>19, <2>1, <2>2 DEF handle_error_line
  <2> QED BY <1>19, <2>1, <2>2, <2>3 DEF handle_error_line
<1>20. CASE handle_alarm BY <1>20 DEF handle_alarm
<1>21. CASE Raise BY <1>21 DEF Raise
<1>22. CASE handle_status_report BY <1>22 DEF handle_status_report
<1>23. CASE set_hold BY <1>23 DEF set_hold
<1>24. CASE LinkLost BY <1>24 DEF LinkLost
<1>25. CASE UNCHANGED vars BY <1>25 DEF vars
<1> QED
  BY <1>1, <1>2, <1>3, <1>4, <1>5, <1>6, <1>7, <1>8, <1>9, <1>10, <1>11, <1>12, <1>13, <1>14, <1>15, <1>16,
     <1>17, <1>18, <1>19, <1>20, <1>21, <1>22, <1>23, <1>24, <1>25 DEF Next, Exchange, RunStep, CancelStep

\* The whole invariant holds in every reachable state.
LEMMA InvAlways == Spec => []Inv
<1>1. Inv /\ [Next]_vars => Inv'
  <2> SUFFICES ASSUME Inv, [Next]_vars PROVE Inv'
    OBVIOUS
  <2>1. SlotInv'
    BY FlagsStep, PlacesStep, SlotStep DEF Inv, SlotInv, TypeOK
  <2>2. ASSUME disorder' = "none" PROVE OneInFlight' /\ OwnAnswer'
    <3>1. disorder = "none"
      BY <2>2, InStepBefore
    <3> QED BY <2>2, <3>1, OrderStep DEF Inv, InStep
  <2> QED BY <2>1, <2>2 DEF Inv, InStep
<1> QED BY InvInit, <1>1, PTL DEF Spec

-----------------------------------------------------------------------------
(* The exchange implements SingleCommand.                                  *)

\* A sender that does nothing, and to which nothing is done, stays in its phase.
LEMMA PhaseSame ==
  ASSUME NEW u \in Senders, pc'[u] = pc[u], finished_by'[u] = finished_by[u], sent'[u] = sent[u]
  PROVE  Phase(u)' = Phase(u)
BY DEF Phase, Command

\* A step of one sender is a step of SingleCommand for this sender.
LEMMA SingleMove ==
  ASSUME disorder = "none", disorder' = "none", NEW s \in Senders, NEW to, Phase(s)' = to,
         \A u \in Senders \ {s} : Phase(u)' = Phase(u)
  PROVE  Single!Move(s, Phase(s), to)
<1>1. Phases' = [Phases EXCEPT ![s] = to]
  BY DEF Phases
<1>2. Phases[s] = Phase(s)
  BY DEF Phases
<1> QED BY <1>1, <1>2 DEF Single!Move

\* A step that leaves every sender in its phase is none of SingleCommand.
LEMMA SingleStutter ==
  ASSUME disorder = "none", disorder' = "none", \A u \in Senders : Phase(u)' = Phase(u)
  PROVE  UNCHANGED Single!vars
<1>1. Phases' = Phases
  BY DEF Phases
<1> QED BY <1>1 DEF Single!vars

\* A step after which answers may be out of step ends the promise.
LEMMA SingleDistrust ==
  ASSUME disorder' # "none"
  PROVE  Single!Distrust
BY DEF Single!Distrust, Phases

\* Nothing is under way at the start.
LEMMA SingleInit == Init => Single!Init
BY DEF Init, Single!Init, Phases, Phase, Senders

\* Every step, while answers are in step, is a step of SingleCommand or none.
LEMMA SingleStep ==
  SlotInv /\ OneInFlight /\ OwnAnswer /\ [Next]_vars /\ disorder = "none" /\ disorder' = "none" => [Single!Next]_Single!vars
<1> SUFFICES ASSUME SlotInv, OneInFlight, OwnAnswer, [Next]_vars, disorder = "none", disorder' = "none"
             PROVE  [Single!Next]_Single!vars
  OBVIOUS
<1> USE NamesAssumption
<1> USE DEF SlotInv, TypeOK, PlacesOK, LockHeld, SlotOwned, Command, Goto, Leave, Disorder, finish_pending,
            send_safety_shutdown, Senders, OneInFlight, OwnAnswer
<1>1. ASSUME NEW s \in Senders, Acquire(s) PROVE [Single!Next]_Single!vars
  <2>1. \A u \in Senders \ {s} : Phase(u)' = Phase(u)
    BY <1>1, PhaseSame DEF Acquire
  <2>2. Phase(s) = "asked"
    BY <1>1 DEF Acquire, Phase
  <2>3. CASE open
    <3>1. Phase(s)' = "asked"
      BY <1>1, <2>3 DEF Acquire, Phase
    <3> QED BY <2>1, <2>2, <3>1, SingleStutter
  <2>4. CASE ~open
    <3>1. Phase(s)' = "idle"
      BY <1>1, <2>4 DEF Acquire, Phase
    <3> QED BY <2>1, <2>2, <3>1, SingleMove DEF Single!Next, Single!GiveUp
  <2> QED BY <2>3, <2>4
<1>2. ASSUME NEW s \in Senders, Write(s) PROVE [Single!Next]_Single!vars
  <2>1. \A u \in Senders \ {s} : Phase(u)' = Phase(u)
    BY <1>2, PhaseSame DEF Write
  <2>2. /\ finished_by[s] = None /\ cmd_lock = s /\ finished_by'[s] = None
        /\ pc[s] = "write" /\ pc'[s] = "wait"
    BY <1>2 DEF Write
  <2>3. Phase(s) = "asked" /\ Phase(s)' = "written"
    BY <2>2 DEF Phase
  <2>4. \A u \in Senders : Phases[u] # "written"
    BY <1>2, <2>2 DEF Write, Phases, Phase
  <2>5. Single!Write(s)
    BY <2>1, <2>3, <2>4, SingleMove DEF Single!Write
  <2> QED BY <2>5 DEF Single!Next
<1>3. ASSUME NEW s \in Senders, Finish(s) PROVE [Single!Next]_Single!vars
  <2>1. \A u \in Senders \ {s} : Phase(u)' = Phase(u)
    BY <1>3, PhaseSame DEF Finish
  <2>2. Phase(s) = "answered" /\ Phase(s)' = "idle"
    BY <1>3 DEF Finish, Phase
  <2> QED BY <2>1, <2>2, SingleMove DEF Single!Next, Single!Return
<1>4. ASSUME NEW s \in Senders, Timeout(s) PROVE [Single!Next]_Single!vars
  BY <1>4 DEF Timeout
<1>5. ASSUME NEW s \in Senders, WriteError(s) PROVE [Single!Next]_Single!vars
  <2>1. \A u \in Senders \ {s} : Phase(u)' = Phase(u)
    BY <1>5, PhaseSame DEF WriteError
  <2>2. Phase(s) = "asked" /\ Phase(s)' = "idle"
    BY <1>5 DEF WriteError, Phase
  <2> QED BY <2>1, <2>2, SingleMove DEF Single!Next, Single!GiveUp
<1>6. ASSUME NEW s \in Senders, Return(s) PROVE [Single!Next]_Single!vars
  <2>1. \A u \in Senders \ {s} : Phase(u)' = Phase(u)
    BY <1>6, PhaseSame DEF Return
  <2>2. Phase(s) = "idle" /\ Phase(s)' = "idle"
    BY <1>6 DEF Return, Phase
  <2> QED BY <2>1, <2>2, SingleStutter
<1>7. ASSUME NEW s \in Callers, execute_command(s) PROVE [Single!Next]_Single!vars
  <2>1. \A u \in Senders \ {s} : Phase(u)' = Phase(u)
    BY <1>7, PhaseSame DEF execute_command
  <2>2. Phase(s) = "idle" /\ Phase(s)' = "asked"
    BY <1>7 DEF execute_command, Phase
  <2> QED BY <2>1, <2>2, SingleMove DEF Single!Next, Single!Ask
<1>8. CASE start_job
  <2>1. \A u \in Senders \ {Job} : Phase(u)' = Phase(u)
    BY <1>8, PhaseSame DEF start_job
  <2>2. Phase(Job) = "idle" /\ Phase(Job)' = "idle"
    BY <1>8 DEF start_job, Phase
  <2> QED BY <2>1, <2>2, SingleStutter
<1>9. CASE RunHead
  <2>1. \A u \in Senders \ {Job} : Phase(u)' = Phase(u)
    BY <1>9, PhaseSame DEF RunHead
  <2>2. Phase(Job) = "idle" /\ Phase(Job)' \in {"idle", "asked"}
    BY <1>9 DEF RunHead, Phase
  <2>3. CASE Phase(Job)' = "idle"
    BY <2>1, <2>2, <2>3, SingleStutter
  <2>4. CASE Phase(Job)' = "asked"
    BY <2>1, <2>2, <2>4, SingleMove DEF Single!Next, Single!Ask
  <2> QED BY <2>2, <2>3, <2>4
<1>10. CASE RunAfter
  <2>1. \A u \in Senders \ {Job} : Phase(u)' = Phase(u)
    BY <1>10, PhaseSame DEF RunAfter
  <2>2. Phase(Job) = "idle" /\ Phase(Job)' = "idle"
    BY <1>10 DEF RunAfter, Phase
  <2> QED BY <2>1, <2>2, SingleStutter
<1>11. CASE RunEnd
  <2>1. \A u \in Senders \ {Job} : Phase(u)' = Phase(u)
    BY <1>11, PhaseSame DEF RunEnd
  <2>2. Phase(Job) = "idle" /\ Phase(Job)' = "idle"
    BY <1>11 DEF RunEnd, Phase
  <2> QED BY <2>1, <2>2, SingleStutter
<1>12. CASE RunShutdown
  <2>1. \A u \in Senders \ {Job} : Phase(u)' = Phase(u)
    BY <1>12, PhaseSame DEF RunShutdown
  <2>2. Phase(Job) = "idle" /\ Phase(Job)' = "idle"
    BY <1>12 DEF RunShutdown, Phase
  <2> QED BY <2>1, <2>2, SingleStutter
<1>13. CASE RunReport
  <2>1. \A u \in Senders \ {Job} : Phase(u)' = Phase(u)
    BY <1>13, PhaseSame DEF RunReport
  <2>2. Phase(Job) = "idle" /\ Phase(Job)' = "idle"
    BY <1>13 DEF RunReport, Phase
  <2> QED BY <2>1, <2>2, SingleStutter
<1>14. ASSUME NEW c \in Cancels, CancelFlags(c) PROVE [Single!Next]_Single!vars
  BY <1>14 DEF CancelFlags
<1>15. ASSUME NEW c \in Cancels, CancelReset(c) PROVE [Single!Next]_Single!vars
  <2>1. \A u \in Senders : Phase(u)' = Phase(u)
    BY <1>15, PhaseSame DEF CancelReset
  <2> QED BY <2>1, SingleStutter
<1>16. ASSUME NEW c \in Cancels, CancelSafety(c) PROVE [Single!Next]_Single!vars
  <2>1. \A u \in Senders : Phase(u)' = Phase(u)
    BY <1>16, PhaseSame DEF CancelSafety
  <2> QED BY <2>1, SingleStutter
<1>17. ASSUME NEW c \in Cancels, CancelEvent(c) PROVE [Single!Next]_Single!vars
  <2>1. \A u \in Senders : Phase(u)' = Phase(u)
    BY <1>17, PhaseSame DEF CancelEvent
  <2> QED BY <2>1, SingleStutter
<1>18. CASE handle_ok
  <2>1. PICK s \in Senders : pc[s] = "wait" /\ finished_by[s] = None /\ wire = <<Command(s)>>
    BY <1>18 DEF handle_ok
  <2>2. Head(wire) = Command(s) /\ cmd_lock = s
    BY <2>1
  <2>3. finished_by' = IF slot # None THEN [finished_by EXCEPT ![s] = Command(s)] ELSE finished_by
    BY <1>18, <2>1, <2>2 DEF handle_ok
  <2>4. \A u \in Senders \ {s} : Phase(u)' = Phase(u)
    BY <1>18, <2>3, PhaseSame DEF handle_ok
  <2>5. CASE slot = None
    <3>1. Phase(s)' = Phase(s)
      BY <1>18, <2>3, <2>5, PhaseSame DEF handle_ok
    <3> QED BY <2>4, <3>1, SingleStutter
  <2>6. CASE slot # None
    <3>1. Phase(s) = "written" /\ Phase(s)' = "answered"
      BY <1>18, <2>1, <2>3, <2>6 DEF handle_ok, Phase
    <3> QED BY <2>4, <3>1, SingleMove DEF Single!Next, Single!Answer
  <2> QED BY <2>5, <2>6
<1>19. CASE handle_error_line
  <2>1. PICK s \in Senders : pc[s] = "wait" /\ finished_by[s] = None /\ wire = <<Command(s)>>
    BY <1>19 DEF handle_error_line
  <2>2. Head(wire) = Command(s) /\ cmd_lock = s
    BY <2>1
  <2>3. finished_by' = IF slot # None THEN [finished_by EXCEPT ![s] = Command(s)] ELSE finished_by
    BY <1>19, <2>1, <2>2 DEF handle_error_line
  <2>4. \A u \in Senders \ {s} : Phase(u)' = Phase(u)
    BY <1>19, <2>3, PhaseSame DEF handle_error_line
  <2>5. CASE slot = None
    <3>1. Phase(s)' = Phase(s)
      BY <1>19, <2>3, <2>5, PhaseSame DEF handle_error_line
    <3> QED BY <2>4, <3>1, SingleStutter
  <2>6. CASE slot # None
    <3>1. Phase(s) = "written" /\ Phase(s)' = "answered"
      BY <1>19, <2>1, <2>3, <2>6 DEF handle_error_line, Phase
    <3> QED BY <2>4, <3>1, SingleMove DEF Single!Next, Single!Answer
  <2> QED BY <2>5, <2>6
<1>20. CASE handle_alarm
  BY <1>20 DEF handle_alarm
<1>21. CASE Raise
  <2>1. \A u \in Senders : Phase(u)' = Phase(u)
    BY <1>21, PhaseSame DEF Raise
  <2> QED BY <2>1, SingleStutter
<1>22. CASE handle_status_report
  <2>1. \A u \in Senders : Phase(u)' = Phase(u)
    BY <1>22, PhaseSame DEF handle_status_report
  <2> QED BY <2>1, SingleStutter
<1>23. CASE set_hold
  <2>1. \A u \in Senders : Phase(u)' = Phase(u)
    BY <1>23, PhaseSame DEF set_hold
  <2> QED BY <2>1, SingleStutter
<1>24. CASE LinkLost
  <2>1. \A u \in Senders : Phase(u)' = Phase(u)
    BY <1>24, PhaseSame DEF LinkLost
  <2> QED BY <2>1, SingleStutter
<1>25. CASE UNCHANGED vars
  <2>1. \A u \in Senders : Phase(u)' = Phase(u)
    BY <1>25, PhaseSame DEF vars
  <2> QED BY <2>1, SingleStutter
<1> QED
  BY <1>1, <1>2, <1>3, <1>4, <1>5, <1>6, <1>7, <1>8, <1>9, <1>10, <1>11, <1>12, <1>13, <1>14, <1>15,
     <1>16, <1>17, <1>18, <1>19, <1>20, <1>21, <1>22, <1>23, <1>24, <1>25 DEF Next, Exchange,
     RunStep, CancelStep

-----------------------------------------------------------------------------
(* What follows.                                                           *)

\* Every variable keeps its type, and the job's loop never sends more lines than the job has.
THEOREM TypeCorrect == Spec => []TypeOK
BY InvAlways, PTL DEF Inv, SlotInv

\* Whatever number of callers compete with the job, and however they time out, fail, are cancelled
\* or meet an ALARM, the slot is empty or holds the command of the sender that has cmd_lock: no way
\* out of ping_pong leaves a command behind.
THEOREM SlotAlwaysOwned == Spec => []SlotOwned
BY InvAlways, PTL DEF Inv, SlotInv

\* For any number of callers beside the job, every command is finished by the answer to itself as
\* long as nothing timed out, was cancelled, shut down or met an ALARM.
THEOREM EachItsOwnAnswer == Spec => []OwnAnswer
<1>1. InStep => OwnAnswer
  BY DEF InStep, OwnAnswer
<1> QED BY InvAlways, <1>1, PTL DEF Inv
\* As long as nothing timed out, was cancelled, shut down or met an ALARM, every behaviour of callers,
\* job, reader and device is one of SingleCommand: one line with the device at a time, and every sender
\* goes on with the answer to its own line, for any number of callers.
THEOREM Refinement == Spec => ImplementsSingle
<1>1. Inv /\ [Next]_vars => [Single!Next]_Single!vars
  <2> SUFFICES ASSUME Inv, [Next]_vars PROVE [Single!Next]_Single!vars
    OBVIOUS
  <2>1. CASE disorder' # "none"
    BY <2>1, SingleDistrust DEF Single!Next
  <2>2. CASE disorder' = "none"
    BY <2>2, InStepBefore, SingleStep DEF Inv, InStep
  <2> QED BY <2>1, <2>2
<1>2. ImplementsSingle <=> Single!Init /\ [][Single!Next]_Single!vars
  BY DEF ImplementsSingle, Single!Spec
<1> QED BY InvAlways, SingleInit, <1>1, <1>2, PTL DEF Spec
=============================================================================
