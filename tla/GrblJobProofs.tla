---------------------------- MODULE GrblJobProofs ----------------------------
(***************************************************************************)
(* Theorems about GrblJob for every set of runs, of cancel() calls and of  *)
(* execute_command and set_hold calls, every job length and every choice   *)
(* of faults.                                                              *)
(***************************************************************************)
EXTENDS GrblJob, TLAPS, FiniteSetTheorems

-----------------------------------------------------------------------------
(* The inductive invariants.                                               *)

\* The label of a run before its task exists.
Early == {"idle", "start", "abort_old", "reap_old", "spawn"}
\* The streaming task has left its loop and handles its own end.
Ending == {"cancelling", "finally", "report", "done"}

\* A task exists once its run has spawned it, it is finished when it is done, and it cancels
\* itself only at its own end.
TaskLife ==
    \A k \in Runs :
        /\ run_pc[k] \in Early <=> stream_pc[k] = "none"
        /\ k \in finished <=> stream_pc[k] = "done"
        /\ stream_pc[k] \in {"lock", "send"} => left[k] > 0
        /\ cancel_pc[k] # "idle" => stream_pc[k] \in Ending

\* What a cancel() or a new run() has waited for is finished.
ReapedFinished ==
    /\ \A u \in Users : cancel_pc[u] \in {"safety", "event", "done"} => reaping[u] \in finished \cup {NoRun}
    /\ \A k \in Runs : run_pc[k] \in Spawned \cup {"spawn"} => reaping[k] \in finished \cup {NoRun}

\* From the tool-off commands of a cancel() on, only a task that it did not wait for can turn the
\* tool on again, and that task has sent a line.
ToolOff ==
    \A c \in Cancellers :
        /\ cancel_pc[c] \in {"event", "done"} /\ (c \in Runs \/ reaping[c] # NoRun) /\ link
        /\ \A k \in Runs \ {c, reaping[c]} : left[k] = Lines
        => tool = "off"

Inv == TypeOK /\ TaskLife /\ ReapedFinished /\ ToolOff

\* No user has called cancel() and the link has held.
Quiet == link /\ \A u \in Users : cancel_pc[u] = "idle"

\* Then the only run there is has its task to itself: nothing aborts it, nothing but its own
\* cancel() sets the cancellation or clears job_running, ...
Undisturbed(k) ==
    /\ aborted = {} /\ (run_pc[k] \in Early => stream_task = NoRun)
    /\ is_cancelled => cancel_pc[k] \notin {"idle", "load", "set"}
    /\ run_pc[k] \notin {"idle", "start"} /\ stream_pc[k] \notin {"report", "done"} /\ cancel_pc[k] \in {"idle", "load"} =>
            job_running = TRUE
    /\ cancel_pc[k] \notin {"idle", "load"} => job_was_running[k] = TRUE
    /\ cancel_pc[k] \notin {"reap", "failed", "dropped"}

\* ... an error goes through the interrupt handler, ...
Interrupted(k) ==
    /\ stream_pc[k] \in {"interrupt", "cancelling"} => outcome[k] = "err"
    /\ stream_pc[k] = "cancelling" => cancel_pc[k] # "idle"
    /\ stream_pc[k] \in {"finally", "report", "done"} =>
            IF outcome[k] = "ok" THEN cancel_pc[k] = "idle" ELSE cancel_pc[k] = "done"

\* ... and the one report comes from cancel() or from the task's end.
Reported(k) ==
    /\ job_finished = IF cancel_pc[k] = "done" \/ stream_pc[k] = "done" THEN 1 ELSE 0
    /\ run_pc[k] \in {"clear", "returned"} => k \in finished

Alone == Quiet => \A k \in Runs : Undisturbed(k) /\ Interrupted(k) /\ Reported(k)

\* Before the first call no task exists and nothing is reaped or reported.
LEMMA InvInit == Init => Inv /\ Alone
<1> SUFFICES ASSUME Init PROVE Inv /\ Alone
  OBVIOUS
<1> USE RunsAssumption, LinesAssumption
<1>1. FlagsOK
  BY Zenon DEF Init, FlagsOK
<1>2. PlacesOK
  BY DEF Init, PlacesOK, RunPC, StreamPC, CancelPC, CallPC
<1>3. TaskLife /\ ReapedFinished /\ ToolOff
  BY DEF Init, TaskLife, ReapedFinished, ToolOff, Early, Spawned, Cancellers
<1>4. Alone
  BY DEF Init, Alone, Undisturbed, Interrupted, Reported, Early, Cancellers
<1> QED BY <1>1, <1>2, <1>3, <1>4 DEF Inv, TypeOK

-----------------------------------------------------------------------------
(* The tasks.                                                              *)

\* Every step keeps the flags Boolean.
LEMMA FlagsStep == FlagsOK /\ [Next]_vars => FlagsOK'
<1> SUFFICES ASSUME FlagsOK, [Next]_vars PROVE FlagsOK'
  OBVIOUS
<1> USE DEF FlagsOK, flags, device, cancels
<1>1. ASSUME NEW k \in Runs, RunUncancel(k) PROVE FlagsOK' BY <1>1, Zenon DEF RunUncancel
<1>2. ASSUME NEW k \in Runs, RunStart(k) PROVE FlagsOK' BY <1>2, Zenon DEF RunStart
<1>3. ASSUME NEW k \in Runs, RunAbortOld(k) PROVE FlagsOK' BY <1>3, Zenon DEF RunAbortOld
<1>4. ASSUME NEW k \in Runs, RunReapOld(k) PROVE FlagsOK' BY <1>4, Zenon DEF RunReapOld
<1>5. ASSUME NEW k \in Runs, RunSpawn(k) PROVE FlagsOK' BY <1>5, Zenon DEF RunSpawn
<1>6. ASSUME NEW k \in Runs, RunStore(k) PROVE FlagsOK' BY <1>6, Zenon DEF RunStore
<1>7. ASSUME NEW k \in Runs, RunAwait(k) PROVE FlagsOK' BY <1>7, Zenon DEF RunAwait
<1>8. ASSUME NEW k \in Runs, RunClear(k) PROVE FlagsOK' BY <1>8, Zenon DEF RunClear
<1>9. ASSUME NEW k \in Runs, StreamCheck(k) PROVE FlagsOK' BY <1>9, Zenon DEF StreamCheck
<1>10. ASSUME NEW k \in Runs, StreamSend(k) PROVE FlagsOK' BY <1>10, Zenon DEF StreamSend
<1>11. ASSUME NEW k \in Runs, StreamSendFails(k) PROVE FlagsOK' BY <1>11, Zenon DEF StreamSendFails
<1>12. ASSUME NEW k \in Runs, StreamStall(k) PROVE FlagsOK' BY <1>12, Zenon DEF StreamStall
<1>13. ASSUME NEW k \in Runs, StreamAfter(k) PROVE FlagsOK' BY <1>13, Zenon DEF StreamAfter
<1>14. ASSUME NEW k \in Runs, StreamYield(k) PROVE FlagsOK' BY <1>14, Zenon DEF StreamYield
<1>15. ASSUME NEW k \in Runs, StreamEnd(k) PROVE FlagsOK' BY <1>15, Zenon DEF StreamEnd
<1>16. ASSUME NEW k \in Runs, StreamDrained(k) PROVE FlagsOK' BY <1>16, Zenon DEF StreamDrained
<1>17. ASSUME NEW k \in Runs, StreamDrainStops(k) PROVE FlagsOK' BY <1>17, Zenon DEF StreamDrainStops
<1>18. ASSUME NEW k \in Runs, StreamDrainDead(k) PROVE FlagsOK' BY <1>18, Zenon DEF StreamDrainDead
<1>19. ASSUME NEW k \in Runs, StreamTake(k) PROVE FlagsOK' BY <1>19, Zenon DEF StreamTake
<1>20. ASSUME NEW k \in Runs, StreamInterrupt(k) PROVE FlagsOK' BY <1>20, Zenon DEF StreamInterrupt
<1>21. ASSUME NEW k \in Runs, StreamCancelled(k) PROVE FlagsOK' BY <1>21, Zenon DEF StreamCancelled
<1>22. ASSUME NEW k \in Runs, StreamFinally(k) PROVE FlagsOK' BY <1>22, Zenon DEF StreamFinally
<1>23. ASSUME NEW k \in Runs, StreamReport(k) PROVE FlagsOK' BY <1>23, Zenon DEF StreamReport
<1>24. ASSUME NEW k \in Runs, StreamDrop(k) PROVE FlagsOK' BY <1>24, Zenon DEF StreamDrop
<1>25. ASSUME NEW c \in Cancellers, CancelLoad(c) PROVE FlagsOK' BY <1>25, Zenon DEF CancelLoad
<1>26. ASSUME NEW c \in Cancellers, CancelSet(c) PROVE FlagsOK' BY <1>26, Zenon DEF CancelSet
<1>27. ASSUME NEW c \in Cancellers, CancelClear(c) PROVE FlagsOK' BY <1>27, Zenon DEF CancelClear
<1>28. ASSUME NEW c \in Cancellers, CancelWrite(c) PROVE FlagsOK' BY <1>28, Zenon DEF CancelWrite
<1>29. ASSUME NEW c \in Cancellers, CancelAbort(c) PROVE FlagsOK' BY <1>29, Zenon DEF CancelAbort
<1>30. ASSUME NEW c \in Cancellers, CancelReap(c) PROVE FlagsOK' BY <1>30, Zenon DEF CancelReap
<1>31. ASSUME NEW c \in Cancellers, CancelSafety(c) PROVE FlagsOK' BY <1>31, Zenon DEF CancelSafety
<1>32. ASSUME NEW c \in Cancellers, CancelEvent(c) PROVE FlagsOK' BY <1>32, Zenon DEF CancelEvent
<1>33. ASSUME NEW u \in Calls, CallBegin(u) PROVE FlagsOK' BY <1>33, Zenon DEF CallBegin
<1>34. ASSUME NEW u \in Calls, CallLoad(u) PROVE FlagsOK' BY <1>34, Zenon DEF CallLoad
<1>35. ASSUME NEW u \in Calls, CallSlot(u) PROVE FlagsOK' BY <1>35, Zenon DEF CallSlot
<1>36. ASSUME NEW u \in Calls, CallStore(u) PROVE FlagsOK' BY <1>36, Zenon DEF CallStore
<1>37. ASSUME NEW u \in Calls, CallLast(u) PROVE FlagsOK' BY <1>37, Zenon DEF CallLast
<1>38. CASE DeviceError BY <1>38, Zenon DEF DeviceError
<1>39. CASE StatusReport BY <1>39, Zenon DEF StatusReport
<1>40. CASE LinkLost BY <1>40, Zenon DEF LinkLost
<1>41. CASE UNCHANGED vars BY <1>41 DEF vars
<1>42. ASSUME NEW k \in Runs, StreamLock(k) PROVE FlagsOK' BY <1>42, Zenon DEF StreamLock
<1>43. ASSUME NEW u \in Calls, InteractiveLock(u) PROVE FlagsOK' BY <1>43, Zenon DEF InteractiveLock
<1>44. ASSUME NEW u \in Calls, InteractiveReturn(u) PROVE FlagsOK' BY <1>44, Zenon DEF InteractiveReturn
<1> QED
  BY <1>1, <1>2, <1>3, <1>4, <1>5, <1>6, <1>7, <1>8, <1>9, <1>10, <1>11, <1>12, <1>13, <1>14, <1>15, <1>16,
     <1>17, <1>18, <1>19, <1>20, <1>21, <1>22, <1>23, <1>24, <1>25, <1>26, <1>27, <1>28, <1>29, <1>30, <1>31,
     <1>32, <1>33, <1>34, <1>35, <1>36, <1>37, <1>38, <1>39, <1>40, <1>41, <1>42, <1>43, <1>44
  DEF Next, RunStep, StreamStep,
     CancelStep, CallStep

\* Every step keeps every other variable in its type.
LEMMA PlacesStep == TypeOK /\ TaskLife /\ [Next]_vars => PlacesOK'
<1> SUFFICES ASSUME TypeOK, TaskLife, [Next]_vars PROVE PlacesOK'
  OBVIOUS
<1> USE RunsAssumption, LinesAssumption
<1> USE DEF TypeOK, PlacesOK, TaskLife, RunPC, StreamPC, CancelPC, CallPC, Cancellers, flags, device,
        streams, cancels, vars,
            RunGoto, StreamGoto, CancelGoto, CallGoto, TakeHandle
<1>1. ASSUME NEW k \in Runs, RunUncancel(k) PROVE PlacesOK' BY <1>1 DEF RunUncancel
<1>2. ASSUME NEW k \in Runs, RunStart(k) PROVE PlacesOK' BY <1>2 DEF RunStart
<1>3. ASSUME NEW k \in Runs, RunAbortOld(k) PROVE PlacesOK' BY <1>3 DEF RunAbortOld
<1>4. ASSUME NEW k \in Runs, RunReapOld(k) PROVE PlacesOK' BY <1>4 DEF RunReapOld
<1>5. ASSUME NEW k \in Runs, RunSpawn(k) PROVE PlacesOK' BY <1>5 DEF RunSpawn
<1>6. ASSUME NEW k \in Runs, RunStore(k) PROVE PlacesOK' BY <1>6 DEF RunStore
<1>7. ASSUME NEW k \in Runs, RunAwait(k) PROVE PlacesOK' BY <1>7 DEF RunAwait
<1>8. ASSUME NEW k \in Runs, RunClear(k) PROVE PlacesOK' BY <1>8 DEF RunClear
<1>9. ASSUME NEW k \in Runs, StreamCheck(k) PROVE PlacesOK' BY <1>9 DEF StreamCheck
<1>10. ASSUME NEW k \in Runs, StreamSend(k) PROVE PlacesOK' BY <1>10 DEF StreamSend
<1>11. ASSUME NEW k \in Runs, StreamSendFails(k) PROVE PlacesOK' BY <1>11 DEF StreamSendFails
<1>12. ASSUME NEW k \in Runs, StreamStall(k) PROVE PlacesOK' BY <1>12 DEF StreamStall
<1>13. ASSUME NEW k \in Runs, StreamAfter(k) PROVE PlacesOK' BY <1>13 DEF StreamAfter
<1>14. ASSUME NEW k \in Runs, StreamYield(k) PROVE PlacesOK' BY <1>14 DEF StreamYield
<1>15. ASSUME NEW k \in Runs, StreamEnd(k) PROVE PlacesOK' BY <1>15 DEF StreamEnd
<1>16. ASSUME NEW k \in Runs, StreamDrained(k) PROVE PlacesOK' BY <1>16 DEF StreamDrained
<1>17. ASSUME NEW k \in Runs, StreamDrainStops(k) PROVE PlacesOK' BY <1>17 DEF StreamDrainStops
<1>18. ASSUME NEW k \in Runs, StreamDrainDead(k) PROVE PlacesOK' BY <1>18 DEF StreamDrainDead
<1>19. ASSUME NEW k \in Runs, StreamTake(k) PROVE PlacesOK' BY <1>19 DEF StreamTake
<1>20. ASSUME NEW k \in Runs, StreamInterrupt(k) PROVE PlacesOK' BY <1>20 DEF StreamInterrupt
<1>21. ASSUME NEW k \in Runs, StreamCancelled(k) PROVE PlacesOK' BY <1>21 DEF StreamCancelled
<1>22. ASSUME NEW k \in Runs, StreamFinally(k) PROVE PlacesOK' BY <1>22 DEF StreamFinally
<1>23. ASSUME NEW k \in Runs, StreamReport(k) PROVE PlacesOK' BY <1>23 DEF StreamReport
<1>24. ASSUME NEW k \in Runs, StreamDrop(k) PROVE PlacesOK' BY <1>24 DEF StreamDrop
<1>25. ASSUME NEW c \in Cancellers, CancelLoad(c) PROVE PlacesOK' BY <1>25 DEF CancelLoad
<1>26. ASSUME NEW c \in Cancellers, CancelSet(c) PROVE PlacesOK' BY <1>26 DEF CancelSet
<1>27. ASSUME NEW c \in Cancellers, CancelClear(c) PROVE PlacesOK' BY <1>27 DEF CancelClear
<1>28. ASSUME NEW c \in Cancellers, CancelWrite(c) PROVE PlacesOK' BY <1>28 DEF CancelWrite
<1>29. ASSUME NEW c \in Cancellers, CancelAbort(c) PROVE PlacesOK' BY <1>29 DEF CancelAbort
<1>30. ASSUME NEW c \in Cancellers, CancelReap(c) PROVE PlacesOK' BY <1>30 DEF CancelReap
<1>31. ASSUME NEW c \in Cancellers, CancelSafety(c) PROVE PlacesOK' BY <1>31 DEF CancelSafety
<1>32. ASSUME NEW c \in Cancellers, CancelEvent(c) PROVE PlacesOK' BY <1>32 DEF CancelEvent
<1>33. ASSUME NEW u \in Calls, CallBegin(u) PROVE PlacesOK' BY <1>33 DEF CallBegin
<1>34. ASSUME NEW u \in Calls, CallLoad(u) PROVE PlacesOK' BY <1>34 DEF CallLoad
<1>35. ASSUME NEW u \in Calls, CallSlot(u) PROVE PlacesOK' BY <1>35 DEF CallSlot
<1>36. ASSUME NEW u \in Calls, CallStore(u) PROVE PlacesOK' BY <1>36 DEF CallStore
<1>37. ASSUME NEW u \in Calls, CallLast(u) PROVE PlacesOK' BY <1>37 DEF CallLast
<1>38. CASE DeviceError BY <1>38 DEF DeviceError
<1>39. CASE StatusReport BY <1>39 DEF StatusReport
<1>40. CASE LinkLost BY <1>40 DEF LinkLost
<1>41. CASE UNCHANGED vars BY <1>41 DEF vars
<1>42. ASSUME NEW k \in Runs, StreamLock(k) PROVE PlacesOK' BY <1>42 DEF StreamLock
<1>43. ASSUME NEW u \in Calls, InteractiveLock(u) PROVE PlacesOK' BY <1>43 DEF InteractiveLock
<1>44. ASSUME NEW u \in Calls, InteractiveReturn(u) PROVE PlacesOK' BY <1>44 DEF InteractiveReturn
<1> QED
  BY <1>1, <1>2, <1>3, <1>4, <1>5, <1>6, <1>7, <1>8, <1>9, <1>10, <1>11, <1>12, <1>13, <1>14, <1>15, <1>16,
     <1>17, <1>18, <1>19, <1>20, <1>21, <1>22, <1>23, <1>24, <1>25, <1>26, <1>27, <1>28, <1>29, <1>30, <1>31,
     <1>32, <1>33, <1>34, <1>35, <1>36, <1>37, <1>38, <1>39, <1>40, <1>41, <1>42, <1>43, <1>44
  DEF Next, RunStep, StreamStep,
     CancelStep, CallStep

\* Every step keeps the life of a task in order.
LEMMA TaskStep == TypeOK /\ TaskLife /\ [Next]_vars => TaskLife'
<1> SUFFICES ASSUME TypeOK, TaskLife, [Next]_vars PROVE TaskLife'
  OBVIOUS
<1> USE RunsAssumption, LinesAssumption
<1> USE DEF TypeOK, PlacesOK, TaskLife, Early, Ending, Cancellers, streams, cancels, vars, RunGoto,
        StreamGoto, CancelGoto, TakeHandle, Awaits
<1>1. ASSUME NEW k \in Runs, RunUncancel(k) PROVE TaskLife' BY <1>1 DEF RunUncancel
<1>2. ASSUME NEW k \in Runs, RunStart(k) PROVE TaskLife' BY <1>2 DEF RunStart
<1>3. ASSUME NEW k \in Runs, RunAbortOld(k) PROVE TaskLife' BY <1>3 DEF RunAbortOld
<1>4. ASSUME NEW k \in Runs, RunReapOld(k) PROVE TaskLife' BY <1>4 DEF RunReapOld
<1>5. ASSUME NEW k \in Runs, RunSpawn(k) PROVE TaskLife' BY <1>5 DEF RunSpawn
<1>6. ASSUME NEW k \in Runs, RunStore(k) PROVE TaskLife' BY <1>6 DEF RunStore
<1>7. ASSUME NEW k \in Runs, RunAwait(k) PROVE TaskLife' BY <1>7 DEF RunAwait
<1>8. ASSUME NEW k \in Runs, RunClear(k) PROVE TaskLife' BY <1>8 DEF RunClear
<1>9. ASSUME NEW k \in Runs, StreamCheck(k) PROVE TaskLife' BY <1>9 DEF StreamCheck
<1>10. ASSUME NEW k \in Runs, StreamSend(k) PROVE TaskLife' BY <1>10 DEF StreamSend
<1>11. ASSUME NEW k \in Runs, StreamSendFails(k) PROVE TaskLife' BY <1>11 DEF StreamSendFails
<1>12. ASSUME NEW k \in Runs, StreamStall(k) PROVE TaskLife' BY <1>12 DEF StreamStall
<1>13. ASSUME NEW k \in Runs, StreamAfter(k) PROVE TaskLife' BY <1>13 DEF StreamAfter
<1>14. ASSUME NEW k \in Runs, StreamYield(k) PROVE TaskLife' BY <1>14 DEF StreamYield
<1>15. ASSUME NEW k \in Runs, StreamEnd(k) PROVE TaskLife' BY <1>15 DEF StreamEnd
<1>16. ASSUME NEW k \in Runs, StreamDrained(k) PROVE TaskLife' BY <1>16 DEF StreamDrained
<1>17. ASSUME NEW k \in Runs, StreamDrainStops(k) PROVE TaskLife' BY <1>17 DEF StreamDrainStops
<1>18. ASSUME NEW k \in Runs, StreamDrainDead(k) PROVE TaskLife' BY <1>18 DEF StreamDrainDead
<1>19. ASSUME NEW k \in Runs, StreamTake(k) PROVE TaskLife' BY <1>19 DEF StreamTake
<1>20. ASSUME NEW k \in Runs, StreamInterrupt(k) PROVE TaskLife' BY <1>20 DEF StreamInterrupt
<1>21. ASSUME NEW k \in Runs, StreamCancelled(k) PROVE TaskLife' BY <1>21 DEF StreamCancelled
<1>22. ASSUME NEW k \in Runs, StreamFinally(k) PROVE TaskLife' BY <1>22 DEF StreamFinally
<1>23. ASSUME NEW k \in Runs, StreamReport(k) PROVE TaskLife' BY <1>23 DEF StreamReport
<1>24. ASSUME NEW k \in Runs, StreamDrop(k) PROVE TaskLife' BY <1>24 DEF StreamDrop
<1>25. ASSUME NEW c \in Cancellers, CancelLoad(c) PROVE TaskLife' BY <1>25 DEF CancelLoad
<1>26. ASSUME NEW c \in Cancellers, CancelSet(c) PROVE TaskLife' BY <1>26 DEF CancelSet
<1>27. ASSUME NEW c \in Cancellers, CancelClear(c) PROVE TaskLife' BY <1>27 DEF CancelClear
<1>28. ASSUME NEW c \in Cancellers, CancelWrite(c) PROVE TaskLife' BY <1>28 DEF CancelWrite
<1>29. ASSUME NEW c \in Cancellers, CancelAbort(c) PROVE TaskLife' BY <1>29 DEF CancelAbort
<1>30. ASSUME NEW c \in Cancellers, CancelReap(c) PROVE TaskLife' BY <1>30 DEF CancelReap
<1>31. ASSUME NEW c \in Cancellers, CancelSafety(c) PROVE TaskLife' BY <1>31 DEF CancelSafety
<1>32. ASSUME NEW c \in Cancellers, CancelEvent(c) PROVE TaskLife' BY <1>32 DEF CancelEvent
<1>33. ASSUME NEW u \in Calls, CallBegin(u) PROVE TaskLife' BY <1>33 DEF CallBegin
<1>34. ASSUME NEW u \in Calls, CallLoad(u) PROVE TaskLife' BY <1>34 DEF CallLoad
<1>35. ASSUME NEW u \in Calls, CallSlot(u) PROVE TaskLife' BY <1>35 DEF CallSlot
<1>36. ASSUME NEW u \in Calls, CallStore(u) PROVE TaskLife' BY <1>36 DEF CallStore
<1>37. ASSUME NEW u \in Calls, CallLast(u) PROVE TaskLife' BY <1>37 DEF CallLast
<1>38. CASE DeviceError BY <1>38 DEF DeviceError
<1>39. CASE StatusReport BY <1>39 DEF StatusReport
<1>40. CASE LinkLost BY <1>40 DEF LinkLost
<1>41. CASE UNCHANGED vars BY <1>41 DEF vars
<1>42. ASSUME NEW k \in Runs, StreamLock(k) PROVE TaskLife' BY <1>42 DEF StreamLock
<1>43. ASSUME NEW u \in Calls, InteractiveLock(u) PROVE TaskLife' BY <1>43 DEF InteractiveLock
<1>44. ASSUME NEW u \in Calls, InteractiveReturn(u) PROVE TaskLife' BY <1>44 DEF InteractiveReturn
<1> QED
  BY <1>1, <1>2, <1>3, <1>4, <1>5, <1>6, <1>7, <1>8, <1>9, <1>10, <1>11, <1>12, <1>13, <1>14, <1>15, <1>16,
     <1>17, <1>18, <1>19, <1>20, <1>21, <1>22, <1>23, <1>24, <1>25, <1>26, <1>27, <1>28, <1>29, <1>30, <1>31,
     <1>32, <1>33, <1>34, <1>35, <1>36, <1>37, <1>38, <1>39, <1>40, <1>41, <1>42, <1>43, <1>44
  DEF Next, RunStep, StreamStep,
     CancelStep, CallStep

\* Every step keeps what was waited for finished.
LEMMA ReapStep == TypeOK /\ TaskLife /\ ReapedFinished /\ [Next]_vars => ReapedFinished'
<1> SUFFICES ASSUME TypeOK, TaskLife, ReapedFinished, [Next]_vars PROVE ReapedFinished'
  OBVIOUS
<1> USE RunsAssumption
<1> USE DEF TypeOK, PlacesOK, TaskLife, ReapedFinished, Early, Ending, Spawned, Cancellers, streams,
        cancels, vars, RunGoto, CancelGoto,
            TakeHandle, Reaped
<1>1. ASSUME NEW k \in Runs, RunUncancel(k) PROVE ReapedFinished' BY <1>1 DEF RunUncancel
<1>2. ASSUME NEW k \in Runs, RunStart(k) PROVE ReapedFinished' BY <1>2 DEF RunStart
<1>3. ASSUME NEW k \in Runs, RunAbortOld(k) PROVE ReapedFinished' BY <1>3 DEF RunAbortOld
<1>4. ASSUME NEW k \in Runs, RunReapOld(k) PROVE ReapedFinished' BY <1>4 DEF RunReapOld
<1>5. ASSUME NEW k \in Runs, RunSpawn(k) PROVE ReapedFinished' BY <1>5 DEF RunSpawn
<1>6. ASSUME NEW k \in Runs, RunStore(k) PROVE ReapedFinished' BY <1>6 DEF RunStore
<1>7. ASSUME NEW k \in Runs, RunAwait(k) PROVE ReapedFinished' BY <1>7 DEF RunAwait
<1>8. ASSUME NEW k \in Runs, RunClear(k) PROVE ReapedFinished' BY <1>8 DEF RunClear
<1>9. ASSUME NEW k \in Runs, StreamCheck(k) PROVE ReapedFinished' BY <1>9 DEF StreamCheck
<1>10. ASSUME NEW k \in Runs, StreamSend(k) PROVE ReapedFinished' BY <1>10 DEF StreamSend
<1>11. ASSUME NEW k \in Runs, StreamSendFails(k) PROVE ReapedFinished' BY <1>11 DEF StreamSendFails
<1>12. ASSUME NEW k \in Runs, StreamStall(k) PROVE ReapedFinished' BY <1>12 DEF StreamStall
<1>13. ASSUME NEW k \in Runs, StreamAfter(k) PROVE ReapedFinished' BY <1>13 DEF StreamAfter
<1>14. ASSUME NEW k \in Runs, StreamYield(k) PROVE ReapedFinished' BY <1>14 DEF StreamYield
<1>15. ASSUME NEW k \in Runs, StreamEnd(k) PROVE ReapedFinished' BY <1>15 DEF StreamEnd
<1>16. ASSUME NEW k \in Runs, StreamDrained(k) PROVE ReapedFinished' BY <1>16 DEF StreamDrained
<1>17. ASSUME NEW k \in Runs, StreamDrainStops(k) PROVE ReapedFinished' BY <1>17 DEF StreamDrainStops
<1>18. ASSUME NEW k \in Runs, StreamDrainDead(k) PROVE ReapedFinished' BY <1>18 DEF StreamDrainDead
<1>19. ASSUME NEW k \in Runs, StreamTake(k) PROVE ReapedFinished' BY <1>19 DEF StreamTake
<1>20. ASSUME NEW k \in Runs, StreamInterrupt(k) PROVE ReapedFinished' BY <1>20 DEF StreamInterrupt
<1>21. ASSUME NEW k \in Runs, StreamCancelled(k) PROVE ReapedFinished' BY <1>21 DEF StreamCancelled
<1>22. ASSUME NEW k \in Runs, StreamFinally(k) PROVE ReapedFinished' BY <1>22 DEF StreamFinally
<1>23. ASSUME NEW k \in Runs, StreamReport(k) PROVE ReapedFinished' BY <1>23 DEF StreamReport
<1>24. ASSUME NEW k \in Runs, StreamDrop(k) PROVE ReapedFinished' BY <1>24 DEF StreamDrop
<1>25. ASSUME NEW c \in Cancellers, CancelLoad(c) PROVE ReapedFinished' BY <1>25 DEF CancelLoad
<1>26. ASSUME NEW c \in Cancellers, CancelSet(c) PROVE ReapedFinished' BY <1>26 DEF CancelSet
<1>27. ASSUME NEW c \in Cancellers, CancelClear(c) PROVE ReapedFinished' BY <1>27 DEF CancelClear
<1>28. ASSUME NEW c \in Cancellers, CancelWrite(c) PROVE ReapedFinished' BY <1>28 DEF CancelWrite
<1>29. ASSUME NEW c \in Cancellers, CancelAbort(c) PROVE ReapedFinished' BY <1>29 DEF CancelAbort
<1>30. ASSUME NEW c \in Cancellers, CancelReap(c) PROVE ReapedFinished' BY <1>30 DEF CancelReap
<1>31. ASSUME NEW c \in Cancellers, CancelSafety(c) PROVE ReapedFinished' BY <1>31 DEF CancelSafety
<1>32. ASSUME NEW c \in Cancellers, CancelEvent(c) PROVE ReapedFinished' BY <1>32 DEF CancelEvent
<1>33. ASSUME NEW u \in Calls, CallBegin(u) PROVE ReapedFinished' BY <1>33 DEF CallBegin
<1>34. ASSUME NEW u \in Calls, CallLoad(u) PROVE ReapedFinished' BY <1>34 DEF CallLoad
<1>35. ASSUME NEW u \in Calls, CallSlot(u) PROVE ReapedFinished' BY <1>35 DEF CallSlot
<1>36. ASSUME NEW u \in Calls, CallStore(u) PROVE ReapedFinished' BY <1>36 DEF CallStore
<1>37. ASSUME NEW u \in Calls, CallLast(u) PROVE ReapedFinished' BY <1>37 DEF CallLast
<1>38. CASE DeviceError BY <1>38 DEF DeviceError
<1>39. CASE StatusReport BY <1>39 DEF StatusReport
<1>40. CASE LinkLost BY <1>40 DEF LinkLost
<1>41. CASE UNCHANGED vars BY <1>41 DEF vars
<1>42. ASSUME NEW k \in Runs, StreamLock(k) PROVE ReapedFinished' BY <1>42 DEF StreamLock
<1>43. ASSUME NEW u \in Calls, InteractiveLock(u) PROVE ReapedFinished' BY <1>43 DEF InteractiveLock
<1>44. ASSUME NEW u \in Calls, InteractiveReturn(u) PROVE ReapedFinished' BY <1>44 DEF InteractiveReturn
<1> QED
  BY <1>1, <1>2, <1>3, <1>4, <1>5, <1>6, <1>7, <1>8, <1>9, <1>10, <1>11, <1>12, <1>13, <1>14, <1>15, <1>16,
     <1>17, <1>18, <1>19, <1>20, <1>21, <1>22, <1>23, <1>24, <1>25, <1>26, <1>27, <1>28, <1>29, <1>30, <1>31,
     <1>32, <1>33, <1>34, <1>35, <1>36, <1>37, <1>38, <1>39, <1>40, <1>41, <1>42, <1>43, <1>44
  DEF Next, RunStep, StreamStep,
     CancelStep, CallStep

-----------------------------------------------------------------------------
(* The tool.                                                               *)

\* A task that a cancel() past its tool-off commands has waited for, or that made the call, sends no more.
LEMMA CoveredSilent ==
  Inv => \A c \in Cancellers, k \in Runs :
            cancel_pc[c] \in {"event", "done"} /\ stream_pc[k] = "send" => k # c /\ k # reaping[c]
<1> SUFFICES ASSUME Inv, NEW c \in Cancellers, NEW k \in Runs, cancel_pc[c] \in {"event", "done"}, stream_pc[k] = "send"
             PROVE  k # c /\ k # reaping[c]
  OBVIOUS
<1> USE RunsAssumption DEF Inv, TaskLife, ReapedFinished
<1>1. CASE c \in Runs
  <2>1. stream_pc[c] \in Ending
    BY <1>1
  <2>2. run_pc[c] \in Spawned
    BY <1>1, <2>1 DEF TypeOK, PlacesOK, RunPC, Spawned, Early, Ending
  <2> QED BY <1>1, <2>1, <2>2 DEF Ending
<1>2. CASE c \in Users
  BY <1>2
<1> QED BY <1>1, <1>2 DEF Cancellers

\* Every step keeps the tool off.
LEMMA ToolStep == Inv /\ [Next]_vars => ToolOff'
<1> SUFFICES ASSUME Inv, [Next]_vars PROVE ToolOff'
  OBVIOUS
<1> USE RunsAssumption, LinesAssumption
<1> USE DEF Inv, TypeOK, PlacesOK, ToolOff, Cancellers, streams, cancels, device, vars, CancelGoto,
        TakeHandle
<1>1. ASSUME NEW k \in Runs, RunUncancel(k) PROVE ToolOff' BY <1>1 DEF RunUncancel
<1>2. ASSUME NEW k \in Runs, RunStart(k) PROVE ToolOff' BY <1>2 DEF RunStart
<1>3. ASSUME NEW k \in Runs, RunAbortOld(k) PROVE ToolOff'
  <2>1. cancel_pc[k] = "idle" /\ \A c \in Cancellers \ {k} : reaping'[c] = reaping[c]
    BY <1>3 DEF RunAbortOld, TaskLife, Early, Ending
  <2> QED BY <1>3, <2>1 DEF RunAbortOld
<1>4. ASSUME NEW k \in Runs, RunReapOld(k) PROVE ToolOff' BY <1>4 DEF RunReapOld
<1>5. ASSUME NEW k \in Runs, RunSpawn(k) PROVE ToolOff' BY <1>5 DEF RunSpawn
<1>6. ASSUME NEW k \in Runs, RunStore(k) PROVE ToolOff' BY <1>6 DEF RunStore
<1>7. ASSUME NEW k \in Runs, RunAwait(k) PROVE ToolOff' BY <1>7 DEF RunAwait
<1>8. ASSUME NEW k \in Runs, RunClear(k) PROVE ToolOff' BY <1>8 DEF RunClear
<1>9. ASSUME NEW k \in Runs, StreamCheck(k) PROVE ToolOff' BY <1>9 DEF StreamCheck
<1>10. ASSUME NEW k \in Runs, StreamSend(k) PROVE ToolOff'
  <2>1. k \in Runs /\ stream_pc[k] = "send" /\ left[k] \in 0 .. Lines /\ left'[k] = left[k] - 1
    BY <1>10 DEF StreamSend
  <2>2. \A c \in Cancellers : cancel_pc[c] \in {"event", "done"} => k \in Runs \ {c, reaping[c]}
    BY <2>1, CoveredSilent
  <2>3. left'[k] # Lines
    BY <2>1
  <2> QED BY <1>10, <2>2, <2>3 DEF StreamSend
<1>11. ASSUME NEW k \in Runs, StreamSendFails(k) PROVE ToolOff' BY <1>11 DEF StreamSendFails
<1>12. ASSUME NEW k \in Runs, StreamStall(k) PROVE ToolOff' BY <1>12 DEF StreamStall
<1>13. ASSUME NEW k \in Runs, StreamAfter(k) PROVE ToolOff' BY <1>13 DEF StreamAfter
<1>14. ASSUME NEW k \in Runs, StreamYield(k) PROVE ToolOff' BY <1>14 DEF StreamYield
<1>15. ASSUME NEW k \in Runs, StreamEnd(k) PROVE ToolOff' BY <1>15 DEF StreamEnd
<1>16. ASSUME NEW k \in Runs, StreamDrained(k) PROVE ToolOff' BY <1>16 DEF StreamDrained
<1>17. ASSUME NEW k \in Runs, StreamDrainStops(k) PROVE ToolOff' BY <1>17 DEF StreamDrainStops
<1>18. ASSUME NEW k \in Runs, StreamDrainDead(k) PROVE ToolOff' BY <1>18 DEF StreamDrainDead
<1>19. ASSUME NEW k \in Runs, StreamTake(k) PROVE ToolOff' BY <1>19 DEF StreamTake
<1>20. ASSUME NEW k \in Runs, StreamInterrupt(k) PROVE ToolOff' BY <1>20 DEF StreamInterrupt
<1>21. ASSUME NEW k \in Runs, StreamCancelled(k) PROVE ToolOff' BY <1>21 DEF StreamCancelled
<1>22. ASSUME NEW k \in Runs, StreamFinally(k) PROVE ToolOff' BY <1>22 DEF StreamFinally
<1>23. ASSUME NEW k \in Runs, StreamReport(k) PROVE ToolOff' BY <1>23 DEF StreamReport
<1>24. ASSUME NEW k \in Runs, StreamDrop(k) PROVE ToolOff' BY <1>24 DEF StreamDrop
<1>25. ASSUME NEW c \in Cancellers, CancelLoad(c) PROVE ToolOff' BY <1>25 DEF CancelLoad
<1>26. ASSUME NEW c \in Cancellers, CancelSet(c) PROVE ToolOff' BY <1>26 DEF CancelSet
<1>27. ASSUME NEW c \in Cancellers, CancelClear(c) PROVE ToolOff' BY <1>27 DEF CancelClear
<1>28. ASSUME NEW c \in Cancellers, CancelWrite(c) PROVE ToolOff' BY <1>28 DEF CancelWrite
<1>29. ASSUME NEW c \in Cancellers, CancelAbort(c) PROVE ToolOff' BY <1>29 DEF CancelAbort
<1>30. ASSUME NEW c \in Cancellers, CancelReap(c) PROVE ToolOff' BY <1>30 DEF CancelReap
<1>31. ASSUME NEW c \in Cancellers, CancelSafety(c) PROVE ToolOff' BY <1>31 DEF CancelSafety
<1>32. ASSUME NEW c \in Cancellers, CancelEvent(c) PROVE ToolOff' BY <1>32 DEF CancelEvent
<1>33. ASSUME NEW u \in Calls, CallBegin(u) PROVE ToolOff' BY <1>33 DEF CallBegin
<1>34. ASSUME NEW u \in Calls, CallLoad(u) PROVE ToolOff' BY <1>34 DEF CallLoad
<1>35. ASSUME NEW u \in Calls, CallSlot(u) PROVE ToolOff' BY <1>35 DEF CallSlot
<1>36. ASSUME NEW u \in Calls, CallStore(u) PROVE ToolOff' BY <1>36 DEF CallStore
<1>37. ASSUME NEW u \in Calls, CallLast(u) PROVE ToolOff' BY <1>37 DEF CallLast
<1>38. CASE DeviceError BY <1>38 DEF DeviceError
<1>39. CASE StatusReport BY <1>39 DEF StatusReport
<1>40. CASE LinkLost BY <1>40 DEF LinkLost
<1>41. CASE UNCHANGED vars BY <1>41 DEF vars
<1>42. ASSUME NEW k \in Runs, StreamLock(k) PROVE ToolOff' BY <1>42 DEF StreamLock
<1>43. ASSUME NEW u \in Calls, InteractiveLock(u) PROVE ToolOff' BY <1>43 DEF InteractiveLock
<1>44. ASSUME NEW u \in Calls, InteractiveReturn(u) PROVE ToolOff' BY <1>44 DEF InteractiveReturn
<1> QED
  BY <1>1, <1>2, <1>3, <1>4, <1>5, <1>6, <1>7, <1>8, <1>9, <1>10, <1>11, <1>12, <1>13, <1>14, <1>15, <1>16,
     <1>17, <1>18, <1>19, <1>20, <1>21, <1>22, <1>23, <1>24, <1>25, <1>26, <1>27, <1>28, <1>29, <1>30, <1>31,
     <1>32, <1>33, <1>34, <1>35, <1>36, <1>37, <1>38, <1>39, <1>40, <1>41, <1>42, <1>43, <1>44
  DEF Next, RunStep, StreamStep,
     CancelStep, CallStep

\* The invariant holds in every reachable state.
LEMMA InvAlways == Spec => []Inv
<1>1. Inv /\ [Next]_vars => Inv'
  BY FlagsStep, PlacesStep, TaskStep, ReapStep, ToolStep DEF Inv, TypeOK
<1> QED BY InvInit, <1>1, PTL DEF Spec

-----------------------------------------------------------------------------
(* The report of a job nobody cancels.                                     *)

\* What is quiet now has always been: the link never comes back and a cancel() never un-begins.
LEMMA QuietBefore == TypeOK /\ [Next]_vars /\ Quiet' => Quiet
<1> SUFFICES ASSUME TypeOK, [Next]_vars, Quiet' PROVE Quiet
  OBVIOUS
<1> USE RunsAssumption
<1> USE DEF TypeOK, PlacesOK, Quiet, Cancellers, cancels, device, vars, CancelGoto
<1>1. ASSUME NEW k \in Runs, RunUncancel(k) PROVE Quiet BY <1>1 DEF RunUncancel
<1>2. ASSUME NEW k \in Runs, RunStart(k) PROVE Quiet BY <1>2 DEF RunStart
<1>3. ASSUME NEW k \in Runs, RunAbortOld(k) PROVE Quiet BY <1>3 DEF RunAbortOld
<1>4. ASSUME NEW k \in Runs, RunReapOld(k) PROVE Quiet BY <1>4 DEF RunReapOld
<1>5. ASSUME NEW k \in Runs, RunSpawn(k) PROVE Quiet BY <1>5 DEF RunSpawn
<1>6. ASSUME NEW k \in Runs, RunStore(k) PROVE Quiet BY <1>6 DEF RunStore
<1>7. ASSUME NEW k \in Runs, RunAwait(k) PROVE Quiet BY <1>7 DEF RunAwait
<1>8. ASSUME NEW k \in Runs, RunClear(k) PROVE Quiet BY <1>8 DEF RunClear
<1>9. ASSUME NEW k \in Runs, StreamCheck(k) PROVE Quiet BY <1>9 DEF StreamCheck
<1>10. ASSUME NEW k \in Runs, StreamSend(k) PROVE Quiet BY <1>10 DEF StreamSend
<1>11. ASSUME NEW k \in Runs, StreamSendFails(k) PROVE Quiet BY <1>11 DEF StreamSendFails
<1>12. ASSUME NEW k \in Runs, StreamStall(k) PROVE Quiet BY <1>12 DEF StreamStall
<1>13. ASSUME NEW k \in Runs, StreamAfter(k) PROVE Quiet BY <1>13 DEF StreamAfter
<1>14. ASSUME NEW k \in Runs, StreamYield(k) PROVE Quiet BY <1>14 DEF StreamYield
<1>15. ASSUME NEW k \in Runs, StreamEnd(k) PROVE Quiet BY <1>15 DEF StreamEnd
<1>16. ASSUME NEW k \in Runs, StreamDrained(k) PROVE Quiet BY <1>16 DEF StreamDrained
<1>17. ASSUME NEW k \in Runs, StreamDrainStops(k) PROVE Quiet BY <1>17 DEF StreamDrainStops
<1>18. ASSUME NEW k \in Runs, StreamDrainDead(k) PROVE Quiet BY <1>18 DEF StreamDrainDead
<1>19. ASSUME NEW k \in Runs, StreamTake(k) PROVE Quiet BY <1>19 DEF StreamTake
<1>20. ASSUME NEW k \in Runs, StreamInterrupt(k) PROVE Quiet BY <1>20 DEF StreamInterrupt
<1>21. ASSUME NEW k \in Runs, StreamCancelled(k) PROVE Quiet BY <1>21 DEF StreamCancelled
<1>22. ASSUME NEW k \in Runs, StreamFinally(k) PROVE Quiet BY <1>22 DEF StreamFinally
<1>23. ASSUME NEW k \in Runs, StreamReport(k) PROVE Quiet BY <1>23 DEF StreamReport
<1>24. ASSUME NEW k \in Runs, StreamDrop(k) PROVE Quiet BY <1>24 DEF StreamDrop
<1>25. ASSUME NEW c \in Cancellers, CancelLoad(c) PROVE Quiet BY <1>25 DEF CancelLoad
<1>26. ASSUME NEW c \in Cancellers, CancelSet(c) PROVE Quiet BY <1>26 DEF CancelSet
<1>27. ASSUME NEW c \in Cancellers, CancelClear(c) PROVE Quiet BY <1>27 DEF CancelClear
<1>28. ASSUME NEW c \in Cancellers, CancelWrite(c) PROVE Quiet BY <1>28 DEF CancelWrite
<1>29. ASSUME NEW c \in Cancellers, CancelAbort(c) PROVE Quiet BY <1>29 DEF CancelAbort
<1>30. ASSUME NEW c \in Cancellers, CancelReap(c) PROVE Quiet BY <1>30 DEF CancelReap
<1>31. ASSUME NEW c \in Cancellers, CancelSafety(c) PROVE Quiet BY <1>31 DEF CancelSafety
<1>32. ASSUME NEW c \in Cancellers, CancelEvent(c) PROVE Quiet BY <1>32 DEF CancelEvent
<1>33. ASSUME NEW u \in Calls, CallBegin(u) PROVE Quiet BY <1>33 DEF CallBegin
<1>34. ASSUME NEW u \in Calls, CallLoad(u) PROVE Quiet BY <1>34 DEF CallLoad
<1>35. ASSUME NEW u \in Calls, CallSlot(u) PROVE Quiet BY <1>35 DEF CallSlot
<1>36. ASSUME NEW u \in Calls, CallStore(u) PROVE Quiet BY <1>36 DEF CallStore
<1>37. ASSUME NEW u \in Calls, CallLast(u) PROVE Quiet BY <1>37 DEF CallLast
<1>38. CASE DeviceError BY <1>38 DEF DeviceError
<1>39. CASE StatusReport BY <1>39 DEF StatusReport
<1>40. CASE LinkLost BY <1>40 DEF LinkLost
<1>41. CASE UNCHANGED vars BY <1>41 DEF vars
<1>42. ASSUME NEW k \in Runs, StreamLock(k) PROVE Quiet BY <1>42 DEF StreamLock
<1>43. ASSUME NEW u \in Calls, InteractiveLock(u) PROVE Quiet BY <1>43 DEF InteractiveLock
<1>44. ASSUME NEW u \in Calls, InteractiveReturn(u) PROVE Quiet BY <1>44 DEF InteractiveReturn
<1> QED
  BY <1>1, <1>2, <1>3, <1>4, <1>5, <1>6, <1>7, <1>8, <1>9, <1>10, <1>11, <1>12, <1>13, <1>14, <1>15, <1>16,
     <1>17, <1>18, <1>19, <1>20, <1>21, <1>22, <1>23, <1>24, <1>25, <1>26, <1>27, <1>28, <1>29, <1>30, <1>31,
     <1>32, <1>33, <1>34, <1>35, <1>36, <1>37, <1>38, <1>39, <1>40, <1>41, <1>42, <1>43, <1>44
  DEF Next, RunStep, StreamStep,
     CancelStep, CallStep

\* With one run, every quiet step keeps its task undisturbed and its report counted once.
LEMMA AloneStep ==
  (\A i, k \in Runs : i = k) /\ Inv /\ Alone /\ Quiet /\ Quiet' /\ [Next]_vars => Alone'
<1> SUFFICES ASSUME \A i, k \in Runs : i = k, Inv, Alone, Quiet, Quiet', [Next]_vars, NEW r \in Runs
             PROVE  (Undisturbed(r) /\ Interrupted(r) /\ Reported(r))'
  BY DEF Alone
<1>a. \A k \in Runs : k = r
  OBVIOUS
<1> USE RunsAssumption, <1>a
<1> USE DEF Inv, TypeOK, PlacesOK, TaskLife, Early, Ending, Alone, Quiet, Undisturbed, Interrupted,
        Reported, Cancellers,
            flags, device, streams, cancels, vars, RunGoto, StreamGoto, CancelGoto, TakeHandle
<1>1. ASSUME NEW k \in Runs, RunUncancel(k) PROVE (Undisturbed(r) /\ Interrupted(r) /\ Reported(r))'
  BY <1>1 DEF RunUncancel
<1>2. ASSUME NEW k \in Runs, RunStart(k) PROVE (Undisturbed(r) /\ Interrupted(r) /\ Reported(r))'
  BY <1>2 DEF RunStart
<1>3. ASSUME NEW k \in Runs, RunAbortOld(k) PROVE (Undisturbed(r) /\ Interrupted(r) /\ Reported(r))'
  BY <1>3 DEF RunAbortOld
<1>4. ASSUME NEW k \in Runs, RunReapOld(k) PROVE (Undisturbed(r) /\ Interrupted(r) /\ Reported(r))'
  BY <1>4 DEF RunReapOld
<1>5. ASSUME NEW k \in Runs, RunSpawn(k) PROVE (Undisturbed(r) /\ Interrupted(r) /\ Reported(r))'
  BY <1>5 DEF RunSpawn
<1>6. ASSUME NEW k \in Runs, RunStore(k) PROVE (Undisturbed(r) /\ Interrupted(r) /\ Reported(r))'
  BY <1>6 DEF RunStore
<1>7. ASSUME NEW k \in Runs, RunAwait(k) PROVE (Undisturbed(r) /\ Interrupted(r) /\ Reported(r))'
  BY <1>7 DEF RunAwait
<1>8. ASSUME NEW k \in Runs, RunClear(k) PROVE (Undisturbed(r) /\ Interrupted(r) /\ Reported(r))'
  BY <1>8 DEF RunClear
<1>9. ASSUME NEW k \in Runs, StreamCheck(k) PROVE (Undisturbed(r) /\ Interrupted(r) /\ Reported(r))'
  BY <1>9 DEF StreamCheck
<1>10. ASSUME NEW k \in Runs, StreamSend(k) PROVE (Undisturbed(r) /\ Interrupted(r) /\ Reported(r))'
  BY <1>10 DEF StreamSend
<1>11. ASSUME NEW k \in Runs, StreamSendFails(k) PROVE (Undisturbed(r) /\ Interrupted(r) /\ Reported(r))'
  BY <1>11 DEF StreamSendFails
<1>12. ASSUME NEW k \in Runs, StreamStall(k) PROVE (Undisturbed(r) /\ Interrupted(r) /\ Reported(r))'
  BY <1>12 DEF StreamStall
<1>13. ASSUME NEW k \in Runs, StreamAfter(k) PROVE (Undisturbed(r) /\ Interrupted(r) /\ Reported(r))'
  BY <1>13 DEF StreamAfter
<1>14. ASSUME NEW k \in Runs, StreamYield(k) PROVE (Undisturbed(r) /\ Interrupted(r) /\ Reported(r))'
  BY <1>14 DEF StreamYield
<1>15. ASSUME NEW k \in Runs, StreamEnd(k) PROVE (Undisturbed(r) /\ Interrupted(r) /\ Reported(r))'
  BY <1>15 DEF StreamEnd
<1>16. ASSUME NEW k \in Runs, StreamDrained(k) PROVE (Undisturbed(r) /\ Interrupted(r) /\ Reported(r))'
  BY <1>16 DEF StreamDrained
<1>17. ASSUME NEW k \in Runs, StreamDrainStops(k) PROVE (Undisturbed(r) /\ Interrupted(r) /\ Reported(r))'
  BY <1>17 DEF StreamDrainStops
<1>18. ASSUME NEW k \in Runs, StreamDrainDead(k) PROVE (Undisturbed(r) /\ Interrupted(r) /\ Reported(r))'
  BY <1>18 DEF StreamDrainDead
<1>19. ASSUME NEW k \in Runs, StreamTake(k) PROVE (Undisturbed(r) /\ Interrupted(r) /\ Reported(r))'
  BY <1>19 DEF StreamTake
<1>20. ASSUME NEW k \in Runs, StreamInterrupt(k) PROVE (Undisturbed(r) /\ Interrupted(r) /\ Reported(r))'
  BY <1>20 DEF StreamInterrupt
<1>21. ASSUME NEW k \in Runs, StreamCancelled(k) PROVE (Undisturbed(r) /\ Interrupted(r) /\ Reported(r))'
  BY <1>21 DEF StreamCancelled
<1>22. ASSUME NEW k \in Runs, StreamFinally(k) PROVE (Undisturbed(r) /\ Interrupted(r) /\ Reported(r))'
  BY <1>22 DEF StreamFinally
<1>23. ASSUME NEW k \in Runs, StreamReport(k) PROVE (Undisturbed(r) /\ Interrupted(r) /\ Reported(r))'
  BY <1>23 DEF StreamReport
<1>24. ASSUME NEW k \in Runs, StreamDrop(k) PROVE (Undisturbed(r) /\ Interrupted(r) /\ Reported(r))'
  BY <1>24 DEF StreamDrop
<1>25. ASSUME NEW c \in Cancellers, CancelLoad(c) PROVE (Undisturbed(r) /\ Interrupted(r) /\ Reported(r))'
  <2>1. c \notin Users
    BY <1>25 DEF CancelLoad
  <2>2. c = r /\ cancel_pc[r] = "load"
    BY <1>25, <2>1 DEF CancelLoad
  <2>3. Undisturbed(r) /\ Interrupted(r) /\ Reported(r)
    OBVIOUS
  <2>4. stream_pc[r] \notin {"report", "done"} /\ run_pc[r] \notin {"idle", "start"}
    BY <2>2, <2>3
  <2>5. job_running = TRUE
    BY <2>2, <2>3, <2>4
  <2>6. job_was_running'[r] = TRUE
    BY <1>25, <2>2, <2>5, Zenon DEF CancelLoad, FlagsOK
  <2> QED BY <1>25, <2>2, <2>3, <2>5, <2>6 DEF CancelLoad
<1>26. ASSUME NEW c \in Cancellers, CancelSet(c) PROVE (Undisturbed(r) /\ Interrupted(r) /\ Reported(r))'
  BY <1>26 DEF CancelSet
<1>27. ASSUME NEW c \in Cancellers, CancelClear(c) PROVE (Undisturbed(r) /\ Interrupted(r) /\ Reported(r))'
  BY <1>27 DEF CancelClear
<1>28. ASSUME NEW c \in Cancellers, CancelWrite(c) PROVE (Undisturbed(r) /\ Interrupted(r) /\ Reported(r))'
  BY <1>28 DEF CancelWrite
<1>29. ASSUME NEW c \in Cancellers, CancelAbort(c) PROVE (Undisturbed(r) /\ Interrupted(r) /\ Reported(r))'
  BY <1>29 DEF CancelAbort
<1>30. ASSUME NEW c \in Cancellers, CancelReap(c) PROVE (Undisturbed(r) /\ Interrupted(r) /\ Reported(r))'
  BY <1>30 DEF CancelReap
<1>31. ASSUME NEW c \in Cancellers, CancelSafety(c) PROVE (Undisturbed(r) /\ Interrupted(r) /\ Reported(r))'
  BY <1>31 DEF CancelSafety
<1>32. ASSUME NEW c \in Cancellers, CancelEvent(c) PROVE (Undisturbed(r) /\ Interrupted(r) /\ Reported(r))'
  BY <1>32 DEF CancelEvent
<1>33. ASSUME NEW u \in Calls, CallBegin(u) PROVE (Undisturbed(r) /\ Interrupted(r) /\ Reported(r))'
  BY <1>33 DEF CallBegin
<1>34. ASSUME NEW u \in Calls, CallLoad(u) PROVE (Undisturbed(r) /\ Interrupted(r) /\ Reported(r))'
  BY <1>34 DEF CallLoad
<1>35. ASSUME NEW u \in Calls, CallSlot(u) PROVE (Undisturbed(r) /\ Interrupted(r) /\ Reported(r))'
  BY <1>35 DEF CallSlot
<1>36. ASSUME NEW u \in Calls, CallStore(u) PROVE (Undisturbed(r) /\ Interrupted(r) /\ Reported(r))'
  BY <1>36 DEF CallStore
<1>37. ASSUME NEW u \in Calls, CallLast(u) PROVE (Undisturbed(r) /\ Interrupted(r) /\ Reported(r))'
  BY <1>37 DEF CallLast
<1>38. CASE DeviceError BY <1>38 DEF DeviceError
<1>39. CASE StatusReport BY <1>39 DEF StatusReport
<1>40. CASE LinkLost BY <1>40 DEF LinkLost
<1>41. CASE UNCHANGED vars BY <1>41 DEF vars
<1>42. ASSUME NEW k \in Runs, StreamLock(k) PROVE (Undisturbed(r) /\ Interrupted(r) /\ Reported(r))'
  BY <1>42 DEF StreamLock
<1>43. ASSUME NEW u \in Calls, InteractiveLock(u) PROVE (Undisturbed(r) /\ Interrupted(r) /\ Reported(r))' BY <1>43 DEF InteractiveLock
<1>44. ASSUME NEW u \in Calls, InteractiveReturn(u) PROVE (Undisturbed(r) /\ Interrupted(r) /\ Reported(r))' BY <1>44 DEF InteractiveReturn
<1> QED
  BY <1>1, <1>2, <1>3, <1>4, <1>5, <1>6, <1>7, <1>8, <1>9, <1>10, <1>11, <1>12, <1>13, <1>14, <1>15, <1>16,
     <1>17, <1>18, <1>19, <1>20, <1>21, <1>22, <1>23, <1>24, <1>25, <1>26, <1>27, <1>28, <1>29, <1>30, <1>31,
     <1>32, <1>33, <1>34, <1>35, <1>36, <1>37, <1>38, <1>39, <1>40, <1>41, <1>42, <1>43, <1>44
  DEF Next, RunStep, StreamStep,
     CancelStep, CallStep

-----------------------------------------------------------------------------
(* What follows.                                                           *)

\* Lines are written only by a task in its send.
LEMMA LeftStep == TypeOK /\ [Next]_vars => \A r \in Runs : stream_pc[r] # "send" => left'[r] = left[r]
<1> SUFFICES ASSUME TypeOK, [Next]_vars, NEW r \in Runs, stream_pc[r] # "send" PROVE left'[r] = left[r]
  OBVIOUS
<1> USE DEF TypeOK, PlacesOK, streams, vars
<1>1. ASSUME NEW k \in Runs, RunUncancel(k) PROVE left'[r] = left[r] BY <1>1 DEF RunUncancel
<1>2. ASSUME NEW k \in Runs, RunStart(k) PROVE left'[r] = left[r] BY <1>2 DEF RunStart
<1>3. ASSUME NEW k \in Runs, RunAbortOld(k) PROVE left'[r] = left[r] BY <1>3 DEF RunAbortOld
<1>4. ASSUME NEW k \in Runs, RunReapOld(k) PROVE left'[r] = left[r] BY <1>4 DEF RunReapOld
<1>5. ASSUME NEW k \in Runs, RunSpawn(k) PROVE left'[r] = left[r] BY <1>5 DEF RunSpawn
<1>6. ASSUME NEW k \in Runs, RunStore(k) PROVE left'[r] = left[r] BY <1>6 DEF RunStore
<1>7. ASSUME NEW k \in Runs, RunAwait(k) PROVE left'[r] = left[r] BY <1>7 DEF RunAwait
<1>8. ASSUME NEW k \in Runs, RunClear(k) PROVE left'[r] = left[r] BY <1>8 DEF RunClear
<1>9. ASSUME NEW k \in Runs, StreamCheck(k) PROVE left'[r] = left[r] BY <1>9 DEF StreamCheck
<1>10. ASSUME NEW k \in Runs, StreamSend(k) PROVE left'[r] = left[r] BY <1>10 DEF StreamSend
<1>11. ASSUME NEW k \in Runs, StreamSendFails(k) PROVE left'[r] = left[r] BY <1>11 DEF StreamSendFails
<1>12. ASSUME NEW k \in Runs, StreamStall(k) PROVE left'[r] = left[r] BY <1>12 DEF StreamStall
<1>13. ASSUME NEW k \in Runs, StreamAfter(k) PROVE left'[r] = left[r] BY <1>13 DEF StreamAfter
<1>14. ASSUME NEW k \in Runs, StreamYield(k) PROVE left'[r] = left[r] BY <1>14 DEF StreamYield
<1>15. ASSUME NEW k \in Runs, StreamEnd(k) PROVE left'[r] = left[r] BY <1>15 DEF StreamEnd
<1>16. ASSUME NEW k \in Runs, StreamDrained(k) PROVE left'[r] = left[r] BY <1>16 DEF StreamDrained
<1>17. ASSUME NEW k \in Runs, StreamDrainStops(k) PROVE left'[r] = left[r] BY <1>17 DEF StreamDrainStops
<1>18. ASSUME NEW k \in Runs, StreamDrainDead(k) PROVE left'[r] = left[r] BY <1>18 DEF StreamDrainDead
<1>19. ASSUME NEW k \in Runs, StreamTake(k) PROVE left'[r] = left[r] BY <1>19 DEF StreamTake
<1>20. ASSUME NEW k \in Runs, StreamInterrupt(k) PROVE left'[r] = left[r] BY <1>20 DEF StreamInterrupt
<1>21. ASSUME NEW k \in Runs, StreamCancelled(k) PROVE left'[r] = left[r] BY <1>21 DEF StreamCancelled
<1>22. ASSUME NEW k \in Runs, StreamFinally(k) PROVE left'[r] = left[r] BY <1>22 DEF StreamFinally
<1>23. ASSUME NEW k \in Runs, StreamReport(k) PROVE left'[r] = left[r] BY <1>23 DEF StreamReport
<1>24. ASSUME NEW k \in Runs, StreamDrop(k) PROVE left'[r] = left[r] BY <1>24 DEF StreamDrop
<1>25. ASSUME NEW c \in Cancellers, CancelLoad(c) PROVE left'[r] = left[r] BY <1>25 DEF CancelLoad
<1>26. ASSUME NEW c \in Cancellers, CancelSet(c) PROVE left'[r] = left[r] BY <1>26 DEF CancelSet
<1>27. ASSUME NEW c \in Cancellers, CancelClear(c) PROVE left'[r] = left[r] BY <1>27 DEF CancelClear
<1>28. ASSUME NEW c \in Cancellers, CancelWrite(c) PROVE left'[r] = left[r] BY <1>28 DEF CancelWrite
<1>29. ASSUME NEW c \in Cancellers, CancelAbort(c) PROVE left'[r] = left[r] BY <1>29 DEF CancelAbort
<1>30. ASSUME NEW c \in Cancellers, CancelReap(c) PROVE left'[r] = left[r] BY <1>30 DEF CancelReap
<1>31. ASSUME NEW c \in Cancellers, CancelSafety(c) PROVE left'[r] = left[r] BY <1>31 DEF CancelSafety
<1>32. ASSUME NEW c \in Cancellers, CancelEvent(c) PROVE left'[r] = left[r] BY <1>32 DEF CancelEvent
<1>33. ASSUME NEW u \in Calls, CallBegin(u) PROVE left'[r] = left[r] BY <1>33 DEF CallBegin
<1>34. ASSUME NEW u \in Calls, CallLoad(u) PROVE left'[r] = left[r] BY <1>34 DEF CallLoad
<1>35. ASSUME NEW u \in Calls, CallSlot(u) PROVE left'[r] = left[r] BY <1>35 DEF CallSlot
<1>36. ASSUME NEW u \in Calls, CallStore(u) PROVE left'[r] = left[r] BY <1>36 DEF CallStore
<1>37. ASSUME NEW u \in Calls, CallLast(u) PROVE left'[r] = left[r] BY <1>37 DEF CallLast
<1>38. CASE DeviceError BY <1>38 DEF DeviceError
<1>39. CASE StatusReport BY <1>39 DEF StatusReport
<1>40. CASE LinkLost BY <1>40 DEF LinkLost
<1>41. CASE UNCHANGED vars BY <1>41 DEF vars
<1>42. ASSUME NEW k \in Runs, StreamLock(k) PROVE left'[r] = left[r] BY <1>42 DEF StreamLock
<1>43. ASSUME NEW u \in Calls, InteractiveLock(u) PROVE left'[r] = left[r] BY <1>43 DEF InteractiveLock
<1>44. ASSUME NEW u \in Calls, InteractiveReturn(u) PROVE left'[r] = left[r] BY <1>44 DEF InteractiveReturn
<1> QED
  BY <1>1, <1>2, <1>3, <1>4, <1>5, <1>6, <1>7, <1>8, <1>9, <1>10, <1>11, <1>12, <1>13, <1>14, <1>15, <1>16,
     <1>17, <1>18, <1>19, <1>20, <1>21, <1>22, <1>23, <1>24, <1>25, <1>26, <1>27, <1>28, <1>29, <1>30, <1>31,
     <1>32, <1>33, <1>34, <1>35, <1>36, <1>37, <1>38, <1>39, <1>40, <1>41, <1>42, <1>43, <1>44
  DEF Next, RunStep, StreamStep,
     CancelStep, CallStep

\* Every variable keeps its type; in particular no job sends more lines than it has.
THEOREM TypeCorrect == Spec => []TypeOK
BY InvAlways, PTL DEF Inv

\* For any number of jobs, cancel() calls and calls that clear the cancellation: the task that a
\* cancel() has aborted and waited for never writes again.
THEOREM ReapedSilent == Spec => ReapedForGood
<1> DEFINE A == \A u \in Users : cancel_pc[u] = "done" /\ reaping[u] # NoRun => left'[reaping[u]] = left[reaping[u]]
<1>1. Inv /\ [Next]_vars => A
  <2> SUFFICES ASSUME Inv, [Next]_vars, NEW u \in Users, cancel_pc[u] = "done", reaping[u] # NoRun
               PROVE  left'[reaping[u]] = left[reaping[u]]
    OBVIOUS
  <2>1. reaping[u] \in finished /\ finished \subseteq Runs
    BY DEF Inv, TypeOK, PlacesOK, ReapedFinished
  <2>2. stream_pc[reaping[u]] = "done"
    BY <2>1 DEF Inv, TaskLife
  <2> QED BY <2>1, <2>2, LeftStep DEF Inv
<1> QED BY InvAlways, <1>1, PTL DEF Spec, ReapedForGood

\* For any number of jobs and cancel() calls: a task that a new run() has replaced never writes again
\* once the new task is spawned.
THEOREM ReplacedSilent == Spec => ReplacedForGood
<1> DEFINE A == \A k \in Runs : run_pc[k] \in Spawned /\ reaping[k] # NoRun => left'[reaping[k]] = left[reaping[k]]
<1>1. Inv /\ [Next]_vars => A
  <2> SUFFICES ASSUME Inv, [Next]_vars, NEW k \in Runs, run_pc[k] \in Spawned, reaping[k] # NoRun
               PROVE  left'[reaping[k]] = left[reaping[k]]
    OBVIOUS
  <2>1. reaping[k] \in finished /\ finished \subseteq Runs
    BY DEF Inv, TypeOK, PlacesOK, ReapedFinished
  <2>2. stream_pc[reaping[k]] = "done"
    BY <2>1 DEF Inv, TaskLife
  <2> QED BY <2>1, <2>2, LeftStep DEF Inv
<1> QED BY InvAlways, <1>1, PTL DEF Spec, ReplacedForGood

\* For any number of jobs, cancel() calls and faults: after a cancel() that waited for a job's task, or
\* that the task itself made, the tool is off unless another job has written a line.
THEOREM ToolStaysOff == Spec => []ToolOffAfterCancel
<1>1. Inv => ToolOffAfterCancel
  BY DEF Inv, ToolOff, ToolOffAfterCancel
<1> QED BY InvAlways, <1>1, PTL

\* One job, any number of execute_command and set_hold calls and of lines, any device fault: if nobody
\* cancels it and the link holds, job_finished is reported exactly once.  (A second run() replaces the
\* first, whose task is dropped and reports nothing.)
THEOREM ReportsOnce ==
  ASSUME NEW r \in Runs, \A k \in Runs : k = r PROVE Spec => []FaultReportsOnce
<1>1. Inv /\ Alone /\ [Next]_vars => Alone'
  <2> SUFFICES ASSUME Inv, Alone, [Next]_vars, Quiet' PROVE Alone'
    BY DEF Alone
  <2>1. Quiet
    BY QuietBefore DEF Inv
  <2> QED BY <2>1, AloneStep
<1>2. Inv /\ Alone => FaultReportsOnce
  <2> SUFFICES ASSUME Inv, Alone, Quiet, \A k \in Runs : run_pc[k] \in {"idle", "returned"}
               PROVE  job_finished = Cardinality({k \in Runs : run_pc[k] = "returned"})
    BY DEF FaultReportsOnce, Quiet
  <2> DEFINE Returned == {k \in Runs : run_pc[k] = "returned"}
  <2>1. Undisturbed(r) /\ Interrupted(r) /\ Reported(r)
    BY DEF Alone
  <2>2. CASE run_pc[r] = "idle"
    <3>1. Returned = {}
      BY <2>2
    <3>2. job_finished = 0
      BY <2>1, <2>2 DEF Inv, TaskLife, Reported, Early, Ending
    <3> QED BY <3>1, <3>2, FS_EmptySet
  <2>3. CASE run_pc[r] = "returned"
    <3>1. Returned = {r}
      BY <2>3
    <3>2. job_finished = 1
      BY <2>1, <2>3 DEF Inv, TaskLife, Reported
    <3> QED BY <3>1, <3>2, FS_Singleton
  <2> QED BY <2>2, <2>3
<1> QED BY InvAlways, InvInit, <1>1, <1>2, PTL DEF Spec
==============================================================================
