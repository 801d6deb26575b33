----------------------- MODULE DeviceOperationsProofs -----------------------
(***************************************************************************)
(* Proofs about the device operations, for any number of tasks, calls and  *)
(* faults and every session: home() leaves the device in its coordinate    *)
(* system, and positions read with the unit known are in mm.               *)
(***************************************************************************)
EXTENDS DeviceOperations, SequenceTheorems, TLAPS

\* No list of commands ends while another coordinate system is selected or before the command
\* that a wait is for.
Closed(s) ==
    /\ Len(s) > 0 /\ s[Len(s)] \notin {"temp_wcs", "wait_for_idle"}
    /\ \A i \in 1 .. Len(s) - 1 : s[i] = "temp_wcs" => s[i + 1] = "active_wcs"
ListsClosed == \A t \in Tasks : pc[t] \in {"next", "wait", "answered"} => Closed(todo[t])

\* While the other coordinate system is selected, some task is about to select the active one.
Returns(t) ==
    \/ pc[t] = "next" /\ Head(todo[t]) = "active_wcs"
    \/ pc[t] \in {"wait", "answered"} /\ Len(todo[t]) > 1 /\ todo[t][2] = "active_wcs"
Steady == disorder \cap {"rejected", "timeout", "failed", "dropped", "cancel"} = {}
WcsReturns == Steady /\ device.wcs = "temp" => \E t \in Tasks : Returns(t)

\* Undisturbed, one operation runs at a time, ...
OneAtATime == \A t, u \in Tasks : pc[t] # "idle" /\ pc[u] # "idle" => t = u
\* ... an answer on the wire is the one to the command in flight, ...
OneAnswer ==
    \A i \in 1 .. Len(wire) : wire[i].text # "ALARM" =>
        /\ in_flight # None /\ pc[in_flight] = "wait"
        /\ \A j \in 1 .. Len(wire) : wire[j].text # "ALARM" => i = j
        /\ wire[i].data # "none" => wire[i].inches = device.inches
\* ... what it says of the unit is true when the operation reads it, and so is the flag.
UnitTrue ==
    /\ \A t \in Tasks : pc[t] = "answered" /\ lines[t].data # "none" => lines[t].inches = device.inches
    /\ synced = TRUE => report_in_inches = device.inches
InOrder == Undisturbed => OneAtATime /\ OneAnswer /\ UnitTrue

\* Only the GRBL sessions read the unit; what is marked as read with the unit known is in mm.
UnitKnown == session \notin Inches => synced = FALSE /\ \A t \in Tasks : op[t] # "read_settings"
FreshInMm ==
    /\ PositionsInMm
    /\ report # None => MarkedInMm(report)

Inv == TypeOK /\ ListsClosed /\ WcsReturns /\ InOrder /\ UnitKnown /\ FreshInMm

-----------------------------------------------------------------------------
(* The lists of commands.                                                  *)

\* The shapes of the lists that the operations have.
LEMMA OneClosed ==
  ASSUME NEW a \in CommandNames \ {"temp_wcs", "wait_for_idle"}
  PROVE  <<a>> \in Seq(CommandNames) /\ Closed(<<a>>)
BY DEF Closed

\* Two commands, of which only the first may be a wait.
LEMMA TwoClosed ==
  ASSUME NEW a \in CommandNames \ {"temp_wcs"}, NEW b \in CommandNames \ {"temp_wcs", "wait_for_idle"}
  PROVE  <<a, b>> \in Seq(CommandNames) /\ Closed(<<a, b>>)
<1> DEFINE s == <<a, b>>
<1>1. s \in Seq(CommandNames) /\ Len(s) = 2 /\ s[1] = a /\ s[2] = b
  OBVIOUS
<1> HIDE DEF s
<1>2. Closed(s)
  BY <1>1 DEF Closed
<1> QED BY <1>1, <1>2 DEF s

\* Two lists joined.
LEMMA Joined ==
  ASSUME NEW a \in Seq(CommandNames), NEW b \in Seq(CommandNames)
  PROVE  /\ a \o b \in Seq(CommandNames) /\ Len(a \o b) = Len(a) + Len(b)
         /\ \A i \in 1 .. Len(a) + Len(b) : (a \o b)[i] = IF i <= Len(a) THEN a[i] ELSE b[i - Len(a)]
BY ConcatProperties

\* Homing, one axis or two, and the detour over the other coordinate system.
LEMMA HomeClosed ==
  ASSUME NEW axes \in {<<"home">>, <<"home", "home">>}
  PROVE  LET s == axes \o <<"dwell", "temp_wcs", "active_wcs">> IN s \in Seq(CommandNames) /\ Closed(s)
<1> DEFINE w == <<"dwell", "temp_wcs", "active_wcs">>
           s == axes \o w
<1>1. axes \in Seq(CommandNames) /\ Len(axes) \in 1 .. 2 /\ \A i \in 1 .. Len(axes) : axes[i] = "home"
  <2>1. CASE axes = <<"home">>
    BY <2>1 DEF CommandNames
  <2>2. CASE axes = <<"home", "home">>
    BY <2>2 DEF CommandNames
  <2> QED BY <2>1, <2>2
<1>2. w \in Seq(CommandNames) /\ Len(w) = 3 /\ w[1] = "dwell" /\ w[2] = "temp_wcs" /\ w[3] = "active_wcs"
  BY DEF CommandNames, Gcode
<1> HIDE DEF w
<1>3. /\ s \in Seq(CommandNames) /\ Len(s) = Len(axes) + 3
      /\ \A i \in 1 .. Len(s) : s[i] = IF i <= Len(axes) THEN axes[i] ELSE w[i - Len(axes)]
  <2>1. /\ s \in Seq(CommandNames) /\ Len(s) = Len(axes) + Len(w)
        /\ \A i \in 1 .. Len(axes) + Len(w) : s[i] = IF i <= Len(axes) THEN axes[i] ELSE w[i - Len(axes)]
    BY <1>1, <1>2, Joined, Zenon
  <2> QED BY <1>2, <2>1
<1> HIDE DEF s
<1>4. Len(s) > 0 /\ s[Len(s)] = "active_wcs"
  BY <1>1, <1>2, <1>3
<1>5. ASSUME NEW i \in 1 .. Len(s) - 1, s[i] = "temp_wcs" PROVE s[i + 1] = "active_wcs"
  <2>1. i > Len(axes)
    BY <1>1, <1>3, <1>5
  <2>2. i - Len(axes) \in 1 .. 2 /\ w[i - Len(axes)] = "temp_wcs"
    BY <1>1, <1>3, <1>5, <2>1
  <2>3. i - Len(axes) = 2
    BY <1>2, <2>2
  <2> QED BY <1>1, <1>2, <1>3, <2>3
<1>6. Closed(s)
  BY <1>4, <1>5 DEF Closed
<1> QED BY <1>3, <1>6 DEF s, w

\* Every operation that a session has is a list of commands that is closed.
LEMMA ProgramClosed ==
  ASSUME session \in Sessions, NEW o, Program(o) # <<>>
  PROVE  Program(o) \in Seq(CommandNames) /\ Closed(Program(o))
<1> DEFINE Home == \E axes \in {<<"home">>, <<"home", "home">>} :
                    Program(o) = axes \o <<"dwell", "temp_wcs", "active_wcs">>
           One == \E a \in CommandNames \ {"temp_wcs", "wait_for_idle"} : Program(o) = <<a>>
           Two == \E a \in CommandNames \ {"temp_wcs"}, b \in CommandNames \ {"temp_wcs", "wait_for_idle"} :
                    Program(o) = <<a, b>>
<1> USE DEF CommandNames, Gcode, Interactive
<1>1. ASSUME session = "grbl" PROVE Home \/ One \/ Two
  <2>1. CASE o \in Homes
    <3>1. Home BY <1>1, <2>1 DEF Program, Axes, home_grbl
    <3> QED BY <3>1
  <2>2. CASE o \notin Homes
    <3>1. CASE o = "set_focus_power_off"
      <4>1. Program(o) = <<"wait_for_idle", "laser_off">>
        BY <1>1, <2>2, <3>1 DEF Program, moves_grbl, Moves
      <4> QED BY <4>1
    <3>2. CASE o # "set_focus_power_off"
      <4>1. One
        BY <1>1, <2>2, <3>2 DEF Program, moves_grbl, reads_grbl, Moves
      <4> QED BY <4>1
    <3> QED BY <3>1, <3>2
  <2> QED BY <2>1, <2>2
<1>2. ASSUME session = "simple" PROVE Home \/ One \/ Two
  <2>1. CASE o \in Homes
    <3>1. Home BY <1>2, <2>1 DEF Program, Axes, home_simple
    <3> QED BY <3>1
  <2>2. CASE o \notin Homes
    BY <1>2, <2>2 DEF Program, moves_simple, reads_simple, Moves
  <2> QED BY <2>1, <2>2
<1>3. ASSUME session = "smoothie" PROVE Home \/ One \/ Two
  BY <1>3 DEF Program, ops_smoothie
<1>4. ASSUME session = "marlin" PROVE Home \/ One \/ Two
  BY <1>4 DEF Program, ops_marlin
<1>5. Home \/ One \/ Two
  BY <1>1, <1>2, <1>3, <1>4, SessionsAssumption
<1> QED BY <1>5, HomeClosed, OneClosed, TwoClosed

\* What follows the first command of a closed list is closed, if anything does.
LEMMA TailClosed ==
  ASSUME NEW s \in Seq(CommandNames), Closed(s)
  PROVE  /\ Head(s) \in CommandNames /\ Tail(s) \in Seq(CommandNames) /\ Len(s) \in Nat /\ Len(s) > 0
         /\ Head(s) = s[1] /\ Len(Tail(s)) = Len(s) - 1
         /\ Len(s) > 1 => Closed(Tail(s)) /\ Head(Tail(s)) = s[2]
         /\ Head(s) = "wait_for_idle" => Len(s) > 1
         /\ Head(s) = "temp_wcs" => Len(s) > 1 /\ s[2] = "active_wcs"
<1>1. Len(s) \in Nat /\ Len(s) > 0 /\ s # <<>>
  BY DEF Closed
<1>2. Head(s) = s[1] /\ Head(s) \in CommandNames /\ Tail(s) \in Seq(CommandNames) /\ Len(Tail(s)) = Len(s) - 1
  BY <1>1
<1>3. \A i \in 1 .. Len(s) - 1 : Tail(s)[i] = s[i + 1]
  BY <1>1
<1>4. Len(s) = 1 => Head(s) \notin {"temp_wcs", "wait_for_idle"}
  BY <1>2 DEF Closed
<1>5. Head(s) = "temp_wcs" => Len(s) > 1 /\ s[2] = "active_wcs"
  <2>1. Head(s) = "temp_wcs" => Len(s) # 1
    BY <1>4, Zenon
  <2> QED BY <1>1, <1>2, <2>1 DEF Closed
<1>6. ASSUME Len(s) > 1 PROVE Closed(Tail(s)) /\ Head(Tail(s)) = s[2]
  <2> DEFINE u == Tail(s)
  <2>1. u \in Seq(CommandNames) /\ Len(u) = Len(s) - 1 /\ Len(u) > 0
    BY <1>1, <1>2, <1>6
  <2>2. \A i \in 1 .. Len(u) : u[i] = s[i + 1]
    BY <1>3, <2>1
  <2> HIDE DEF u
  <2>3. Head(u) = s[2]
    BY <1>1, <1>6, <2>1, <2>2
  <2>4. u[Len(u)] = s[Len(s)]
    BY <1>1, <1>6, <2>1, <2>2
  <2>5. ASSUME NEW i \in 1 .. Len(u) - 1, u[i] = "temp_wcs" PROVE u[i + 1] = "active_wcs"
    <3>1. u[i] = s[i + 1] /\ u[i + 1] = s[(i + 1) + 1] /\ i + 1 \in 1 .. Len(s) - 1
      BY <1>1, <2>1, <2>2, <2>5
    <3> QED BY <2>5, <3>1 DEF Closed
  <2> QED BY <2>1, <2>3, <2>4, <2>5 DEF Closed, u
<1> QED BY <1>1, <1>2, <1>4, <1>5, <1>6

-----------------------------------------------------------------------------
(* Types.                                                                  *)

\* Every step keeps the flags Boolean.
LEMMA FlagsStep == FlagsOK /\ [Next]_vars => FlagsOK'
<1> SUFFICES ASSUME FlagsOK, [Next]_vars PROVE FlagsOK'
  OBVIOUS
<1> USE DEF FlagsOK, sessionVars, deviceVars
<1>c. ASSUME NEW t \in Tasks, NEW o \in Operations, Call(t, o) PROVE FlagsOK'
  BY <1>c, Zenon DEF Call
<1>1. ASSUME NEW t \in Tasks, wait_for_idle(t) PROVE FlagsOK' BY <1>1, Zenon DEF wait_for_idle
<1>2. ASSUME NEW t \in Tasks, Execute(t) PROVE FlagsOK' BY <1>2, Zenon DEF Execute
<1>3. ASSUME NEW t \in Tasks, Refused(t) PROVE FlagsOK' BY <1>3, Zenon DEF Refused
<1>4. ASSUME NEW t \in Tasks, Timeout(t) PROVE FlagsOK' BY <1>4, Zenon DEF Timeout
<1>5. ASSUME NEW t \in Tasks, Failed(t) PROVE FlagsOK' BY <1>5, Zenon DEF Failed
<1>6. ASSUME NEW t \in Tasks, Resume(t) PROVE FlagsOK' BY <1>6, Zenon DEF Resume, is_report_in_inches
<1>7. CASE handle_ok BY <1>7, Zenon DEF handle_ok, Answer
<1>8. CASE handle_error BY <1>8, Zenon DEF handle_error, Answer
<1>9. CASE handle_alarm BY <1>9, Zenon DEF handle_alarm, Answer
<1>10. CASE Report BY <1>10, Zenon DEF Report, handle_status_report
<1>11. CASE StoreReport BY <1>11, Zenon DEF StoreReport
<1>12. CASE handle_position_report BY <1>12, Zenon DEF handle_position_report
<1>13. CASE cancel BY <1>13, Zenon DEF cancel
<1>14. CASE LinkLost BY <1>14, Zenon DEF LinkLost
<1>15. CASE LinkBack BY <1>15, Zenon DEF LinkBack
<1>16. CASE DeviceAlarm BY <1>16, Zenon DEF DeviceAlarm
<1>17. CASE JogEnds BY <1>17, Zenon DEF JogEnds
<1>18. CASE UNCHANGED vars BY <1>18 DEF vars
<1> QED
  BY <1>1, <1>2, <1>3, <1>4, <1>5, <1>6, <1>7, <1>8, <1>9, <1>10, <1>11, <1>12, <1>13, <1>14, <1>15, <1>16,
     <1>17, <1>18, <1>c DEF Next, Task, Reader

\* The equations keep the state in its type, if the positions that the report has are numbers.
LEMMA RecalculatedTyped ==
  ASSUME NEW s \in States, NEW found,
         "MPos" \in found => s.machine_pos \in Int, "WPos" \in found => s.work_pos \in Int
  PROVE  recalculate_positions(infer_wco(s, found), found) \in States
<1> DEFINE u == infer_wco(s, found)
<1>1. u \in States /\ u.machine_pos = s.machine_pos /\ u.work_pos = s.work_pos /\ u.wco \in Int
  <2>1. CASE {"MPos", "WPos"} \subseteq found /\ "WCO" \notin found
    <3>1. u = [s EXCEPT !.wco = s.machine_pos - s.work_pos] /\ s.machine_pos - s.work_pos \in Int
      BY <2>1 DEF infer_wco
    <3> QED BY <3>1 DEF States
  <2>2. CASE ~({"MPos", "WPos"} \subseteq found /\ "WCO" \notin found)
    <3>1. u = s
      BY <2>2 DEF infer_wco
    <3> QED BY <3>1 DEF States
  <2> QED BY <2>1, <2>2
<1> HIDE DEF u
<1>2. CASE "MPos" \in found
  <2>1. u.machine_pos - u.wco \in Int
    BY <1>1, <1>2
  <2>2. [u EXCEPT !.work_pos = u.machine_pos - u.wco] \in States
    BY <1>1, <2>1 DEF States
  <2> QED BY <1>2, <2>2 DEF recalculate_positions, u
<1>3. CASE "MPos" \notin found /\ "WPos" \in found
  <2>1. u.work_pos + u.wco \in Int
    BY <1>1, <1>3
  <2>2. [u EXCEPT !.machine_pos = u.work_pos + u.wco] \in States
    BY <1>1, <2>1 DEF States
  <2> QED BY <1>3, <2>2 DEF recalculate_positions, u
<1>4. CASE "MPos" \notin found /\ "WPos" \notin found
  BY <1>1, <1>4 DEF recalculate_positions, u
<1> QED BY <1>2, <1>3, <1>4

\* What parse_state has read before the equations.
AsRead(code, found) ==
    LET P == parse_status_part(state, code)
    IN [P EXCEPT !.machine_pos = IF "MPos" \in found THEN Read(MachineInch) ELSE P.machine_pos,
                 !.work_pos = IF "WPos" \in found THEN Read(MachineInch - OffsetInch) ELSE P.work_pos,
                 !.wco = IF "WCO" \in found THEN Read(OffsetInch) ELSE P.wco,
                 !.fresh = Fresh(state, found)]

\* Its fields.
LEMMA AsReadFields ==
  ASSUME TypeOK, NEW code \in BOOLEAN, NEW found
  PROVE  LET r == AsRead(code, found)
         IN /\ parse_state(code, found) = recalculate_positions(infer_wco(r, found), found)
            /\ r \in States
            /\ r.machine_pos = IF "MPos" \in found THEN Read(MachineInch) ELSE state.machine_pos
            /\ r.work_pos = IF "WPos" \in found THEN Read(MachineInch - OffsetInch) ELSE state.work_pos
            /\ r.wco = IF "WCO" \in found THEN Read(OffsetInch) ELSE state.wco
            /\ r.fresh = Fresh(state, found)
            /\ Read(MachineInch) \in Int /\ Read(MachineInch - OffsetInch) \in Int
<1> DEFINE P == parse_status_part(state, code)
           r == AsRead(code, found)
           m == IF "MPos" \in found THEN Read(MachineInch) ELSE P.machine_pos
           w == IF "WPos" \in found THEN Read(MachineInch - OffsetInch) ELSE P.work_pos
           o == IF "WCO" \in found THEN Read(OffsetInch) ELSE P.wco
           f == Fresh(state, found)
<1>1. P \in States /\ P.machine_pos = state.machine_pos /\ P.work_pos = state.work_pos /\ P.wco = state.wco
  BY DEF TypeOK, PlacesOK, States, parse_status_part
<1>2. Read(MachineInch) \in Int /\ Read(MachineInch - OffsetInch) \in Int /\ Read(OffsetInch) \in Int
  BY DEF Read, InMm, Raw, MmPerInch, MachineInch, OffsetInch
<1>3. f \in SUBSET Attributes
  BY DEF Fresh
<1>4. parse_state(code, found) = recalculate_positions(infer_wco(r, found), found)
  BY DEF parse_state, AsRead
<1>5. m \in Int \cup {None} /\ w \in Int \cup {None} /\ o \in Int
  BY <1>1, <1>2 DEF States
<1>6. r = [P EXCEPT !.machine_pos = m, !.work_pos = w, !.wco = o, !.fresh = f]
  BY DEF AsRead
<1>7. r \in States /\ r.machine_pos = m /\ r.work_pos = w /\ r.wco = o /\ r.fresh = f
  <2> HIDE DEF P, m, w, o, f, r
  <2> QED BY <1>1, <1>3, <1>5, <1>6 DEF States
<1>8. /\ r.machine_pos = IF "MPos" \in found THEN Read(MachineInch) ELSE state.machine_pos
      /\ r.work_pos = IF "WPos" \in found THEN Read(MachineInch - OffsetInch) ELSE state.work_pos
      /\ r.wco = IF "WCO" \in found THEN Read(OffsetInch) ELSE state.wco
  <2> HIDE DEF r, P
  <2> QED BY <1>1, <1>7
<1> HIDE DEF r, P, m, w, o
<1> QED BY <1>2, <1>4, <1>7, <1>8 DEF r

\* A position that is read or computed is a number.
LEMMA ReadTyped ==
  ASSUME TypeOK, NEW code \in BOOLEAN, NEW found
  PROVE  parse_state(code, found) \in States
BY AsReadFields, RecalculatedTyped

\* What a command makes of the device.
LEMMA DeviceTyped ==
  ASSUME TypeOK, NEW c PROVE Accepted(c) \in Devices
BY DEF TypeOK, PlacesOK, Devices, Accepted

\* What Marlin's report makes of the state.
LEMMA PositionTyped ==
  ASSUME NEW s \in States, NEW m \in Int
  PROVE  [s EXCEPT !.machine_pos = m, !.work_pos = m, !.fresh = {}, !.status = IF s.status = "Unknown" THEN "Idle" ELSE s.status] \in States
BY DEF States

\* What an answer is.
LEMMA AnswersTyped ==
  ASSUME TypeOK
  PROVE  /\ NoLines \in AnswerSet
         /\ Plain("error") \in AnswerSet /\ Plain("ALARM") \in AnswerSet
         /\ \A c \in CommandNames : [text |-> "ok", data |-> IF c \in Interactive THEN c ELSE "none", inches |-> device.inches] \in AnswerSet
         /\ wire # <<>> => Head(wire) \in AnswerSet /\ Tail(wire) \in Seq(AnswerSet)
<1>1. NoLines \in AnswerSet /\ Plain("error") \in AnswerSet /\ Plain("ALARM") \in AnswerSet
  BY DEF NoLines, Plain, AnswerSet
<1>2. device.inches \in BOOLEAN /\ wire \in Seq(AnswerSet)
  BY DEF TypeOK, PlacesOK, Devices
<1>3. \A c \in CommandNames : [text |-> "ok", data |-> IF c \in Interactive THEN c ELSE "none", inches |-> device.inches] \in AnswerSet
  BY <1>2 DEF AnswerSet
<1> QED BY <1>1, <1>2, <1>3

\* Every step keeps every other variable in its type.
LEMMA PlacesStep == TypeOK /\ ListsClosed /\ [Next]_vars => PlacesOK'
<1> SUFFICES ASSUME TypeOK, ListsClosed, [Next]_vars PROVE PlacesOK'
  OBVIOUS
<1>a. \A t \in Tasks : pc[t] \in {"next", "wait", "answered"} =>
         Head(todo[t]) \in CommandNames /\ Tail(todo[t]) \in Seq(CommandNames)
  BY TailClosed DEF TypeOK, PlacesOK, ListsClosed
<1>b. /\ NoLines \in AnswerSet /\ Plain("error") \in AnswerSet /\ Plain("ALARM") \in AnswerSet
      /\ wire # <<>> => Head(wire) \in AnswerSet /\ Tail(wire) \in Seq(AnswerSet)
  BY AnswersTyped
<1> USE <1>a, <1>b, NamesAssumption
<1> USE DEF TypeOK, PlacesOK, Labels, sessionVars, deviceVars, taskVars, vars, Set
<1>c. ASSUME NEW t \in Tasks, NEW o \in Operations, Call(t, o) PROVE PlacesOK'
  BY <1>c, ProgramClosed DEF Call, Disorder
<1>1. ASSUME NEW t \in Tasks, wait_for_idle(t) PROVE PlacesOK' BY <1>1 DEF wait_for_idle, Fault
<1>2. ASSUME NEW t \in Tasks, Execute(t) PROVE PlacesOK'
  <2> DEFINE c == Head(todo[t])
  <2>1. c \in CommandNames
    BY <1>2 DEF Execute
  <2> DEFINE ok == [text |-> "ok", data |-> IF c \in Interactive THEN c ELSE "none", inches |-> device.inches]
             no == Plain("error")
  <2>a. ok \in AnswerSet
    BY <2>1, AnswersTyped
  <2>b. wire' = Append(wire, ok) \/ wire' = Append(wire, no)
    BY <1>2 DEF Execute
  <2>2. wire' \in Seq(AnswerSet)
    <3> HIDE DEF ok, no
    <3>1. no \in AnswerSet
      BY DEF no
    <3>2. \A e \in AnswerSet : Append(wire, e) \in Seq(AnswerSet)
      OBVIOUS
    <3> QED BY <2>a, <2>b, <3>1, <3>2, Zenon
  <2>3. device' \in Devices
    BY <1>2, DeviceTyped DEF Execute
  <2>4. faults' \in Nat
    BY <1>2 DEF Execute, Fault
  <2> QED BY <1>2, <2>2, <2>3, <2>4 DEF Execute
<1>3. ASSUME NEW t \in Tasks, Refused(t) PROVE PlacesOK' BY <1>3 DEF Refused, Resolved, Disorder
<1>4. ASSUME NEW t \in Tasks, Timeout(t) PROVE PlacesOK' BY <1>4 DEF Timeout, Fault, Disorder
<1>5. ASSUME NEW t \in Tasks, Failed(t) PROVE PlacesOK' BY <1>5 DEF Failed, Return
<1>6. ASSUME NEW t \in Tasks, Resume(t) PROVE PlacesOK'
  <2>1. todo' \in [Tasks -> Seq(CommandNames)] /\ in_flight' \in Tasks \cup {None}
    BY <1>6 DEF Resume
  <2>2. state' \in States /\ report' \in States \cup {None}
    <3>1. [state EXCEPT !.error = None] \in States
      BY DEF States
    <3>2. report # None => [report EXCEPT !.error = "stale"] \in States
      BY DEF States
    <3> QED BY <1>6, <3>1, <3>2 DEF Resume, ClearError
  <2>3. offsets' \in Offsets
    <3>1. InMm(Raw(OffsetInch, lines[t].inches)) \in Int
      BY DEF InMm, Raw, OffsetInch, MmPerInch
    <3>2. (synced /\ Undisturbed) \in BOOLEAN
      BY Zenon
    <3>3. [value |-> InMm(Raw(OffsetInch, lines[t].inches)), fresh |-> synced /\ Undisturbed] \in Offsets
      BY <3>1, <3>2 DEF Offsets
    <3> QED BY <1>6, <3>3 DEF Resume
  <2> QED BY <1>6, <2>1, <2>2, <2>3 DEF Resume, Return
<1>7. CASE handle_ok BY <1>7 DEF handle_ok, Answer, Finish, Resolved
<1>8. CASE handle_error
  <2>1. Raise(state, "first") \in States
    BY DEF Raise, States
  <2> QED BY <1>8, <2>1 DEF handle_error, Answer, Finish, Resolved
<1>9. CASE handle_alarm
  <2>1. Raise(state, "alarm") \in States
    BY DEF Raise, States
  <2>2. [Raise(state, "alarm") EXCEPT !.status = "Alarm"] \in States
    BY <2>1 DEF States
  <2> QED BY <1>9, <2>1, <2>2 DEF handle_alarm, Answer, Finish, Resolved
<1>10. CASE Report
  BY <1>10, ReadTyped DEF Report, handle_status_report
<1>11. CASE StoreReport BY <1>11 DEF StoreReport
<1>12. CASE handle_position_report
  <2>1. [state EXCEPT !.machine_pos = MachineInch * MmPerInch, !.work_pos = MachineInch * MmPerInch, !.fresh = {},
                       !.status = IF state.status = "Unknown" THEN "Idle" ELSE state.status] \in States
    <3>1. MachineInch * MmPerInch \in Int
      BY DEF MachineInch, MmPerInch
    <3> QED BY <3>1, PositionTyped
  <2> QED BY <1>12, <2>1 DEF handle_position_report
<1>13. CASE cancel
  <2>1. [device EXCEPT !.jogging = FALSE, !.alarm = device.alarm \/ (session \in Inches /\ device.jogging)] \in Devices
    BY DEF Devices
  <2>2. wire' \in Seq(AnswerSet)
    <3>1. <<>> \in Seq(AnswerSet)
      OBVIOUS
    <3> QED BY <1>13, <3>1 DEF cancel
  <2>3. pc' \in [Tasks -> Labels] /\ lines' \in [Tasks -> AnswerSet]
    BY <1>13 DEF cancel, Finish, Resolved
  <2> QED BY <1>13, <2>1, <2>2, <2>3 DEF cancel, Fault
<1>14. CASE LinkLost BY <1>14 DEF LinkLost, Fault, Disorder
<1>15. CASE LinkBack BY <1>15 DEF LinkBack
<1>16. CASE DeviceAlarm
  <2>1. [device EXCEPT !.alarm = TRUE, !.jogging = FALSE] \in Devices
    BY DEF Devices
  <2> QED BY <1>16, <2>1 DEF DeviceAlarm, Fault
<1>17. CASE JogEnds
  <2>1. [device EXCEPT !.jogging = FALSE] \in Devices
    BY DEF Devices
  <2> QED BY <1>17, <2>1 DEF JogEnds
<1>18. CASE UNCHANGED vars BY <1>18 DEF vars
<1> QED
  BY <1>1, <1>2, <1>3, <1>4, <1>5, <1>6, <1>7, <1>8, <1>9, <1>10, <1>11, <1>12, <1>13, <1>14, <1>15, <1>16,
     <1>17, <1>18, <1>c DEF Next, Task, Reader

-----------------------------------------------------------------------------
(* The coordinate system.                                                  *)

\* The first two commands of a task's list.
LEMMA NextCommands ==
  ASSUME TypeOK, ListsClosed, NEW t \in Tasks, pc[t] \in {"next", "wait", "answered"}
  PROVE  /\ Len(todo[t]) > 1 => Closed(Tail(todo[t])) /\ Head(Tail(todo[t])) = todo[t][2]
         /\ Head(todo[t]) = "wait_for_idle" => Len(todo[t]) > 1
         /\ Head(todo[t]) = "temp_wcs" => Len(todo[t]) > 1 /\ todo[t][2] = "active_wcs"
<1>1. todo[t] \in Seq(CommandNames) /\ Closed(todo[t])
  BY DEF TypeOK, PlacesOK, ListsClosed
<1> QED BY <1>1, TailClosed

\* Every step keeps the lists closed.
LEMMA ListsStep == TypeOK /\ ListsClosed /\ [Next]_vars => ListsClosed'
<1> SUFFICES ASSUME TypeOK, ListsClosed, [Next]_vars, NEW u \in Tasks, pc'[u] \in {"next", "wait", "answered"}
             PROVE  Closed(todo[u])'
  BY DEF ListsClosed
<1>y. pc \in [Tasks -> Labels] /\ todo \in [Tasks -> Seq(CommandNames)] /\ (in_flight = None \/ in_flight \in Tasks)
  BY DEF TypeOK, PlacesOK
<1>z. pc[u] \in {"next", "wait", "answered"} => Closed(todo[u])
  BY DEF ListsClosed
<1>w. session \in Sessions
  BY DEF TypeOK, PlacesOK
<1> USE <1>y, <1>z
<1> USE DEF Labels, sessionVars, deviceVars, taskVars, vars, Set
<1>c. ASSUME NEW t \in Tasks, NEW o \in Operations, Call(t, o) PROVE Closed(todo[u])'
  BY <1>c, <1>w, ProgramClosed DEF Call
<1>1. ASSUME NEW t \in Tasks, wait_for_idle(t) PROVE Closed(todo[u])'
  BY <1>1, NextCommands DEF wait_for_idle
<1>2. ASSUME NEW t \in Tasks, Execute(t) PROVE Closed(todo[u])' BY <1>2 DEF Execute, Accepted, Fault, Disorder
<1>3. ASSUME NEW t \in Tasks, Refused(t) PROVE Closed(todo[u])' BY <1>3 DEF Refused, Resolved, Disorder
<1>4. ASSUME NEW t \in Tasks, Timeout(t) PROVE Closed(todo[u])' BY <1>4 DEF Timeout, Fault, Disorder
<1>5. ASSUME NEW t \in Tasks, Failed(t) PROVE Closed(todo[u])' BY <1>5 DEF Failed, Return
<1>6. ASSUME NEW t \in Tasks, Resume(t) PROVE Closed(todo[u])'
  BY <1>6, NextCommands DEF Resume, Return
<1>7. CASE handle_ok BY <1>7 DEF handle_ok, Answer, Finish, Resolved
<1>8. CASE handle_error BY <1>8 DEF handle_error, Answer, Finish, Resolved, Raise
<1>9. CASE handle_alarm BY <1>9 DEF handle_alarm, Answer, Finish, Resolved, Raise, Disorder
<1>10. CASE Report
  BY <1>10 DEF Report, handle_status_report, parse_state, parse_status_part, recalculate_positions
<1>11. CASE StoreReport BY <1>11 DEF StoreReport
<1>12. CASE handle_position_report BY <1>12 DEF handle_position_report
<1>13. CASE cancel BY <1>13 DEF cancel, Fault, Disorder, Finish, Resolved
<1>14. CASE LinkLost BY <1>14 DEF LinkLost, Fault, Disorder
<1>15. CASE LinkBack BY <1>15 DEF LinkBack
<1>16. CASE DeviceAlarm BY <1>16 DEF DeviceAlarm, Fault, Disorder
<1>17. CASE JogEnds BY <1>17 DEF JogEnds
<1>18. CASE UNCHANGED vars BY <1>18 DEF vars
<1> QED
  BY <1>1, <1>2, <1>3, <1>4, <1>5, <1>6, <1>7, <1>8, <1>9, <1>10, <1>11, <1>12, <1>13, <1>14, <1>15, <1>16,
     <1>17, <1>18, <1>c DEF Next, Task, Reader

\* Every step keeps a task that will select the active coordinate system again.
LEMMA WcsStep == TypeOK /\ ListsClosed /\ WcsReturns /\ [Next]_vars => WcsReturns'
<1> SUFFICES ASSUME TypeOK, ListsClosed, WcsReturns, [Next]_vars, Steady', (device.wcs = "temp")'
             PROVE  (\E u \in Tasks : Returns(u))'
  BY DEF WcsReturns
<1>y. pc \in [Tasks -> Labels] /\ todo \in [Tasks -> Seq(CommandNames)] /\ (in_flight = None \/ in_flight \in Tasks)
  BY DEF TypeOK, PlacesOK
<1>z. Steady /\ device.wcs = "temp" => \E t \in Tasks : Returns(t)
  BY DEF WcsReturns
<1> USE <1>y, <1>z
<1> USE DEF Labels, sessionVars, deviceVars, taskVars, vars, Set, Steady, Returns
<1>c. ASSUME NEW t \in Tasks, NEW o \in Operations, Call(t, o) PROVE (\E u \in Tasks : Returns(u))'
  BY <1>c DEF Call, Disorder
<1>1. ASSUME NEW t \in Tasks, wait_for_idle(t) PROVE (\E u \in Tasks : Returns(u))'
  BY <1>1 DEF wait_for_idle, Fault
<1>2. ASSUME NEW t \in Tasks, Execute(t) PROVE (\E u \in Tasks : Returns(u))'
  <2> DEFINE c == Head(todo[t])
  <2>a. pc[t] = "next" /\ pc' = [pc EXCEPT ![t] = "wait"] /\ todo' = todo
    BY <1>2 DEF Execute
  <2>b. Steady /\ device' = Accepted(c)
    BY <1>2 DEF Execute, Disorder
  <2>1. CASE c = "temp_wcs"
    <3>1. Len(todo[t]) > 1 /\ todo[t][2] = "active_wcs"
      BY <2>1, <2>a, NextCommands
    <3>2. Returns(t)'
      BY <2>a, <3>1
    <3> QED BY <3>2
  <2>2. CASE c = "active_wcs"
    <3>1. device'.wcs = "active"
      BY <2>2, <2>b DEF Accepted, TypeOK, PlacesOK, Devices
    <3> QED BY <3>1
  <2>3. CASE c \notin {"temp_wcs", "active_wcs"}
    <3>1. device.wcs = "temp"
      BY <2>3, <2>b DEF Accepted, TypeOK, PlacesOK, Devices
    <3>2. PICK v \in Tasks : Returns(v)
      BY <2>b, <3>1
    <3>3. v # t
      BY <2>3, <2>a, <3>2
    <3>4. Returns(v)'
      BY <2>a, <3>2, <3>3
    <3> QED BY <3>4
  <2> QED BY <2>1, <2>2, <2>3
<1>3. ASSUME NEW t \in Tasks, Refused(t) PROVE (\E u \in Tasks : Returns(u))'
  BY <1>3 DEF Refused, Resolved, Disorder
<1>4. ASSUME NEW t \in Tasks, Timeout(t) PROVE (\E u \in Tasks : Returns(u))'
  BY <1>4 DEF Timeout, Fault, Disorder
<1>5. ASSUME NEW t \in Tasks, Failed(t) PROVE (\E u \in Tasks : Returns(u))' BY <1>5 DEF Failed, Return
<1>6. ASSUME NEW t \in Tasks, Resume(t) PROVE (\E u \in Tasks : Returns(u))'
  <2>1. Steady /\ device.wcs = "temp"
    BY <1>6 DEF Resume
  <2>2. PICK v \in Tasks : Returns(v)
    BY <2>1
  <2>3. CASE v = t
    <3>1. pc[t] = "answered" /\ Len(todo[t]) > 1 /\ todo[t][2] = "active_wcs"
      BY <1>6, <2>2, <2>3 DEF Resume
    <3>2. pc'[t] = "next" /\ todo'[t] = Tail(todo[t])
      BY <1>6, <3>1 DEF Resume
    <3>3. Head(Tail(todo[t])) = "active_wcs"
      BY <3>1, NextCommands
    <3> QED BY <3>2, <3>3
  <2>4. CASE v # t
    <3>1. pc'[v] = pc[v] /\ todo'[v] = todo[v]
      BY <1>6, <2>4 DEF Resume, Return
    <3> QED BY <2>2, <3>1
  <2> QED BY <2>3, <2>4
<1>7. CASE handle_ok BY <1>7 DEF handle_ok, Answer, Finish, Resolved
<1>8. CASE handle_error BY <1>8 DEF handle_error, Answer, Finish, Resolved, Raise
<1>9. CASE handle_alarm BY <1>9 DEF handle_alarm, Answer, Finish, Resolved, Raise, Disorder
<1>10. CASE Report
  BY <1>10 DEF Report, handle_status_report, parse_state, parse_status_part, recalculate_positions
<1>11. CASE StoreReport BY <1>11 DEF StoreReport
<1>12. CASE handle_position_report BY <1>12 DEF handle_position_report
<1>13. CASE cancel BY <1>13 DEF cancel, Fault, Disorder, Finish, Resolved
<1>14. CASE LinkLost BY <1>14 DEF LinkLost, Fault, Disorder
<1>15. CASE LinkBack BY <1>15 DEF LinkBack
<1>16. CASE DeviceAlarm BY <1>16 DEF DeviceAlarm, Fault, Disorder
<1>17. CASE JogEnds BY <1>17 DEF JogEnds
<1>18. CASE UNCHANGED vars BY <1>18 DEF vars
<1> QED
  BY <1>1, <1>2, <1>3, <1>4, <1>5, <1>6, <1>7, <1>8, <1>9, <1>10, <1>11, <1>12, <1>13, <1>14, <1>15, <1>16,
     <1>17, <1>18, <1>c DEF Next, Task, Reader

-----------------------------------------------------------------------------
(* The order of the answers and the unit.                                  *)

\* Only the GRBL sessions have an operation that reads the unit.
LEMMA UnitStep == TypeOK /\ UnitKnown /\ [Next]_vars => UnitKnown'
<1> SUFFICES ASSUME TypeOK, UnitKnown, [Next]_vars, session' \notin Inches
             PROVE  (synced = FALSE /\ \A u \in Tasks : op[u] # "read_settings")'
  BY DEF UnitKnown
<1>y. op \in [Tasks -> Operations \cup {"none"}] /\ session \in {"grbl", "simple", "smoothie", "marlin"}
  BY SessionsAssumption DEF TypeOK, PlacesOK
<1>z. session \notin Inches => synced = FALSE /\ \A t \in Tasks : op[t] # "read_settings"
  BY DEF UnitKnown
<1> USE <1>y, <1>z
<1> USE DEF sessionVars, deviceVars, taskVars, vars, Set
<1>c. ASSUME NEW t \in Tasks, NEW o \in Operations, Call(t, o) PROVE (synced = FALSE /\ \A u \in Tasks : op[u] # "read_settings")'
  BY <1>c DEF Call, Program, Inches, ops_smoothie, ops_marlin
<1>1. ASSUME NEW t \in Tasks, wait_for_idle(t) PROVE (synced = FALSE /\ \A u \in Tasks : op[u] # "read_settings")'
  BY <1>1 DEF wait_for_idle, Fault
<1>2. ASSUME NEW t \in Tasks, Execute(t) PROVE (synced = FALSE /\ \A u \in Tasks : op[u] # "read_settings")'
  BY <1>2 DEF Execute, Accepted, Fault, Disorder
<1>3. ASSUME NEW t \in Tasks, Refused(t) PROVE (synced = FALSE /\ \A u \in Tasks : op[u] # "read_settings")'
  BY <1>3 DEF Refused, Resolved, Disorder
<1>4. ASSUME NEW t \in Tasks, Timeout(t) PROVE (synced = FALSE /\ \A u \in Tasks : op[u] # "read_settings")'
  BY <1>4 DEF Timeout, Fault, Disorder
<1>5. ASSUME NEW t \in Tasks, Failed(t) PROVE (synced = FALSE /\ \A u \in Tasks : op[u] # "read_settings")'
  BY <1>5 DEF Failed, Return
<1>6. ASSUME NEW t \in Tasks, Resume(t) PROVE (synced = FALSE /\ \A u \in Tasks : op[u] # "read_settings")'
  BY <1>6 DEF Resume, Return
<1>7. CASE handle_ok BY <1>7 DEF handle_ok, Answer, Finish, Resolved
<1>8. CASE handle_error BY <1>8 DEF handle_error, Answer, Finish, Resolved, Raise
<1>9. CASE handle_alarm BY <1>9 DEF handle_alarm, Answer, Finish, Resolved, Raise, Disorder
<1>10. CASE Report
  BY <1>10 DEF Report, handle_status_report, parse_state, parse_status_part, recalculate_positions
<1>11. CASE StoreReport BY <1>11 DEF StoreReport
<1>12. CASE handle_position_report BY <1>12 DEF handle_position_report
<1>13. CASE cancel BY <1>13 DEF cancel, Fault, Disorder, Finish, Resolved
<1>14. CASE LinkLost BY <1>14 DEF LinkLost, Fault, Disorder
<1>15. CASE LinkBack BY <1>15 DEF LinkBack
<1>16. CASE DeviceAlarm BY <1>16 DEF DeviceAlarm, Fault, Disorder
<1>17. CASE JogEnds BY <1>17 DEF JogEnds
<1>18. CASE UNCHANGED vars BY <1>18 DEF vars
<1> QED
  BY <1>1, <1>2, <1>3, <1>4, <1>5, <1>6, <1>7, <1>8, <1>9, <1>10, <1>11, <1>12, <1>13, <1>14, <1>15, <1>16,
     <1>17, <1>18, <1>c DEF Next, Task, Reader

\* What was marked as undisturbed stays so only while nothing is disturbed.
LEMMA StillUndisturbed == [Next]_vars /\ Undisturbed' => Undisturbed
<1> SUFFICES ASSUME [Next]_vars, Undisturbed' PROVE Undisturbed
  OBVIOUS
<1> USE DEF Undisturbed
<1>c. ASSUME NEW t \in Tasks, NEW o \in Operations, Call(t, o) PROVE Undisturbed
  BY <1>c DEF Call, Disorder
<1>1. ASSUME NEW t \in Tasks, wait_for_idle(t) PROVE Undisturbed BY <1>1 DEF wait_for_idle, Fault
<1>2. ASSUME NEW t \in Tasks, Execute(t) PROVE Undisturbed BY <1>2 DEF Execute, Disorder
<1>3. ASSUME NEW t \in Tasks, Refused(t) PROVE Undisturbed BY <1>3 DEF Refused, Resolved, Disorder
<1>4. ASSUME NEW t \in Tasks, Timeout(t) PROVE Undisturbed BY <1>4 DEF Timeout, Fault, Disorder
<1>5. ASSUME NEW t \in Tasks, Failed(t) PROVE Undisturbed BY <1>5 DEF Failed, Return
<1>6. ASSUME NEW t \in Tasks, Resume(t) PROVE Undisturbed
  BY <1>6 DEF Resume, Return, ClearError, is_report_in_inches
<1>7. CASE handle_ok BY <1>7 DEF handle_ok, Answer
<1>8. CASE handle_error BY <1>8 DEF handle_error, Answer
<1>9. CASE handle_alarm BY <1>9 DEF handle_alarm, Answer, Finish, Resolved, Raise, Disorder
<1>10. CASE Report BY <1>10 DEF Report, handle_status_report
<1>11. CASE StoreReport BY <1>11 DEF StoreReport
<1>12. CASE handle_position_report BY <1>12 DEF handle_position_report
<1>13. CASE cancel BY <1>13 DEF cancel, Fault, Disorder, Finish, Resolved
<1>14. CASE LinkLost BY <1>14 DEF LinkLost, Fault, Disorder
<1>15. CASE LinkBack BY <1>15 DEF LinkBack
<1>16. CASE DeviceAlarm BY <1>16 DEF DeviceAlarm, Fault, Disorder
<1>17. CASE JogEnds BY <1>17 DEF JogEnds
<1>18. CASE UNCHANGED vars BY <1>18 DEF vars
<1> QED
  BY <1>1, <1>2, <1>3, <1>4, <1>5, <1>6, <1>7, <1>8, <1>9, <1>10, <1>11, <1>12, <1>13, <1>14, <1>15, <1>16,
     <1>17, <1>18, <1>c DEF Next, Task, Reader

\* Every undisturbed step leaves at most one operation under way.
LEMMA OneStep == TypeOK /\ OneAtATime /\ [Next]_vars /\ Undisturbed' => OneAtATime'
<1> SUFFICES ASSUME TypeOK, OneAtATime, [Next]_vars, Undisturbed' PROVE OneAtATime'
  OBVIOUS
<1>y. pc \in [Tasks -> Labels] /\ (in_flight = None \/ in_flight \in Tasks)
  BY DEF TypeOK, PlacesOK
<1> USE <1>y
<1> USE DEF OneAtATime, Undisturbed, Labels, sessionVars, deviceVars, taskVars, vars, Set
<1>c. ASSUME NEW t \in Tasks, NEW o \in Operations, Call(t, o) PROVE OneAtATime'
  BY <1>c DEF Call, Disorder
<1>1. ASSUME NEW t \in Tasks, wait_for_idle(t) PROVE OneAtATime' BY <1>1 DEF wait_for_idle, Fault
<1>2. ASSUME NEW t \in Tasks, Execute(t) PROVE OneAtATime' BY <1>2 DEF Execute, Accepted, Fault, Disorder
<1>3. ASSUME NEW t \in Tasks, Refused(t) PROVE OneAtATime' BY <1>3 DEF Refused, Resolved, Disorder
<1>4. ASSUME NEW t \in Tasks, Timeout(t) PROVE OneAtATime' BY <1>4 DEF Timeout, Fault, Disorder
<1>5. ASSUME NEW t \in Tasks, Failed(t) PROVE OneAtATime' BY <1>5 DEF Failed, Return
<1>6. ASSUME NEW t \in Tasks, Resume(t) PROVE OneAtATime' BY <1>6 DEF Resume, Return
<1>7. CASE handle_ok BY <1>7 DEF handle_ok, Answer, Finish, Resolved
<1>8. CASE handle_error BY <1>8 DEF handle_error, Answer, Finish, Resolved, Raise
<1>9. CASE handle_alarm BY <1>9 DEF handle_alarm, Answer, Finish, Resolved, Raise, Disorder
<1>10. CASE Report BY <1>10 DEF Report, handle_status_report
<1>11. CASE StoreReport BY <1>11 DEF StoreReport
<1>12. CASE handle_position_report BY <1>12 DEF handle_position_report
<1>13. CASE cancel BY <1>13 DEF cancel, Fault, Disorder, Finish, Resolved
<1>14. CASE LinkLost BY <1>14 DEF LinkLost, Fault, Disorder
<1>15. CASE LinkBack BY <1>15 DEF LinkBack
<1>16. CASE DeviceAlarm BY <1>16 DEF DeviceAlarm, Fault, Disorder
<1>17. CASE JogEnds BY <1>17 DEF JogEnds
<1>18. CASE UNCHANGED vars BY <1>18 DEF vars
<1> QED
  BY <1>1, <1>2, <1>3, <1>4, <1>5, <1>6, <1>7, <1>8, <1>9, <1>10, <1>11, <1>12, <1>13, <1>14, <1>15, <1>16,
     <1>17, <1>18, <1>c DEF Next, Task, Reader

\* A command that asks for something does not change the unit.
LEMMA UnitKept ==
  ASSUME TypeOK, NEW c
  PROVE  /\ c # "set_unit" => Accepted(c).inches = device.inches
         /\ c \in Interactive => c # "set_unit"
BY DEF TypeOK, PlacesOK, Devices, Accepted, Interactive

\* Every undisturbed step leaves at most one answer on its way, the one that is waited for.
LEMMA AnswerStep == TypeOK /\ OneAnswer /\ [Next]_vars /\ Undisturbed' => OneAnswer'
<1> SUFFICES ASSUME TypeOK, OneAnswer, [Next]_vars, Undisturbed' PROVE OneAnswer'
  OBVIOUS
<1>y. pc \in [Tasks -> Labels] /\ (in_flight = None \/ in_flight \in Tasks) /\ wire \in Seq(AnswerSet)
  BY DEF TypeOK, PlacesOK
<1> USE <1>y, NamesAssumption
<1> USE DEF OneAnswer, Undisturbed, Labels, sessionVars, deviceVars, taskVars, vars, Set
<1>c. ASSUME NEW t \in Tasks, NEW o \in Operations, Call(t, o) PROVE OneAnswer'
  BY <1>c DEF Call
<1>1. ASSUME NEW t \in Tasks, wait_for_idle(t) PROVE OneAnswer' BY <1>1 DEF wait_for_idle, Fault
<1>2. ASSUME NEW t \in Tasks, Execute(t) PROVE OneAnswer'
  <2> DEFINE c == Head(todo[t])
             ok == [text |-> "ok", data |-> IF c \in Interactive THEN c ELSE "none", inches |-> device.inches]
  <2>1. \A i \in 1 .. Len(wire) : wire[i].text = "ALARM"
    BY <1>2 DEF Execute
  <2>2. in_flight' = t /\ pc'[t] = "wait" /\ t # None
    BY <1>2 DEF Execute
  <2>3. PICK e : wire' = Append(wire, e) /\ (e.data # "none" => e.inches = device'.inches)
    <3>1. CASE device' = Accepted(c) /\ wire' = Append(wire, ok)
      BY <3>1, UnitKept
    <3>2. CASE wire' = Append(wire, Plain("error"))
      BY <3>2 DEF Plain
    <3> QED BY <1>2, <3>1, <3>2 DEF Execute
  <2>4. Len(wire') = Len(wire) + 1 /\ wire'[Len(wire) + 1] = e /\ \A i \in 1 .. Len(wire) : wire'[i] = wire[i]
    BY <2>3
  <2>5. \A i \in 1 .. Len(wire') : wire'[i].text # "ALARM" => i = Len(wire) + 1
    BY <2>1, <2>4
  <2> QED BY <2>2, <2>3, <2>4, <2>5
<1>3. ASSUME NEW t \in Tasks, Refused(t) PROVE OneAnswer' BY <1>3 DEF Refused, Resolved, Disorder
<1>4. ASSUME NEW t \in Tasks, Timeout(t) PROVE OneAnswer' BY <1>4 DEF Timeout, Fault, Disorder
<1>5. ASSUME NEW t \in Tasks, Failed(t) PROVE OneAnswer' BY <1>5 DEF Failed, Return
<1>6. ASSUME NEW t \in Tasks, Resume(t) PROVE OneAnswer' BY <1>6 DEF Resume, Return
<1>7. CASE handle_ok BY <1>7 DEF handle_ok, Answer, Finish, Resolved
<1>8. CASE handle_error BY <1>8 DEF handle_error, Answer, Finish, Resolved, Raise
<1>9. CASE handle_alarm
  <2>1. wire # <<>> /\ wire' = Tail(wire) /\ in_flight' = in_flight /\ device' = device
    BY <1>9 DEF handle_alarm, Answer
  <2>2. Len(wire') = Len(wire) - 1 /\ \A i \in 1 .. Len(wire') : wire'[i] = wire[i + 1] /\ i + 1 \in 1 .. Len(wire)
    BY <2>1
  <2>3. pc' = pc
    BY <1>9 DEF handle_alarm, Finish, Disorder
  <2> SUFFICES ASSUME NEW i \in 1 .. Len(wire'), wire'[i].text # "ALARM"
               PROVE  /\ in_flight # None /\ pc[in_flight] = "wait"
                      /\ \A j \in 1 .. Len(wire') : wire'[j].text # "ALARM" => i = j
                      /\ wire'[i].data # "none" => wire'[i].inches = device.inches
    BY <2>1, <2>3
  <2>4. \A j \in 1 .. Len(wire') : wire'[j].text # "ALARM" => i + 1 = j + 1
    BY <2>2
  <2>5. \A j \in 1 .. Len(wire') : wire'[j].text # "ALARM" => i = j
    BY <2>4
  <2> QED BY <2>2, <2>5
<1>10. CASE Report BY <1>10 DEF Report, handle_status_report
<1>11. CASE StoreReport BY <1>11 DEF StoreReport
<1>12. CASE handle_position_report BY <1>12 DEF handle_position_report
<1>13. CASE cancel BY <1>13 DEF cancel, Fault, Disorder, Finish, Resolved
<1>14. CASE LinkLost BY <1>14 DEF LinkLost, Fault, Disorder
<1>15. CASE LinkBack BY <1>15 DEF LinkBack
<1>16. CASE DeviceAlarm
  <2>1. wire' = Append(wire, Plain("ALARM")) /\ in_flight' = in_flight /\ pc' = pc
    BY <1>16 DEF DeviceAlarm
  <2>2. device'.inches = device.inches
    BY <1>16 DEF DeviceAlarm, TypeOK, PlacesOK, Devices
  <2>3. Plain("ALARM").text = "ALARM"
    BY DEF Plain
  <2>4. Len(wire') = Len(wire) + 1 /\ wire'[Len(wire) + 1] = Plain("ALARM") /\ \A i \in 1 .. Len(wire) : wire'[i] = wire[i]
    BY <2>1
  <2>5. \A i \in 1 .. Len(wire') : wire'[i].text # "ALARM" => i \in 1 .. Len(wire)
    BY <2>3, <2>4
  <2> QED BY <2>1, <2>2, <2>4, <2>5
<1>17. CASE JogEnds BY <1>17 DEF JogEnds
<1>18. CASE UNCHANGED vars BY <1>18 DEF vars
<1> QED
  BY <1>1, <1>2, <1>3, <1>4, <1>5, <1>6, <1>7, <1>8, <1>9, <1>10, <1>11, <1>12, <1>13, <1>14, <1>15, <1>16,
     <1>17, <1>18, <1>c DEF Next, Task, Reader

\* Every undisturbed step leaves what is known of the unit true.
LEMMA UnitTrueStep == Inv /\ OneAtATime /\ OneAnswer /\ UnitTrue /\ [Next]_vars /\ Undisturbed' => UnitTrue'
<1> SUFFICES ASSUME Inv, OneAtATime, OneAnswer, UnitTrue, [Next]_vars, Undisturbed' PROVE UnitTrue'
  OBVIOUS
<1>y. /\ pc \in [Tasks -> Labels] /\ lines \in [Tasks -> AnswerSet] /\ (in_flight = None \/ in_flight \in Tasks)
      /\ wire \in Seq(AnswerSet)
  BY DEF Inv, TypeOK, PlacesOK
<1> USE <1>y, NamesAssumption
<1> USE DEF UnitTrue, Undisturbed, Labels, sessionVars, deviceVars, taskVars, vars, Set
<1>c. ASSUME NEW t \in Tasks, NEW o \in Operations, Call(t, o) PROVE UnitTrue'
  BY <1>c DEF Call
<1>1. ASSUME NEW t \in Tasks, wait_for_idle(t) PROVE UnitTrue' BY <1>1 DEF wait_for_idle, Fault
<1>2. ASSUME NEW t \in Tasks, Execute(t) PROVE UnitTrue'
  <2> DEFINE c == Head(todo[t])
  <2>1. \A u \in Tasks : pc'[u] # "answered"
    BY <1>2 DEF Execute, OneAtATime
  <2>2. report_in_inches' = report_in_inches /\ device \in Devices
    BY <1>2 DEF Execute, Inv, TypeOK, PlacesOK
  <2>3. synced' = TRUE => synced = TRUE /\ device'.inches = device.inches
    <3>1. CASE device' = Accepted(c) /\ synced' = (synced /\ c # "set_unit")
      BY <3>1, UnitKept DEF Inv
    <3>2. CASE device' = device /\ synced' = synced
      BY <3>2
    <3> QED BY <1>2, <3>1, <3>2 DEF Execute
  <2> QED BY <2>1, <2>2, <2>3
<1>3. ASSUME NEW t \in Tasks, Refused(t) PROVE UnitTrue'
  BY <1>3 DEF Refused, Resolved, NoLines, Plain
<1>4. ASSUME NEW t \in Tasks, Timeout(t) PROVE UnitTrue' BY <1>4 DEF Timeout, Fault, Disorder
<1>5. ASSUME NEW t \in Tasks, Failed(t) PROVE UnitTrue' BY <1>5 DEF Failed, Return
<1>6. ASSUME NEW t \in Tasks, Resume(t) PROVE UnitTrue'
  <2>1. pc[t] = "answered" /\ pc'[t] # "answered" /\ device' = device
    BY <1>6 DEF Resume, Return
  <2>2. \A u \in Tasks : u # t => pc'[u] = pc[u] /\ lines'[u] = lines[u]
    BY <1>6 DEF Resume, Return
  <2>3. synced' = TRUE => report_in_inches' = device.inches
    <3>1. CASE synced' = synced /\ report_in_inches' = report_in_inches
      BY <3>1
    <3>2. CASE report_in_inches' = is_report_in_inches(lines[t]) /\ synced' = (lines[t].data = "settings")
      <4> SUFFICES ASSUME synced' = TRUE PROVE report_in_inches' = device.inches
        OBVIOUS
      <4>1. lines[t].data = "settings"
        BY <3>2, Zenon
      <4>2. lines[t].inches = device.inches /\ device.inches \in BOOLEAN
        BY <2>1, <4>1 DEF Inv, TypeOK, PlacesOK, Devices
      <4>3. report_in_inches' = lines[t].inches
        BY <3>2, <4>1, <4>2, Zenon DEF is_report_in_inches
      <4> QED BY <4>2, <4>3, Zenon
    <3> QED BY <1>6, <3>1, <3>2 DEF Resume
  <2> QED BY <2>1, <2>2, <2>3
<1>7. CASE handle_ok
  <2>1. wire # <<>> /\ Head(wire).text # "ALARM" /\ device' = device /\ synced' = synced /\ report_in_inches' = report_in_inches
    BY <1>7 DEF handle_ok, Answer
  <2>2. Head(wire) = wire[1] /\ 1 \in 1 .. Len(wire)
    BY <2>1
  <2>3. Head(wire).data # "none" => Head(wire).inches = device.inches
    BY <2>1, <2>2 DEF OneAnswer
  <2>4. Finish(Head(wire))
    BY <1>7 DEF handle_ok
  <2> QED BY <2>1, <2>3, <2>4 DEF Finish, Resolved
<1>8. CASE handle_error
  <2>1. wire # <<>> /\ Head(wire).text # "ALARM" /\ device' = device /\ synced' = synced /\ report_in_inches' = report_in_inches
    BY <1>8 DEF handle_error, Answer
  <2>2. Head(wire) = wire[1] /\ 1 \in 1 .. Len(wire)
    BY <2>1
  <2>3. Head(wire).data # "none" => Head(wire).inches = device.inches
    BY <2>1, <2>2 DEF OneAnswer
  <2>4. Finish(Head(wire))
    BY <1>8 DEF handle_error
  <2> QED BY <2>1, <2>3, <2>4 DEF Finish, Resolved
<1>9. CASE handle_alarm BY <1>9 DEF handle_alarm, Answer, Finish, Resolved, Raise, Disorder
<1>10. CASE Report BY <1>10 DEF Report, handle_status_report
<1>11. CASE StoreReport BY <1>11 DEF StoreReport
<1>12. CASE handle_position_report BY <1>12 DEF handle_position_report
<1>13. CASE cancel BY <1>13 DEF cancel, Fault, Disorder, Finish, Resolved
<1>14. CASE LinkLost BY <1>14 DEF LinkLost, Fault, Disorder
<1>15. CASE LinkBack BY <1>15 DEF LinkBack
<1>16. CASE DeviceAlarm BY <1>16 DEF DeviceAlarm, Fault, Disorder
<1>17. CASE JogEnds BY <1>17 DEF JogEnds
<1>18. CASE UNCHANGED vars BY <1>18 DEF vars
<1> QED
  BY <1>1, <1>2, <1>3, <1>4, <1>5, <1>6, <1>7, <1>8, <1>9, <1>10, <1>11, <1>12, <1>13, <1>14, <1>15, <1>16,
     <1>17, <1>18, <1>c DEF Next, Task, Reader

\* Undisturbed, operations, answers and unit stay in order.
LEMMA OrderStep == Inv /\ [Next]_vars => InOrder'
<1> SUFFICES ASSUME Inv, [Next]_vars, Undisturbed' PROVE (OneAtATime /\ OneAnswer /\ UnitTrue)'
  BY DEF InOrder
<1>1. Undisturbed
  BY StillUndisturbed
<1>2. TypeOK /\ OneAtATime /\ OneAnswer /\ UnitTrue
  BY <1>1 DEF Inv, InOrder
<1> QED BY <1>2, OneStep, AnswerStep, UnitTrueStep

\* A position read with the unit known is in mm, whichever unit the device reports in.
LEMMA ConvertedToMm ==
  ASSUME NEW v \in Int, NEW u \in BOOLEAN, report_in_inches = u PROVE InMm(Raw(v, u)) = v * MmPerInch
<1>1. CASE u = TRUE
  BY <1>1 DEF InMm, Raw, MmPerInch
<1>2. CASE u = FALSE
  BY <1>2 DEF InMm, Raw, MmPerInch
<1> QED BY <1>1, <1>2

\* So is what a status report says of a position, ...
LEMMA KnownInMm ==
  ASSUME TypeOK, InOrder, UnitKnown, synced = TRUE, Undisturbed
  PROVE  \A v \in Int : Read(v) = v * MmPerInch
<1>1. session # "smoothie" /\ report_in_inches = device.inches /\ device.inches \in BOOLEAN
  BY DEF InOrder, UnitTrue, UnitKnown, Inches, TypeOK, PlacesOK, Devices
<1> QED BY <1>1, ConvertedToMm DEF Read

\* ... and what is computed from two values that are in mm.
LEMMA ReadInMm ==
  ASSUME TypeOK, InOrder, UnitKnown, MarkedInMm(state), NEW code \in BOOLEAN, NEW found
  PROVE  MarkedInMm(parse_state(code, found))
<1> DEFINE r == AsRead(code, found)
           u == infer_wco(r, found)
           q == recalculate_positions(u, found)
           known == synced /\ Undisturbed
           offset == IF "WCO" \in found \/ {"MPos", "WPos"} \subseteq found THEN known ELSE "WCO" \in state.fresh
<1>1. parse_state(code, found) = q
  BY AsReadFields
<1>2. /\ r \in States /\ r.fresh = Fresh(state, found)
      /\ r.machine_pos = IF "MPos" \in found THEN Read(MachineInch) ELSE state.machine_pos
      /\ r.work_pos = IF "WPos" \in found THEN Read(MachineInch - OffsetInch) ELSE state.work_pos
      /\ r.wco = IF "WCO" \in found THEN Read(OffsetInch) ELSE state.wco
  BY AsReadFields
<1>3. known => /\ Read(MachineInch) = MachineInch * MmPerInch /\ Read(OffsetInch) = OffsetInch * MmPerInch
               /\ Read(MachineInch - OffsetInch) = (MachineInch - OffsetInch) * MmPerInch
  <2>1. known => synced = TRUE
    BY Zenon DEF TypeOK, FlagsOK
  <2> QED BY <2>1, KnownInMm DEF MachineInch, OffsetInch
<1>4. /\ "WCO" \in r.fresh => offset
      /\ "MPos" \in r.fresh => IF "MPos" \in found THEN known
                               ELSE IF "WPos" \in found THEN known /\ offset ELSE "MPos" \in state.fresh
      /\ "WPos" \in r.fresh => IF "MPos" \in found THEN known /\ offset
                               ELSE IF "WPos" \in found THEN known ELSE "WPos" \in state.fresh
  <2> HIDE DEF r
  <2> QED BY <1>2 DEF Fresh
<1>5. /\ u \in [DOMAIN r -> {u[i] : i \in DOMAIN r}] /\ u.fresh = r.fresh
      /\ u.machine_pos = r.machine_pos /\ u.work_pos = r.work_pos
      /\ u.wco = IF {"MPos", "WPos"} \subseteq found /\ "WCO" \notin found THEN r.machine_pos - r.work_pos ELSE r.wco
  <2> HIDE DEF r
  <2> QED BY <1>2 DEF infer_wco, States
<1> HIDE DEF u
<1>6. offset => u.wco = OffsetInch * MmPerInch
  <2> HIDE DEF r
  <2> QED BY <1>2, <1>3, <1>5 DEF MarkedInMm, MachineInch, OffsetInch, MmPerInch
<1> HIDE DEF r, known, offset
<1>7. CASE "MPos" \in found
  <2>1. q = [u EXCEPT !.work_pos = u.machine_pos - u.wco]
    BY <1>7 DEF recalculate_positions
  <2>2. q.machine_pos = u.machine_pos /\ q.work_pos = u.machine_pos - u.wco /\ q.wco = u.wco /\ q.fresh = r.fresh
    BY <1>2, <1>5, <2>1 DEF States
  <2> HIDE DEF q
  <2> QED BY <1>1, <1>2, <1>3, <1>4, <1>5, <1>6, <1>7, <2>2 DEF MarkedInMm, MachineInch, OffsetInch, MmPerInch
<1>8. CASE "MPos" \notin found /\ "WPos" \in found
  <2>1. q = [u EXCEPT !.machine_pos = u.work_pos + u.wco]
    BY <1>8 DEF recalculate_positions
  <2>2. q.machine_pos = u.work_pos + u.wco /\ q.work_pos = u.work_pos /\ q.wco = u.wco /\ q.fresh = r.fresh
    BY <1>2, <1>5, <2>1 DEF States
  <2> HIDE DEF q
  <2> QED BY <1>1, <1>2, <1>3, <1>4, <1>5, <1>6, <1>8, <2>2 DEF MarkedInMm, MachineInch, OffsetInch, MmPerInch
<1>9. CASE "MPos" \notin found /\ "WPos" \notin found
  <2>1. q = u
    BY <1>9 DEF recalculate_positions
  <2> HIDE DEF q
  <2> QED BY <1>1, <1>2, <1>4, <1>5, <1>6, <1>9, <2>1 DEF MarkedInMm
<1> QED BY <1>7, <1>8, <1>9

\* Every step keeps what is marked as read with the unit known in mm.
LEMMA FreshStep == Inv /\ [Next]_vars => FreshInMm'
<1> SUFFICES ASSUME Inv, [Next]_vars PROVE FreshInMm'
  OBVIOUS
<1>y. state \in States /\ (report = None \/ report \in States)
  BY DEF Inv, TypeOK, PlacesOK
<1>z. FreshInMm
  BY DEF Inv
<1> USE <1>y, <1>z
<1> USE DEF FreshInMm, PositionsInMm, MarkedInMm, States, sessionVars, deviceVars, taskVars, vars, Set
<1>c. ASSUME NEW t \in Tasks, NEW o \in Operations, Call(t, o) PROVE FreshInMm'
  BY <1>c DEF Call
<1>1. ASSUME NEW t \in Tasks, wait_for_idle(t) PROVE FreshInMm' BY <1>1 DEF wait_for_idle, Fault
<1>2. ASSUME NEW t \in Tasks, Execute(t) PROVE FreshInMm' BY <1>2 DEF Execute, Accepted, Fault, Disorder
<1>3. ASSUME NEW t \in Tasks, Refused(t) PROVE FreshInMm' BY <1>3 DEF Refused, Resolved, Disorder
<1>4. ASSUME NEW t \in Tasks, Timeout(t) PROVE FreshInMm' BY <1>4 DEF Timeout, Fault, Disorder
<1>5. ASSUME NEW t \in Tasks, Failed(t) PROVE FreshInMm' BY <1>5 DEF Failed, Return
<1>6. ASSUME NEW t \in Tasks, Resume(t) PROVE FreshInMm'
  <2>1. MarkedInMm(state')
    BY <1>6 DEF Resume, ClearError
  <2>2. report' # None => MarkedInMm(report')
    <3>1. CASE report' = report
      BY <3>1
    <3>2. CASE report # None /\ report' = [report EXCEPT !.error = "stale"]
      <4>1. /\ report'.fresh = report.fresh /\ report'.machine_pos = report.machine_pos
            /\ report'.work_pos = report.work_pos /\ report'.wco = report.wco
        BY <3>2
      <4> QED BY <3>2, <4>1
    <3> QED BY <1>6, <3>1, <3>2 DEF Resume, ClearError
  <2>3. offsets'.fresh = TRUE => offsets'.value = OffsetInch * MmPerInch
    <3> DEFINE v == InMm(Raw(OffsetInch, lines[t].inches))
               f == synced /\ Undisturbed
    <3>1. CASE offsets' = offsets
      BY <3>1
    <3>2. CASE lines[t].data = "offsets" /\ offsets' = [value |-> v, fresh |-> f]
      <4> SUFFICES ASSUME f = TRUE PROVE v = OffsetInch * MmPerInch
        BY <3>2
      <4>1. synced = TRUE /\ Undisturbed
        BY Zenon DEF Inv, TypeOK, FlagsOK
      <4>2. lines[t].inches = device.inches /\ report_in_inches = device.inches /\ device.inches \in BOOLEAN
        BY <1>6, <3>2, <4>1 DEF Inv, InOrder, UnitTrue, Resume, TypeOK, PlacesOK, Devices
      <4> QED BY <4>2, ConvertedToMm DEF OffsetInch
    <3> QED BY <1>6, <3>1, <3>2 DEF Resume
  <2>4. offsets' \in Offsets
    BY PlacesStep DEF Inv, PlacesOK
  <2> QED BY <2>1, <2>2, <2>3, <2>4 DEF Offsets
<1>7. CASE handle_ok BY <1>7 DEF handle_ok, Answer, Finish, Resolved
<1>8. CASE handle_error BY <1>8 DEF handle_error, Answer, Finish, Resolved, Raise
<1>9. CASE handle_alarm BY <1>9 DEF handle_alarm, Answer, Finish, Resolved, Raise, Disorder
<1>10. CASE Report
  <2>1. PICK code \in BOOLEAN, found \in Reports : handle_status_report(code, found)
    BY <1>10 DEF Report
  <2>2. report' = parse_state(code, found) /\ state' = state /\ offsets' = offsets
    BY <2>1 DEF handle_status_report
  <2>3. MarkedInMm(parse_state(code, found))
    BY ReadInMm DEF Inv
  <2> QED BY <2>2, <2>3
<1>11. CASE StoreReport BY <1>11 DEF StoreReport
<1>12. CASE handle_position_report BY <1>12 DEF handle_position_report
<1>13. CASE cancel BY <1>13 DEF cancel, Fault, Disorder, Finish, Resolved
<1>14. CASE LinkLost BY <1>14 DEF LinkLost, Fault, Disorder
<1>15. CASE LinkBack BY <1>15 DEF LinkBack
<1>16. CASE DeviceAlarm BY <1>16 DEF DeviceAlarm, Fault, Disorder
<1>17. CASE JogEnds BY <1>17 DEF JogEnds
<1>18. CASE UNCHANGED vars BY <1>18 DEF vars
<1> QED
  BY <1>1, <1>2, <1>3, <1>4, <1>5, <1>6, <1>7, <1>8, <1>9, <1>10, <1>11, <1>12, <1>13, <1>14, <1>15, <1>16,
     <1>17, <1>18, <1>c DEF Next, Task, Reader

-----------------------------------------------------------------------------
(* What follows.                                                           *)

\* Before the first call the device stands in its coordinate system and nothing is known.
LEMMA InvInit == Init => Inv
<1> SUFFICES ASSUME Init PROVE Inv
  OBVIOUS
<1>1. FlagsOK
  BY Zenon DEF Init, FlagsOK
<1>2. PlacesOK
  <2>1. device \in Devices
    <3>1. PICK b \in (IF session \in Inches THEN BOOLEAN ELSE {FALSE}) :
                device = [alarm |-> FALSE, inches |-> b, wcs |-> "active", jogging |-> FALSE]
      BY DEF Init
    <3>2. b \in BOOLEAN
      BY Zenon
    <3> QED BY <3>1, <3>2 DEF Devices
  <2>2. state \in States /\ offsets \in Offsets
    BY DEF Init, States, Offsets
  <2>3. NoLines \in AnswerSet
    BY DEF NoLines, Plain, AnswerSet
  <2> QED BY <2>1, <2>2, <2>3 DEF Init, PlacesOK, Labels
<1>3. ListsClosed /\ WcsReturns
  BY DEF Init, ListsClosed, WcsReturns
<1>4. InOrder /\ UnitKnown
  BY DEF Init, InOrder, OneAtATime, OneAnswer, UnitTrue, UnitKnown
<1>5. FreshInMm
  BY DEF Init, FreshInMm, PositionsInMm, MarkedInMm
<1> QED BY <1>1, <1>2, <1>3, <1>4, <1>5 DEF Inv, TypeOK

\* The invariant is inductive.
LEMMA InvAlways == Spec => []Inv
<1>1. Inv /\ [Next]_vars => Inv'
  BY FlagsStep, PlacesStep, ListsStep, WcsStep, OrderStep, UnitStep, FreshStep DEF Inv, TypeOK
<1> QED BY InvInit, <1>1, PTL DEF Spec

\* Every variable keeps its type.
THEOREM TypeCorrect == Spec => []TypeOK
BY InvAlways, PTL DEF Inv

\* Any number of tasks and calls, however they interleave: homing's detour over another coordinate
\* system ends in the active one unless a command was rejected, given up, dropped or cancelled.
THEOREM HomeReturns == Spec => []HomeRestoresWcs
<1>1. Inv => HomeRestoresWcs
  BY DEF Inv, HomeRestoresWcs, WcsReturns, Steady, Returns, Quiet, TypeOK, PlacesOK, Devices
<1> QED BY InvAlways, <1>1, PTL

\* Any number of unit changes, rejected commands, lost links and status reports stored late, whichever
\* of MPos, WPos and WCO each of them has: what was read with the unit known, and what was computed
\* from such values, is in mm.
THEOREM UnitsHold == Spec => []PositionsInMm
<1>1. Inv => PositionsInMm
  BY DEF Inv, FreshInMm
<1> QED BY InvAlways, <1>1, PTL
=============================================================================
