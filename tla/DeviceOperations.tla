-------------------------- MODULE DeviceOperations --------------------------
(***************************************************************************)
(* The device operations of the four sessions (home, jog, read_settings,   *)
(* ...: grbl/session.rs from line 1757 on and its counterparts), the       *)
(* device state that they share with the status reports, and the unit flag *)
(* that decides how positions are read.                                    *)
(*                                                                         *)
(* An operation is a sequence of commands, each an execute_command or an   *)
(* execute_interactive_command, and what it does at its end.  The exchange *)
(* underneath (PingPong, MarlinExchange, GrblRequests) is abstracted to    *)
(* one command at a time, finished by the next ok, error or, in two        *)
(* sessions, ALARM; a call that does not fail returns Ok whatever the      *)
(* answer says.  A status report takes the reader two steps: the state is  *)
(* read and, later, replaced as a whole.                                   *)
(*                                                                         *)
(* Abstracted: coordinates (the machine stands at MachineInch inches with  *)
(* an offset of OffsetInch inches in each coordinate system) and error     *)
(* codes (state.error says how the error shown relates to the errors       *)
(* raised since it was last cleared: the first of them, if that is an      *)
(* ALARM "alarm", else "first", a later one, or a stale one from before).  *)
(* The job's part of the state is in GrblJob and SmoothieSession.          *)
(***************************************************************************)
EXTENDS Integers, Sequences

CONSTANTS Tasks,          \* tasks that call operations
          Sessions,       \* of {"grbl", "simple", "smoothie", "marlin"}: the ones checked
          Operations,     \* names of the operations that are called
          Reports,        \* the sets of attributes that a status report may have
          None,           \* no report, no task, no error, position unknown
          Faults,         \* of {"alarm", "code", "reject", "late", "link", "cancel"}: what may go wrong
          MaxCalls,       \* bound: operations started
          MaxFaults       \* bound: faults

Attributes == {"MPos", "WPos", "WCO"}

ASSUME ReportsAssumption == Reports \subseteq SUBSET Attributes
ASSUME SessionsAssumption == Sessions \subseteq {"grbl", "simple", "smoothie", "marlin"}
ASSUME NamesAssumption == None \notin Tasks \cup Int
ASSUME FaultsAssumption == Faults \subseteq {"alarm", "code", "reject", "late", "link", "cancel"}
ASSUME BoundsAssumption == MaxCalls \in Nat /\ MaxFaults \in Nat

VARIABLES
    session,                        \* which session this is
    state,                          \* DeviceState; fresh (a ghost): which of it was read with the unit known
    report_in_inches,               \* the GRBL sessions' unit flag
    offsets,                        \* the offset last announced by wcs_updated (fresh: as in state)
    pc, op, todo, lines,            \* each task: its operation, the commands left, the answer to the last
    in_flight,                      \* the task whose command awaits its answer
    report,                         \* reader: the state parsed and not yet stored
    wire, open, device,             \* answers on their way, the link, the firmware
    calls, faults,                  \* counters of the bounds
    synced, disorder                \* ghosts: the unit has been read since it changed; what went wrong

taskVars == <<pc, op, todo, lines>>
sessionVars == <<state, report_in_inches, offsets, in_flight, report>>
deviceVars == <<wire, open, device>>
vars == <<session, taskVars, sessionVars, deviceVars, calls, faults, synced, disorder>>

MmPerInch == 3            \* 25.4, scaled down
MachineInch == 2
OffsetInch == 1
Inches == {"grbl", "simple"}       \* the sessions that know about inches

(***************************************************************************)
(* The operations of each session: the commands they send, in order.       *)
(* move_to stands for every operation that is one queued command and       *)
(* nothing else (select_tool, set_power, set_wcs_offset, ...); write_unit  *)
(* is write_setting("13", ..).                                             *)
(***************************************************************************)
\* mutant: the workaround selects the active coordinate system first
home_grbl_swapped(axes) == axes \o <<"dwell", "active_wcs", "temp_wcs">>

\* "toggling to another WCS and back re-activates it"
home_grbl(axes) == axes \o <<"dwell", "temp_wcs", "active_wcs">>
moves_grbl(o) ==
    CASE o = "move_to" -> <<"gcode">> [] o = "jog" -> <<"jog">>
      [] o = "set_focus_power_off" -> <<"wait_for_idle", "laser_off">> [] OTHER -> <<>>
reads_grbl(o) ==
    CASE o = "read_settings" -> <<"settings">> [] o = "write_unit" -> <<"set_unit">>
      [] o = "read_wcs_offsets" -> <<"offsets">> [] o = "run_probe_cycle" -> <<"probe">> [] OTHER -> <<>>

home_simple(axes) == axes \o <<"dwell", "temp_wcs", "active_wcs">>
moves_simple(o) ==
    CASE o = "move_to" -> <<"gcode">> [] o = "jog" -> <<"jog">>
      [] o = "set_focus_power_off" -> <<"laser_off">> [] OTHER -> <<>>
reads_simple(o) ==
    CASE o = "read_settings" -> <<"settings">> [] o = "write_unit" -> <<"set_unit">>
      [] o = "read_wcs_offsets" -> <<"offsets">> [] o = "run_probe_cycle" -> <<"probe">> [] OTHER -> <<>>

ops_smoothie(o) ==
    CASE o = "home" -> <<"home">> [] o = "home_axes" -> <<"home", "home">> [] o = "clear_alarm" -> <<"clear_alarm">>
      [] o = "move_to" -> <<"gcode">> [] o = "jog" -> <<"jog">>
      [] o = "set_focus_power_off" -> <<"laser_off">> [] OTHER -> <<>>

\* detect_unit_system asks M149 and keeps nothing of the answer
ops_marlin(o) ==
    CASE o = "home" -> <<"home">> [] o = "home_axes" -> <<"home", "home">> [] o = "clear_alarm" -> <<"clear_alarm">>
      [] o = "move_to" -> <<"gcode">> [] o = "jog" -> <<"jog">>
      [] o = "set_focus_power_off" -> <<"laser_off">> [] OTHER -> <<>>

Homes == {"home", "home_axes"}
Moves == {"move_to", "jog", "set_focus_power_off"}
Axes(o) == IF o = "home" THEN <<"home">> ELSE <<"home", "home">>

\* empty: the session has no such operation
Program(o) ==
    CASE session = "grbl" -> IF o \in Homes THEN home_grbl(Axes(o)) ELSE IF o \in Moves THEN moves_grbl(o) ELSE reads_grbl(o)
      [] session = "simple" -> IF o \in Homes THEN home_simple(Axes(o)) ELSE IF o \in Moves THEN moves_simple(o) ELSE reads_simple(o)
      [] session = "smoothie" -> ops_smoothie(o)
      [] session = "marlin" -> ops_marlin(o)

Interactive == {"settings", "offsets", "probe"}
Gcode == {"dwell", "temp_wcs", "active_wcs", "gcode", "jog", "laser_off", "probe"}

\* an answer: its last line, the data before it, and the unit they are in
Plain(text) == [text |-> text, data |-> "none", inches |-> FALSE]
NoLines == Plain("none")

Init ==
    /\ session \in Sessions
    /\ state = [status |-> "Unknown", error |-> None, machine_pos |-> None, wco |-> 0, work_pos |-> None, fresh |-> {}]
    /\ report_in_inches = FALSE /\ offsets = [value |-> None, fresh |-> FALSE]
    /\ pc = [t \in Tasks |-> "idle"] /\ op = [t \in Tasks |-> "none"]
    /\ todo = [t \in Tasks |-> <<>>] /\ lines = [t \in Tasks |-> NoLines]
    /\ in_flight = None /\ report = None /\ wire = <<>> /\ open = TRUE
    /\ \E b \in (IF session \in Inches THEN BOOLEAN ELSE {FALSE}) :
         device = [alarm |-> FALSE, inches |-> b, wcs |-> "active", jogging |-> FALSE]
    /\ calls = 0 /\ faults = 0 /\ synced = FALSE /\ disorder = {}

Fault(f) == f \in Faults /\ faults < MaxFaults /\ faults' = faults + 1
Set(f, t, v) == [f EXCEPT ![t] = v]
Disorder(what) == disorder' = disorder \cup {what}
Return(t) == pc' = Set(pc, t, "idle") /\ op' = Set(op, t, "none") /\ lines' = Set(lines, t, NoLines)
Resolved(t, answer) == pc' = Set(pc, t, "answered") /\ lines' = Set(lines, t, answer)

(***************************************************************************)
(* A call: its commands one by one                                         *)
(***************************************************************************)
Call(t, o) ==
    /\ pc[t] = "idle" /\ calls < MaxCalls /\ Program(o) # <<>>
    /\ pc' = Set(pc, t, "next") /\ op' = Set(op, t, o) /\ todo' = Set(todo, t, Program(o))
    /\ calls' = calls + 1
    /\ IF \E u \in Tasks : pc[u] # "idle" THEN Disorder("overlap") ELSE UNCHANGED disorder
    /\ UNCHANGED <<session, lines, sessionVars, deviceVars, faults, synced>>

\* until a report says that the jog is over, for 5 seconds at most
wait_for_idle(t) ==
    /\ pc[t] = "next" /\ Head(todo[t]) = "wait_for_idle"
    /\ IF state.status = "Jog" /\ open THEN Fault("late") ELSE UNCHANGED faults
    /\ todo' = Set(todo, t, Tail(todo[t]))
    /\ UNCHANGED <<session, pc, op, lines, sessionVars, deviceVars, calls, synced, disorder>>

\* the firmware: what a command that it accepts changes
Accepted(c) ==
    CASE c = "temp_wcs" -> [device EXCEPT !.wcs = "temp"]
      [] c = "active_wcs" -> [device EXCEPT !.wcs = "active"]
      [] c = "jog" -> [device EXCEPT !.jogging = TRUE]
      [] c = "set_unit" -> [device EXCEPT !.inches = ~@]
      [] c \in {"clear_alarm", "home"} -> [device EXCEPT !.alarm = FALSE]
      [] OTHER -> device

\* the command reaches the device, which answers it; an ALARM locks G-code out
Execute(t) ==
    /\ pc[t] = "next" /\ Head(todo[t]) # "wait_for_idle" /\ in_flight = None /\ open
    /\ LET c == Head(todo[t])
           locked == device.alarm /\ c \in Gcode
       IN \/ /\ ~locked
             /\ device' = Accepted(c)
             /\ wire' = Append(wire, [text |-> "ok", data |-> IF c \in Interactive THEN c ELSE "none", inches |-> device.inches])
             /\ synced' = (synced /\ c # "set_unit")
             /\ UNCHANGED <<faults, disorder>>
          \/ /\ IF locked THEN UNCHANGED faults ELSE Fault("reject")
             /\ wire' = Append(wire, Plain("error"))
             /\ Disorder("rejected")
             /\ UNCHANGED <<device, synced>>
    /\ in_flight' = t /\ pc' = Set(pc, t, "wait")
    /\ UNCHANGED <<session, op, todo, lines, state, report_in_inches, offsets, report, open, calls>>

\* The link is closed.  A queued GRBL command is dropped and finished without lines
\* (command_queue_loop); any other exchange fails.
Refused(t) ==
    /\ pc[t] = "next" /\ Head(todo[t]) # "wait_for_idle" /\ ~open
    /\ IF session = "grbl" /\ Head(todo[t]) \notin Interactive
       THEN Resolved(t, NoLines) /\ Disorder("dropped")
       ELSE pc' = Set(pc, t, "failed") /\ Disorder("failed") /\ UNCHANGED lines
    /\ UNCHANGED <<session, op, todo, sessionVars, deviceVars, calls, faults, synced>>

\* command_timeout: the answer is lost, or it is late and will still come
Timeout(t) ==
    /\ pc[t] = "wait"
    /\ IF wire = <<>> THEN UNCHANGED faults ELSE Fault("late")
    /\ in_flight' = None /\ pc' = Set(pc, t, "failed") /\ Disorder("timeout")
    /\ UNCHANGED <<session, op, todo, lines, state, report_in_inches, offsets, report, deviceVars, calls, synced>>

\* the `?' of an operation: no further command and nothing at its end
Failed(t) ==
    /\ pc[t] = "failed"
    /\ Return(t) /\ todo' = Set(todo, t, <<>>)
    /\ UNCHANGED <<session, sessionVars, deviceVars, calls, faults, synced, disorder>>

\* clear the error; what a report still carries is stale from now on (ghost)
ClearError ==
    /\ state' = [state EXCEPT !.error = None]
    /\ report' = IF report = None \/ report.error = None THEN report ELSE [report EXCEPT !.error = "stale"]

\* no two operations overlapped, none was given up and no ALARM was taken for an answer
Undisturbed == disorder \cap {"overlap", "timeout", "cancel", "stolen"} = {}

\* mutant: the setting counts whatever its value
is_report_in_inches_present(answer) == answer.data = "settings"

\* an answer without the setting means mm
is_report_in_inches(answer) == answer.data = "settings" /\ answer.inches

InMm(v) == IF report_in_inches THEN v * MmPerInch ELSE v
Raw(inch, inInches) == IF inInches THEN inch ELSE inch * MmPerInch

\* The exchange returns: the next command, or what the operation does at its end.  home clears
\* the error whatever was answered; read_settings stands for detect_unit_system too.
Resume(t) ==
    /\ pc[t] = "answered"
    /\ in_flight' = (IF in_flight = t THEN None ELSE in_flight)
    /\ todo' = Set(todo, t, Tail(todo[t]))
    /\ IF Len(todo[t]) > 1
       THEN pc' = Set(pc, t, "next") /\ UNCHANGED <<op, lines, state, report_in_inches, offsets, report, synced>>
       ELSE /\ Return(t)
            /\ IF op[t] \in Homes \/ (op[t] = "clear_alarm" /\ lines[t].text # "error")
               THEN ClearError ELSE UNCHANGED <<state, report>>
            /\ IF op[t] = "read_settings"
               THEN report_in_inches' = is_report_in_inches(lines[t]) /\ synced' = (lines[t].data = "settings")
               ELSE UNCHANGED <<report_in_inches, synced>>
            /\ offsets' = IF op[t] = "read_wcs_offsets" /\ lines[t].data = "offsets"
                          THEN [value |-> InMm(Raw(OffsetInch, lines[t].inches)), fresh |-> synced /\ Undisturbed]
                          ELSE offsets
    /\ UNCHANGED <<session, deviceVars, calls, faults, disorder>>

(***************************************************************************)
(* The reader: answers                                                     *)
(***************************************************************************)
\* "First error wins"
Raise(s, e) == [s EXCEPT !.error = IF @ = None THEN e ELSE @]
\* finish_pending; the request of handle_ok and handle_error
Finish(answer) ==
    IF in_flight # None /\ pc[in_flight] = "wait" THEN Resolved(in_flight, answer) ELSE UNCHANGED <<pc, lines>>

Answer(text) ==
    /\ wire # <<>> /\ report = None /\ Head(wire).text = text
    /\ wire' = Tail(wire)
    /\ UNCHANGED <<session, op, todo, report_in_inches, offsets, in_flight, report, open, device, calls, faults, synced>>

handle_ok == Answer("ok") /\ Finish(Head(wire)) /\ UNCHANGED <<state, disorder>>

handle_error == Answer("error") /\ state' = Raise(state, "first") /\ Finish(Head(wire)) /\ UNCHANGED disorder

\* The GRBL session leaves the command to its own answer and the status to the next report;
\* the other two take ALARM for the answer.
handle_alarm ==
    /\ Answer("ALARM")
    /\ IF session = "grbl" THEN state' = Raise(state, "alarm") /\ UNCHANGED <<pc, lines, disorder>>
       ELSE /\ state' = [Raise(state, "alarm") EXCEPT !.status = "Alarm"] /\ Finish(Head(wire))
            /\ IF in_flight # None THEN Disorder("stolen") ELSE UNCHANGED disorder

(***************************************************************************)
(* The reader: status reports                                              *)
(***************************************************************************)
\* Only Alarm carries an error code, in some firmware; it replaces the error
parse_status_part(s, code) ==
    [s EXCEPT !.status = IF device.alarm THEN "Alarm" ELSE IF device.jogging THEN "Jog" ELSE "Idle",
              !.error = IF device.alarm /\ code THEN (IF @ \in {"first", "later"} THEN "later" ELSE "alarm") ELSE @]

\* what the report says of a position, as it is stored
Read(inch) == LET v == Raw(inch, device.inches) IN IF session = "smoothie" THEN v ELSE InMm(v)

\* Ghost: what is in mm after a report that has the attributes found: what it says, if the unit is
\* known now, and what follows from two values in mm.  A report without WCO leaves the offset as it
\* was read, however long ago, unless it has both positions.
Fresh(s, found) ==
    LET known == synced /\ Undisturbed
        offset == IF "WCO" \in found \/ {"MPos", "WPos"} \subseteq found THEN known ELSE "WCO" \in s.fresh
        first == IF "MPos" \in found THEN "MPos" ELSE "WPos"
    IN {a \in Attributes : CASE a = "WCO" -> offset
                             [] a # "WCO" /\ {"MPos", "WPos"} \cap found = {} -> a \in s.fresh
                             [] a = first /\ first \in found -> known
                             [] OTHER -> known /\ offset}

infer_wco(s, found) ==
    IF {"MPos", "WPos"} \subseteq found /\ "WCO" \notin found THEN [s EXCEPT !.wco = s.machine_pos - s.work_pos] ELSE s

\* "the GRBL equations": the machine position decides, if the report has it
recalculate_positions(s, found) ==
    IF "MPos" \in found THEN [s EXCEPT !.work_pos = s.machine_pos - s.wco]
    ELSE IF "WPos" \in found THEN [s EXCEPT !.machine_pos = s.work_pos + s.wco]
    ELSE s

parse_state(code, found) ==
    LET read == [parse_status_part(state, code) EXCEPT
                    !.machine_pos = IF "MPos" \in found THEN Read(MachineInch) ELSE @,
                    !.work_pos = IF "WPos" \in found THEN Read(MachineInch - OffsetInch) ELSE @,
                    !.wco = IF "WCO" \in found THEN Read(OffsetInch) ELSE @,
                    !.fresh = Fresh(state, found)]
    IN recalculate_positions(infer_wco(read, found), found)

handle_status_report(code, found) ==
    /\ session # "marlin" /\ open /\ wire = <<>> /\ report = None
    /\ code => "code" \in Faults /\ device.alarm
    /\ report' = parse_state(code, found)
    /\ UNCHANGED <<session, taskVars, state, report_in_inches, offsets, in_flight, deviceVars, calls, faults, synced, disorder>>

\* the state as it was read replaces the state as it is
StoreReport ==
    /\ report # None
    /\ state' = report /\ report' = None
    /\ UNCHANGED <<session, taskVars, report_in_inches, offsets, in_flight, deviceVars, calls, faults, synced, disorder>>

\* Marlin's M114: one critical section
handle_position_report ==
    /\ session = "marlin" /\ open /\ wire = <<>> /\ report = None
    /\ state' = [state EXCEPT !.machine_pos = MachineInch * MmPerInch, !.work_pos = MachineInch * MmPerInch, !.fresh = {},
                              !.status = IF @ = "Unknown" THEN "Idle" ELSE @]
    /\ UNCHANGED <<session, taskVars, report_in_inches, offsets, in_flight, report, deviceVars, calls, faults, synced, disorder>>

(***************************************************************************)
(* cancel(), the link and the device                                       *)
(***************************************************************************)
\* The GRBL session finishes the queued commands that are not sent yet, the others the one in
\* flight.  The device stops; what it has not sent yet may be lost.
cancel ==
    /\ open /\ Fault("cancel") /\ Disorder("cancel")
    /\ IF session = "grbl"
       THEN \E S \in SUBSET {t \in Tasks : pc[t] = "next" /\ Head(todo[t]) \notin Interactive \cup {"wait_for_idle"}} :
              /\ pc' = [t \in Tasks |-> IF t \in S THEN "answered" ELSE pc[t]]
              /\ lines' = [t \in Tasks |-> IF t \in S THEN NoLines ELSE lines[t]]
       ELSE Finish(NoLines)
    /\ wire' \in {wire, <<>>}
    /\ device' = [device EXCEPT !.jogging = FALSE, !.alarm = @ \/ (session \in Inches /\ device.jogging)]
    /\ UNCHANGED <<session, op, todo, sessionVars, open, calls, synced>>

LinkLost ==
    /\ open /\ Fault("link") /\ Disorder("link")
    /\ open' = FALSE /\ wire' = <<>>
    /\ UNCHANGED <<session, taskVars, sessionVars, device, calls, synced>>

LinkBack ==
    /\ ~open /\ open' = TRUE
    /\ UNCHANGED <<session, taskVars, sessionVars, wire, device, calls, faults, synced, disorder>>

\* a limit switch: the device stops and says so
DeviceAlarm ==
    /\ session # "marlin" /\ open /\ ~device.alarm /\ Fault("alarm") /\ Disorder("alarm")
    /\ device' = [device EXCEPT !.alarm = TRUE, !.jogging = FALSE]
    /\ wire' = Append(wire, Plain("ALARM"))
    /\ UNCHANGED <<session, taskVars, sessionVars, open, calls, synced>>

JogEnds ==
    /\ device.jogging /\ device' = [device EXCEPT !.jogging = FALSE]
    /\ UNCHANGED <<session, taskVars, sessionVars, wire, open, calls, faults, synced, disorder>>

Task(t) == wait_for_idle(t) \/ Execute(t) \/ Refused(t) \/ Timeout(t) \/ Failed(t) \/ Resume(t)
Report == \E code \in BOOLEAN, found \in Reports : handle_status_report(code, found)
Reader == handle_ok \/ handle_error \/ handle_alarm \/ Report \/ StoreReport \/ handle_position_report

Next ==
    \/ \E t \in Tasks, o \in Operations : Call(t, o)
    \/ \E t \in Tasks : Task(t)
    \/ Reader \/ cancel \/ LinkLost \/ LinkBack \/ DeviceAlarm \/ JogEnds

Spec == Init /\ [][Next]_vars

-----------------------------------------------------------------------------
Quiet == \A t \in Tasks : pc[t] = "idle"

Labels == {"idle", "next", "wait", "answered", "failed"}
CommandNames == Gcode \cup Interactive \cup {"home", "clear_alarm", "set_unit", "wait_for_idle"}
AnswerSet == [text : {"none", "ok", "error", "ALARM"}, data : Interactive \cup {"none"}, inches : BOOLEAN]
States == [status : {"Unknown", "Idle", "Jog", "Alarm"}, error : {None, "first", "alarm", "later", "stale"},
           machine_pos : Int \cup {None}, wco : Int, work_pos : Int \cup {None}, fresh : SUBSET Attributes]

Offsets == [value : Int \cup {None}, fresh : BOOLEAN]
Devices == [alarm : BOOLEAN, inches : BOOLEAN, wcs : {"active", "temp"}, jogging : BOOLEAN]

FlagsOK == report_in_inches \in BOOLEAN /\ open \in BOOLEAN /\ synced \in BOOLEAN
PlacesOK ==
    /\ session \in Sessions
    /\ state \in States /\ report \in States \cup {None}
    /\ offsets \in Offsets
    /\ pc \in [Tasks -> Labels] /\ op \in [Tasks -> Operations \cup {"none"}]
    /\ todo \in [Tasks -> Seq(CommandNames)] /\ lines \in [Tasks -> AnswerSet]
    /\ in_flight \in Tasks \cup {None} /\ wire \in Seq(AnswerSet)
    /\ device \in Devices
    /\ calls \in Nat /\ faults \in Nat

\* Every variable keeps its type.
TypeOK == FlagsOK /\ PlacesOK

\* home() "toggles to another WCS and back": when no operation is under way the device stands in
\* its active coordinate system again, however the operations of several tasks were interleaved,
\* unless a command was rejected or failed in between.
HomeRestoresWcs ==
    Quiet /\ disorder \cap {"rejected", "timeout", "failed", "dropped", "cancel"} = {} => device.wcs = "active"

\* What is marked as read with the unit known: the report or the answer was read after
\* read_settings had learnt the unit, and before the unit was changed again, or it follows from two
\* such values.
MarkedInMm(s) ==
    /\ "MPos" \in s.fresh => s.machine_pos = MachineInch * MmPerInch
    /\ "WPos" \in s.fresh => s.work_pos = (MachineInch - OffsetInch) * MmPerInch
    /\ "WCO" \in s.fresh => s.wco = OffsetInch * MmPerInch

\* The positions and offsets so marked are in mm, whichever attributes the reports have, whatever the
\* flag was before and whenever the report came, as long as operations do not overlap, none is given
\* up and no ALARM is taken for an answer (the answer itself then finishes the next command, and after
\* two ALARMs read_settings gets the settings from before the change): rejected commands, other
\* ALARMs and lost links do no harm.  A position that parse_state computes from an offset stored
\* before the unit was known is not marked: see DerivedInMm.
PositionsInMm ==
    /\ MarkedInMm(state)
    /\ offsets.fresh => offsets.value = OffsetInch * MmPerInch

(***************************************************************************)
(* What the documentation or a comment says and the code does not do       *)
(***************************************************************************)
\* tests/test_grbl_session.py:381, "The report arrived in inches; the driver reports mm", for
\* both positions: the one that the report does not have is computed from an offset that was
\* stored before the unit was known.  (Until an offset is read it is 0.)
DerivedInMm ==
    state.fresh \cap {"MPos", "WPos"} # {} =>
        {state.machine_pos, state.work_pos} \subseteq {MachineInch * MmPerInch, (MachineInch - OffsetInch) * MmPerInch}

\* set_focus_power: "`None` waits for pending jogs to finish and turns the laser off"
LaserOffAfterJog ==
    [][\A t \in Tasks : session = "grbl" /\ op[t] = "set_focus_power_off" /\ pc[t] = "next" /\ pc'[t] = "wait"
          => ~device.jogging]_vars

\* handle_error: "First error wins: the root-cause failure must not be overwritten by secondary
\* errors"; a report with an alarm code overwrites it.
RootCauseKept == state.error # "later"

\* home and clear_alarm clear the error; a report that was parsed before is stored after.
ClearedForGood == state.error # "stale"
=============================================================================
