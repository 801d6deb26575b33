--------------------------- MODULE SingleCommand ---------------------------
(***************************************************************************)
(* What every session promises of its single commands: a call asks, its    *)
(* command is written, the device's answer to this very command finishes   *)
(* it, and the call returns.  Calls that share a lane have one command     *)
(* with the device at a time.  A call may give up before its command is    *)
(* written, and not afterwards.                                            *)
(*                                                                         *)
(* The promise ends when something happens after which answers can no      *)
(* longer be matched with commands (a timeout, a cancel(), a reconnect):   *)
(* then the session is not trusted any more, and nothing is said of it.    *)
(*                                                                         *)
(* PingPong, MarlinExchange and GrblRequests implement this module.        *)
(***************************************************************************)
CONSTANTS Callers,    \* the tasks or calls that send commands
          Lanes       \* sets of callers that take turns

VARIABLES phase,      \* each caller: "idle", "asked", "written" or "answered"
          trusted     \* answers can be matched with commands

vars == <<phase, trusted>>

Init == phase = [c \in Callers |-> "idle"] /\ trusted = TRUE

Move(c, from, to) ==
    /\ trusted /\ UNCHANGED trusted
    /\ phase[c] = from /\ phase' = [phase EXCEPT ![c] = to]

Ask(c) == Move(c, "idle", "asked")
GiveUp(c) == Move(c, "asked", "idle")
Write(c) ==
    /\ \A lane \in Lanes : c \in lane => \A d \in lane : phase[d] # "written"
    /\ Move(c, "asked", "written")
Answer(c) == Move(c, "written", "answered")
Return(c) == Move(c, "answered", "idle")

\* what is under way is forgotten
Distrust == trusted' = FALSE /\ phase' = [c \in Callers |-> "idle"]

Next ==
    \/ \E c \in Callers : Ask(c) \/ GiveUp(c) \/ Write(c) \/ Answer(c) \/ Return(c)
    \/ Distrust

Spec == Init /\ [][Next]_vars
=============================================================================
