--------------------------- MODULE MCFlowControl ---------------------------
(* Small instances of FlowControl for TLC. *)
EXTENDS FlowControl, TLC

CONSTANTS g, q, i, u

\* a job's sender, the command queue, an interactive command, the safety shutdown
AllSenders == {g, q, i, u}
AllKinds == g :> "gcode" @@ q :> "command" @@ i :> "interactive" @@ u :> "simple"

\* the same without the interactive command
MixedSenders == {g, q, u}
MixedKind == g :> "gcode" @@ q :> "command" @@ u :> "simple"
=============================================================================
