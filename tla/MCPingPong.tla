----------------------------- MODULE MCPingPong -----------------------------
(* Instances of PingPong for TLC. *)
EXTENDS PingPong
CONSTANTS a, b, j, x
OneCaller == {a}
TwoCallers == {a, b}
NoCancel == {}
OneCancel == {x}
NoFault == {}
OnlyTimeout == {"timeout"}
OnlyError == {"error"}
AllFaults == {"timeout", "error", "alarm", "link"}
=============================================================================
