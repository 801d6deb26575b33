--------------------------- MODULE MCGrblRequests ---------------------------
(* Instances of GrblRequests for TLC. *)
EXTENDS GrblRequests
CONSTANTS p, q, i
OneQueued == {p}
TwoQueued == {p, q}
OneInteractive == {i}
NoInteractive == {}
NoFault == {}
AllFaults == {"timeout", "link", "abort"}
=============================================================================
