-------------------------- MODULE MCMarlinExchange --------------------------
(* Instances of MarlinExchange for TLC. *)
EXTENDS MarlinExchange
CONSTANTS a, j
OneCaller == {a}
OneJob == {j}
NoJob == {}
=============================================================================
