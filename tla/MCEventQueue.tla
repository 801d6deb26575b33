---------------------------- MODULE MCEventQueue ----------------------------
(* Instances of EventQueue for TLC. *)
EXTENDS EventQueue
CONSTANTS t1, t2, l1, l2, c1, c2
OneThread == {t1}
TwoThreads == {t1, t2}
OneLoop == {l1}
TwoLoops == {l1, l2}
OneCallback == {c1}
TwoCallbacks == {c1, c2}
=============================================================================
