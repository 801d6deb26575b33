----------------------------- MODULE MCGrblJob -----------------------------
(* Instances of GrblJob for TLC. *)
EXTENDS GrblJob
CONSTANTS k1, k2,      \* run() calls
          u1, u2,      \* cancel() calls
          h            \* a call beside the job

OneRun == {k1}
TwoRuns == {k1, k2}
OneUser == {u1}
OneCall == {h}
NoCall == {}
NoFault == {}
All == {"error", "alarm", "stall", "link"}
=============================================================================
