---------------------------- MODULE MCBuildPlan ----------------------------
(* Two steps over two files: the first writes both, the second one of them. *)
EXTENDS BuildPlan

CONSTANTS f1, f2, check1, check2

MCFiles    == {f1, f2}
MCTargets  == <<{f1, f2}, {f1}>>
MCChecks   == {check1, check2}
(* Descriptions whose first forty characters differ.                        *)
Distinct   == <<check1, check2>>
BothSteps  == {1, 2}
=============================================================================
