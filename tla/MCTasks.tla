------------------------------- MODULE MCTasks -------------------------------
(* Two sessions, one of them in the directory the process was started in.   *)
EXTENDS Tasks
CONSTANTS s1, s2, d1, d2
MCHome == [s \in {s1, s2} |-> IF s = s1 THEN d1 ELSE d2]
=============================================================================
