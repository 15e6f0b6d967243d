------------------------------- MODULE MCJobs -------------------------------
(* A task of a task.                                                        *)
EXTENDS Jobs
CONSTANTS root, a, b
MCMaxStarts == [c \in {a, b} |-> IF c = a THEN 2 ELSE 1]
MCParent == [c \in {a, b} |-> IF c = a THEN root ELSE a]
=============================================================================
