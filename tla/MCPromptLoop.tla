--------------------------- MODULE MCPromptLoop ---------------------------
(* A prompt that starts the loop, another one that may join or be late, and *)
(* the result of a background task.  The two prompts are alike.             *)
EXTENDS PromptLoop, TLC
CONSTANTS p1, p2, r1
Alike == Permutations({p1, p2})
=============================================================================
