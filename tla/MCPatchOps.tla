---------------------------- MODULE MCPatchOps ----------------------------
(* A file of three lines; bodies that are empty, new, longer than what they *)
(* replace, or that begin with the second line of the file.                 *)
EXTENDS PatchOps

MCOriginal == <<"l1", "l2", "l3">>
MCBodies   == {<<>>, <<"x", "y">>, <<"l2", "z">>}
MCTexts    == {"l1", "l2", "l3", "x", "y", "z"}
=============================================================================
