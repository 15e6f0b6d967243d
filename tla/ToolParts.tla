----------------------------- MODULE ToolParts -----------------------------
(* What a message promises to those who read it about its tool calls: each  *)
(* has one life, which ends before the message does, and nothing moves      *)
(* after that.                                                              *)
CONSTANT Calls

VARIABLES
  part,    \* of each call: how its part is marked
  closed   \* the message is completed

Init == part = [c \in Calls |-> "absent"] /\ closed = FALSE

Lives == {<<"absent", "pending">>, <<"absent", "running">>, <<"pending", "running">>,
          <<"running", "completed">>, <<"running", "error">>,
          <<"pending", "aborted">>, <<"running", "aborted">>}

Move(c) ==
  /\ ~closed /\ UNCHANGED closed
  /\ \E l \in Lives : part[c] = l[1] /\ part' = [part EXCEPT ![c] = l[2]]

Close ==
  /\ \A c \in Calls : part[c] \notin {"pending", "running"}
  /\ closed' = TRUE /\ UNCHANGED part

Next == Close \/ \E c \in Calls : Move(c)

Spec == Init /\ [][Next]_<<part, closed>>
=============================================================================
