-------------------------------- MODULE Lock --------------------------------
(* What a lock promises: unless somebody was wrongly taken for dead, it has *)
(* at most one holder.                                                      *)
CONSTANT Callers

VARIABLES
  holders,  \* who holds the lock
  broken    \* somebody's claim has lapsed who may have been alive

Init == holders = {} /\ broken = FALSE

Acquire(c) ==
  /\ c \notin holders
  /\ broken \/ holders = {}
  /\ holders' = holders \cup {c} /\ UNCHANGED broken

(* A release, or the end of the holder's process. *)
Leave(c) == c \in holders /\ holders' = holders \ {c} /\ UNCHANGED broken

Break == broken' = TRUE /\ UNCHANGED holders

Next == Break \/ \E c \in Callers : Acquire(c) \/ Leave(c)

Spec == Init /\ [][Next]_<<holders, broken>>
=============================================================================
