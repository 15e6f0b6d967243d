------------------------------ MODULE MCPending ------------------------------
(* Three requests, two sessions, two patterns, two replies.                 *)
EXTENDS Pending, TLC

In(k, s, ps, as, d) ==
  [kind |-> k, session |-> s, patterns |-> ps, always |-> as,
   rule |-> [p \in Patterns |-> IF p \in d THEN "deny" ELSE "ask"]]

CONSTANTS s1, s2, p1, p2

(* Permissions of one session for one pattern and for both, either of which *)
(* gives one of the two for always; of the other session, one that its own  *)
(* rules allow in part and one that they deny; and a question.              *)
MCInputs ==
  { In("permission", s1, {p1}, {p1}, {}),
    In("permission", s1, {p1, p2}, {p2}, {}),
    [In("permission", s2, {p1, p2}, {p1, p2}, {}) EXCEPT !.rule[p1] = "allow"],
    In("permission", s2, {p2}, {}, {p2}),
    In("question", s1, {}, {}, {}) }
=============================================================================
