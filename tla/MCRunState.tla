----------------------------- MODULE MCRunState -----------------------------
(* Three calls, of either kind, and two cancellations of one session.       *)
EXTENDS RunState

CONSTANTS c1, c2, c3, k1, k2

MCCallers    == {c1, c2, c3}
MCCancellers == {k1, k2}
=============================================================================
