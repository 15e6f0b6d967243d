------------------------------ MODULE Sampling ------------------------------
(***************************************************************************)
(* What a caller of Sampler.sample may rely on.  The caller waits for the   *)
(* call, so it does not see the project in between: what counts is what it  *)
(* gets, and how it finds its files when the call is over.                  *)
(***************************************************************************)
CONSTANTS
  Files,     \* task.files
  Changes,   \* what a model may answer
  Touches,   \* the files a change has a block for
  Contents,  \* what a file may hold, no file included
  Torn,      \* one that a write has emptied and not filled
  None       \* no change

VARIABLES
  start,    \* the files when the call began
  project,  \* the files as the caller finds them
  outcome,  \* "none" yet, "passed", "gave up", "failed" or "crashed"
  change,   \* the change that came back
  passing,  \* what the pipeline passed: a change, and the project it saw
  lost,     \* files whose restore was rejected
  flying    \* files whose restore is under way after the call is over

vars == <<start, project, outcome, change, passing, lost, flying>>

With(c) == [f \in Files |-> IF f \in Touches[c] THEN c ELSE start[f]]

Init ==
  /\ start \in [Files -> Contents] /\ project = start
  /\ outcome = "none" /\ change = None
  /\ passing = {} /\ lost = {} /\ flying = {}

(* The pipeline passes a change on the project with that change alone. *)
Verify(c) ==
  /\ outcome = "none"
  /\ passing' = passing \cup {[change |-> c, on |-> With(c)]}
  /\ UNCHANGED <<start, project, outcome, change, lost, flying>>

(* A change that passed comes back, and the files are as they were. *)
Pass(c) ==
  /\ outcome = "none"
  /\ \E v \in passing : v.change = c
  /\ outcome' = "passed" /\ change' = c
  /\ UNCHANGED <<start, project, passing, lost, flying>>

(* Files the sampler did not restore hold their old content, their part of  *)
(* one and the same change, or what a write left that did not end.          *)
Leave(files) ==
  /\ project' \in [Files -> Contents]
  /\ \A f \in Files \ files : project'[f] = start[f]
  /\ \/ project' = start
     \/ \E c \in Changes : \A f \in files : project'[f] \in {start[f], With(c)[f], Torn}

(* No change passed that could be returned.  A restore is only left in      *)
(* flight when another one was rejected.                                    *)
Stop ==
  /\ outcome = "none"
  /\ \/ outcome' = "gave up" /\ change' \in Changes
     \/ outcome' = "failed" /\ UNCHANGED change
  /\ lost' \subseteq Files /\ flying' \subseteq Files \ lost'
  /\ flying' # {} => lost' # {}
  /\ Leave(lost' \cup flying')
  /\ UNCHANGED <<start, passing>>

(* A restore under way empties the file before it fills it. *)
Open(f) ==
  /\ outcome # "none" /\ f \in flying
  /\ project' = [project EXCEPT ![f] = Torn]
  /\ UNCHANGED <<start, outcome, change, passing, lost, flying>>

Settle(f) ==
  /\ outcome # "none" /\ f \in flying
  /\ flying' = flying \ {f}
  /\ \/ project' = [project EXCEPT ![f] = start[f]] /\ UNCHANGED lost
     \/ lost' = lost \cup {f} /\ UNCHANGED project
  /\ UNCHANGED <<start, outcome, change, passing>>

(* The process dies: any file may be left with its part of one change, or   *)
(* torn.                                                                    *)
Crash ==
  /\ outcome = "none"
  /\ outcome' = "crashed"
  /\ Leave(Files)
  /\ UNCHANGED <<start, change, passing, lost, flying>>

Next ==
  \/ Stop \/ Crash
  \/ \E c \in Changes : Verify(c) \/ Pass(c)
  \/ \E f \in Files : Open(f) \/ Settle(f)

Spec == Init /\ [][Next]_vars
=============================================================================
