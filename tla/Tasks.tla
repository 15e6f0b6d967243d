-------------------------------- MODULE Tasks --------------------------------
(***************************************************************************)
(* Prompts of an editor's sessions (packages/acp/src/agent.ts), each a task *)
(* of the orchestrator (packages/agent/src/orchestrator.ts), in one process *)
(* with one working directory, one tracker of written files                 *)
(* (packages/agent/src/changes.ts) and one file of working memory           *)
(* (packages/agent/src/working-memory.ts).                                  *)
(*                                                                          *)
(* A session has one prompt at a time; prompts of different sessions run    *)
(* side by side, and a step here is a section between two awaits.  What a   *)
(* plan writes and records is BuildPlan's ChangesAreReported: here a plan   *)
(* is any writes, each followed by its record, and may fail at any point.   *)
(***************************************************************************)
EXTENDS Naturals, FiniteSets

CONSTANTS
  Sessions, Dirs,
  Home,      \* the directory of each session
  Start,     \* the directory the process was started in
  Files,     \* what a task may write, by their names in a directory
  Calls,     \* how many prompts
  Cancelling,\* the sessions that are cancelled at some time
  None

Prompts == 1 .. Calls

ASSUME TasksAssumption ==
  /\ Start \in Dirs /\ Home \in [Sessions -> Dirs] /\ Calls \in Nat
  /\ None \notin Prompts \cup Dirs \cup Sessions \cup Files

VARIABLES
  cwd,       \* the process's working directory
  prepared,  \* there is a .monkeydcode in Start
  tracker,   \* the paths that Changes has
  cancelled, \* sessions that have been cancelled
  of,        \* the session of each prompt
  step,      \* where it is
  back,      \* the directory it returns to
  base,      \* the root its sub-agent has taken, None before
  path,      \* the one just written, None if it has been recorded
  wrote,     \* what the plans of the task's work have written
  changed,   \* what it reports
  answer,    \* what each session has heard of its last prompt
  (* and to say when prompts get into each other's way: *)
  top, under,\* the last one to have entered, and who that was before each
  crossed,   \* one has left before another that had entered after it
  disturbed, \* during whose stay another entered or left
  mixed,     \* during whose work another used the tracker
  strayed    \* who has written outside the session's directory

request == <<cancelled, of, answer>>
place   == <<cwd, back, top, under, crossed, disturbed>>
work    == <<tracker, base, path, wrote, changed, mixed, strayed>>
vars    == <<request, step, place, prepared, work>>

Init ==
  /\ cwd = Start /\ prepared \in BOOLEAN /\ tracker = {} /\ cancelled = {}
  /\ of = [p \in Prompts |-> None] /\ step = [p \in Prompts |-> "new"]
  /\ back = [p \in Prompts |-> None] /\ base = [p \in Prompts |-> None]
  /\ path = [p \in Prompts |-> None] /\ wrote = [p \in Prompts |-> {}]
  /\ changed = [p \in Prompts |-> {}] /\ answer = [s \in Sessions |-> None]
  /\ top = None /\ under = [p \in Prompts |-> None] /\ crossed = FALSE
  /\ disturbed = {} /\ mixed = {} /\ strayed = {}

Within == {"goal", "save", "classify", "work", "verify", "fix", "review", "refix"}
Inside == {p \in Prompts : step[p] \in Within}

Goto(p, from, to) == step[p] = from /\ step' = [step EXCEPT ![p] = to]

-----------------------------------------------------------------------------
(* The editor's requests.                                                   *)

(* session/prompt; the model is looked up, and may not be configured. *)
Prompt(p, s) ==
  /\ \A q \in Prompts : step[q] = "new" <=> q >= p
  /\ \A q \in Prompts : of[q] = s => step[q] = "done"
  /\ of' = [of EXCEPT ![p] = s] /\ answer' = [answer EXCEPT ![s] = None]
  /\ Goto(p, "new", "model")
  /\ UNCHANGED <<cancelled, place, prepared, work>>

Refuse(p) ==
  /\ Goto(p, "model", "done") /\ answer' = [answer EXCEPT ![of[p]] = "refused"]
  /\ UNCHANGED <<cancelled, of, place, prepared, work>>

Cancel(s) ==
  /\ s \in Cancelling \ cancelled /\ cancelled' = cancelled \cup {s}
  /\ UNCHANGED <<of, answer, step, place, prepared, work>>

Enter(p) ==
  /\ Goto(p, "model", "goal")
  /\ back' = [back EXCEPT ![p] = cwd] /\ cwd' = Home[of[p]]
  /\ under' = [under EXCEPT ![p] = top] /\ top' = p
  /\ disturbed' = disturbed \cup Inside
  /\ UNCHANGED <<request, crossed, prepared, work>>

Forget(p) ==
  /\ back' = [back EXCEPT ![p] = None] /\ under' = [under EXCEPT ![p] = None]
  /\ base' = [base EXCEPT ![p] = None] /\ path' = [path EXCEPT ![p] = None]
  /\ wrote' = [wrote EXCEPT ![p] = {}] /\ changed' = [changed EXCEPT ![p] = {}]
  /\ mixed' = mixed \ {p} /\ strayed' = strayed \ {p}
  /\ disturbed' = (disturbed \cup Inside) \ {p}

Answer(p, how) ==
  answer' = [answer EXCEPT ![of[p]] = IF of[p] \in cancelled THEN "cancelled" ELSE how]

Out(p) ==
  IF p = top THEN top' = under[p] /\ UNCHANGED crossed
             ELSE crossed' = TRUE /\ UNCHANGED top

(* Mutant of Leave: a task that fails does not get to change back. *)
LeaveAbroad(p, how) ==
  /\ step' = [step EXCEPT ![p] = "done"]
  /\ cwd' = IF how = "error" THEN cwd ELSE back[p]
  /\ Answer(p, how) /\ Out(p) /\ Forget(p)
  /\ UNCHANGED <<cancelled, of, tracker>>

(* The task is over, in whatever way, and the directory is changed back to  *)
(* what it was.  A session that was ever cancelled hears nothing else.      *)
Leave(p, how) ==
  /\ step' = [step EXCEPT ![p] = "done"]
  /\ cwd' = back[p]
  /\ Answer(p, how) /\ Out(p) /\ Forget(p)
  /\ UNCHANGED <<cancelled, of, tracker>>

-----------------------------------------------------------------------------
(* The orchestrator.                                                        *)

(* The working memory's directory is made where the process is, ... *)
MakeMemory(p) ==
  /\ Goto(p, "goal", "save") /\ prepared' = (prepared \/ cwd = Start)
  /\ UNCHANGED <<request, place, work>>

(* ... and its file written where the process was started.                  *)
SetGoal(p) ==
  /\ IF prepared THEN Goto(p, "save", "classify") /\ UNCHANGED <<request, place, work>>
                 ELSE step[p] = "save" /\ Leave(p, "error")
  /\ UNCHANGED prepared

Chat(p) ==
  /\ step[p] = "classify" /\ Leave(p, "reply")
  /\ UNCHANGED prepared

Working == {p \in Prompts : step[p] = "work"}
Mixed(p) == mixed' = mixed \cup (Working \ {p})

(* Mutant of Begin: the tracker is not reset. *)
BeginDirty(p) ==
  /\ Goto(p, "classify", "work")
  /\ Mixed(p)
  /\ UNCHANGED <<request, place, prepared, tracker, base, path, wrote, changed, strayed>>

Begin(p) ==
  /\ Goto(p, "classify", "work")
  /\ tracker' = {} /\ Mixed(p)
  /\ UNCHANGED <<request, place, prepared, base, path, wrote, changed, strayed>>

(* A sub-agent takes the working directory for the root of its paths.       *)
Root(p) ==
  /\ step[p] = "work" /\ base[p] = None /\ base' = [base EXCEPT ![p] = cwd]
  /\ UNCHANGED <<request, step, place, prepared, tracker, path, wrote, changed, mixed, strayed>>

Strays(p, d) ==
  strayed' = IF d = Home[of[p]] THEN strayed ELSE strayed \cup {p}

(* A file is written, in the working directory if its path is relative, ... *)
Write(p, f) ==
  /\ step[p] \in {"work", "fix", "refix"} /\ path[p] = None
  /\ path' = [path EXCEPT ![p] = f]
  /\ wrote' = [wrote EXCEPT ![p] = IF step[p] = "work" THEN @ \cup {f} ELSE @]
  /\ \/ Strays(p, cwd)
     \/ base[p] # None /\ Strays(p, base[p])
  /\ UNCHANGED <<request, step, place, prepared, tracker, base, changed, mixed>>

(* ... and then recorded. *)
Record(p) ==
  /\ path[p] # None
  /\ tracker' = tracker \cup {path[p]} /\ path' = [path EXCEPT ![p] = None]
  /\ Mixed(p)
  /\ UNCHANGED <<request, step, place, prepared, base, wrote, changed, strayed>>

(* The test by which a bug is reproduced is written and not recorded.       *)
Reproduce(p) ==
  /\ step[p] = "work" /\ base[p] # None /\ Strays(p, base[p])
  /\ UNCHANGED <<request, step, place, prepared, tracker, base, path, wrote, changed, mixed>>

(* The work is done: what has changed?                                      *)
Take(p) ==
  /\ step[p] = "work" /\ path[p] = None
  /\ IF tracker = {}
       THEN Leave(p, "reply")
       ELSE /\ changed' = [changed EXCEPT ![p] = tracker] /\ tracker' = {} /\ Mixed(p)
            /\ Goto(p, "work", "verify")
            /\ UNCHANGED <<request, place, base, path, wrote, strayed>>
  /\ UNCHANGED prepared

(* Verification, its fixes, the review if there is a diff, its fixes.       *)
Settle(p) ==
  /\ path[p] = None
  /\ \/ Goto(p, "verify", "fix") \/ Goto(p, "verify", "review")
     \/ Goto(p, "fix", "review") \/ Goto(p, "review", "refix")
  /\ UNCHANGED <<request, place, prepared, work>>

Report(p) ==
  /\ step[p] \in {"review", "refix"} /\ path[p] = None /\ Leave(p, "report")
  /\ UNCHANGED prepared

Fail(p) ==
  /\ p \in Inside /\ path[p] = None /\ Leave(p, "error")
  /\ UNCHANGED prepared

Next ==
  \/ \E s \in Sessions : Cancel(s) \/ \E p \in Prompts : Prompt(p, s)
  \/ \E p \in Prompts : \/ Refuse(p) \/ Enter(p)
                        \/ MakeMemory(p) \/ SetGoal(p) \/ Chat(p)
                        \/ Begin(p) \/ Root(p) \/ Reproduce(p)
                        \/ \E f \in Files : Write(p, f)
                        \/ Record(p) \/ Take(p) \/ Settle(p) \/ Report(p) \/ Fail(p)

Spec == Init /\ [][Next]_vars

-----------------------------------------------------------------------------
TypeOK ==
  /\ cwd \in Dirs /\ prepared \in BOOLEAN /\ tracker \subseteq Files
  /\ cancelled \subseteq Sessions
  /\ of \in [Prompts -> Sessions \cup {None}]
  /\ step \in [Prompts -> {"new", "model", "done"} \cup Within]
  /\ back \in [Prompts -> Dirs \cup {None}] /\ base \in [Prompts -> Dirs \cup {None}]
  /\ path \in [Prompts -> Files \cup {None}]
  /\ wrote \in [Prompts -> SUBSET Files] /\ changed \in [Prompts -> SUBSET Files]
  /\ answer \in [Sessions -> {None, "refused", "cancelled", "error", "reply", "report"}]
  /\ top \in Prompts \cup {None} /\ under \in [Prompts -> Prompts \cup {None}]
  /\ crossed \in BOOLEAN
  /\ disturbed \subseteq Prompts /\ mixed \subseteq Prompts /\ strayed \subseteq Prompts
  /\ \A p \in Prompts : /\ of[p] = None <=> step[p] = "new"
                        /\ p \in Inside <=> back[p] # None
                        /\ path[p] # None => step[p] \in {"work", "fix", "refix"}

(* Who works while nobody else enters or leaves writes in his session's     *)
(* directory, whatever became of earlier prompts; and as long as prompts    *)
(* leave in the reverse order in which they entered, the directory is that  *)
(* of the last one, and the old one when all have left.                     *)
DirectoriesAreKept ==
  /\ strayed \subseteq disturbed
  /\ ~crossed => cwd = IF top = None THEN Start ELSE Home[of[top]]

(* During whose work nobody else uses the tracker reports exactly what its  *)
(* plans have written, whatever fixes, failures and other tasks left there. *)
ReportsOwnWork ==
  \A p \in Prompts :
    step[p] \in {"verify", "fix", "review", "refix"} =>
      p \in mixed \/ changed[p] = wrote[p]

(* "this session's work must happen there" *)
WorksInItsDirectory == strayed = {}
=============================================================================
