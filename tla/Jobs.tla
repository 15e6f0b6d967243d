-------------------------------- MODULE Jobs --------------------------------
(***************************************************************************)
(* Tasks in the background: packages/engine/src/background/job.ts, the task *)
(* tool that starts them (tool/task.ts) and the cancellation of a session   *)
(* that stops them (session/run-state.ts).                                  *)
(*                                                                          *)
(* A job bears the identifier of the session that does its work, and may be *)
(* started again under it when it has ended.  Its fiber only waits for that *)
(* session's loop, which is the runner's (RunState).  A cancellation lists  *)
(* the jobs once, stops those that it finds to belong to its session, by    *)
(* their parents, in parallel batches, and then stops the session's loop.   *)
(* Everything here addresses a job by its identifier, never by its          *)
(* generation.                                                              *)
(***************************************************************************)
EXTENDS Naturals

CONSTANTS
  Sessions,   \* with one that the user talks to:
  Root,
  Prompted,   \* the sessions that somebody prompts
  Cancelled,  \* and that somebody cancels
  Parent,     \* the session that starts the task of each of the others
  Cancels,    \* how many cancellations of sessions
  MaxStarts,  \* how often each task may be started
  MaxDrops,   \* how many cancellations are interrupted themselves
  None

Tasks       == Sessions \ {Root}
Generations == UNION {1 .. MaxStarts[c] : c \in Tasks}
Stops       == 1 .. Cancels

ASSUME JobsAssumption ==
  /\ Root \in Sessions /\ Prompted \cup Cancelled \subseteq Sessions /\ Parent \in [Tasks -> Sessions]
  /\ MaxStarts \in [Tasks -> Nat] /\ Cancels \in Nat /\ MaxDrops \in Nat
  /\ None \notin Sessions \cup {"completed", "cancelled"}

VARIABLES
  loop,     \* what each session's loop runs for: a task, anything else
  status,   \* of each task's entry in the table of jobs
  gen,      \* its generation, 0 if there is no entry
  fiber,    \* of each generation of each task
  told,     \* and its Deferred: what those who wait for it have been told
  condemned,\* its fiber has been interrupted
  stop,     \* where each cancellation is, of which session, the running jobs
            \* it has listed, the sessions it knows to be concerned
  hunt,     \* what each cancellation does about each task, and with which
            \* generation's fiber
  drops,
  overtaken \* a task was started while a cancellation waited for its fiber

table == <<status, gen, told>>
vars  == <<loop, table, fiber, condemned, stop, hunt, drops, overtaken>>

NoHunt == [step |-> "none", gen |-> 0]
NoStop == [step |-> "new", of |-> None, listed |-> {}, known |-> {}]

Init ==
  /\ loop = [s \in Sessions |-> "idle"]
  /\ status = [c \in Tasks |-> "none"] /\ gen = [c \in Tasks |-> 0]
  /\ fiber = [c \in Tasks |-> [g \in Generations |-> "none"]]
  /\ told = [c \in Tasks |-> [g \in Generations |-> None]]
  /\ condemned = [c \in Tasks |-> [g \in Generations |-> FALSE]]
  /\ stop = [k \in Stops |-> NoStop]
  /\ hunt = [k \in Stops |-> [c \in Tasks |-> NoHunt]]
  /\ drops = 0 /\ overtaken = FALSE

-----------------------------------------------------------------------------
(* Loops, as far as jobs see them.                                          *)

(* The user prompts a session, or it is resumed with the result of a task. *)
Prompt(s) ==
  /\ s \in Prompted /\ loop[s] = "idle" /\ loop' = [loop EXCEPT ![s] = "prompt"]
  /\ UNCHANGED <<table, fiber, condemned, stop, hunt, drops, overtaken>>

(* A job waits for the loop of its session. *)
Idle(s) ==
  /\ loop' = [loop EXCEPT ![s] = "idle"]
  /\ fiber' = [c \in Tasks |-> [g \in Generations |->
                  IF c = s /\ fiber[c][g] = "runs" THEN "ends" ELSE fiber[c][g]]]

LoopEnds(s) ==
  /\ loop[s] # "idle" /\ Idle(s)
  /\ UNCHANGED <<table, condemned, stop, hunt, drops, overtaken>>

-----------------------------------------------------------------------------
(* The table of jobs.                                                       *)

(* A cancellation waits for the task's fiber. *)
Hunts(k, c) == stop[k].step = "hunts" /\ hunt[k][c].step = "wait"

(* Mutant of Start: a running job is replaced. *)
StartAnyway(c) ==
  /\ loop[Parent[c]] # "idle" /\ gen[c] < MaxStarts[c]
  /\ gen' = [gen EXCEPT ![c] = @ + 1] /\ status' = [status EXCEPT ![c] = "running"]
  /\ fiber' = [fiber EXCEPT ![c][gen[c] + 1] = "runs"]
  /\ loop' = IF loop[c] = "idle" THEN [loop EXCEPT ![c] = "task"] ELSE loop
  /\ overtaken' = (overtaken \/ \E k \in Stops : Hunts(k, c))
  /\ UNCHANGED <<told, condemned, stop, hunt, drops>>

(* The task tool, called by the parent's loop. *)
Start(c) ==
  /\ loop[Parent[c]] # "idle" /\ status[c] # "running" /\ gen[c] < MaxStarts[c]
  /\ gen' = [gen EXCEPT ![c] = @ + 1] /\ status' = [status EXCEPT ![c] = "running"]
  /\ fiber' = [fiber EXCEPT ![c][gen[c] + 1] = "runs"]
  /\ loop' = IF loop[c] = "idle" THEN [loop EXCEPT ![c] = "task"] ELSE loop
  /\ overtaken' = (overtaken \/ \E k \in Stops : Hunts(k, c))
  /\ UNCHANGED <<told, condemned, stop, hunt, drops>>

(* Mutant of Finish: those who wait are not told. *)
FinishQuietly(c, how) ==
  /\ status' = [status EXCEPT ![c] = IF @ = "running" THEN how ELSE @]
  /\ UNCHANGED <<gen, told>>

(* Whatever generation runs has ended. *)
Finish(c, how) ==
  IF status[c] = "running"
    THEN /\ status' = [status EXCEPT ![c] = how]
         /\ told' = [told EXCEPT ![c][gen[c]] = how]
         /\ UNCHANGED gen
    ELSE UNCHANGED table

(* The loop has ended, and the parent has been told of its result.  (That a *)
(* job fails is an end like its completion.)                                *)
End(c, g) ==
  /\ fiber[c][g] = "ends"
  /\ fiber' = [fiber EXCEPT ![c][g] = "completed"] /\ Finish(c, "completed")
  /\ UNCHANGED <<loop, condemned, stop, hunt, drops, overtaken>>

(* An interrupted fiber may still get to say so.                            *)
Perish(c, g) ==
  /\ condemned[c][g] /\ fiber[c][g] \in {"runs", "ends"}
  /\ fiber' = [fiber EXCEPT ![c][g] = "cancelled"]
  /\ Finish(c, "cancelled") \/ UNCHANGED table
  /\ UNCHANGED <<loop, condemned, stop, hunt, drops, overtaken>>

-----------------------------------------------------------------------------
(* The cancellation of a session.                                           *)

(* Mutant of Concerned: only the session's own tasks, not their tasks. *)
ConcernedDirectly(listed, known, s) == {c \in listed : c = s \/ Parent[c] = s}

Concerned(listed, known, s) == {c \in listed : c \in known \/ Parent[c] \in known}

Hunting(k, cs) ==
  hunt' = [hunt EXCEPT ![k] = [c \in Tasks |->
             IF c \in cs /\ @[c].step # "done" THEN [step |-> "look", gen |-> 0] ELSE @[c]]]

CancelSession(k, s) ==
  LET listed == {c \in Tasks : status[c] = "running"}
  IN  /\ \A j \in Stops : stop[j].step = "new" <=> j >= k
      /\ stop' = [stop EXCEPT ![k] = [step |-> "hunts", of |-> s, known |-> {s},
                                      listed |-> {<<c, gen[c]>> : c \in listed}]]
      /\ Hunting(k, Concerned(listed, {s}, s))
      /\ UNCHANGED <<loop, table, fiber, condemned, drops, overtaken>>

Known(k, c) == stop' = [stop EXCEPT ![k].known = @ \cup {c}]

(* cancel of a job: it is looked up anew; if it runs, its fiber is          *)
(* interrupted, ...                                                         *)
Look(k, c) ==
  /\ stop[k].step = "hunts" /\ hunt[k][c].step = "look"
  /\ IF status[c] = "running"
       THEN /\ hunt' = [hunt EXCEPT ![k][c] = [step |-> "wait", gen |-> gen[c]]]
            /\ condemned' = [condemned EXCEPT ![c][gen[c]] = TRUE]
            /\ UNCHANGED stop
       ELSE /\ hunt' = [hunt EXCEPT ![k][c].step = "done"]
            /\ Known(k, c) /\ UNCHANGED condemned
  /\ UNCHANGED <<loop, table, fiber, drops, overtaken>>

Over(c, g) == fiber[c][g] \notin {"none", "runs", "ends"}

(* Mutant of Awaited: the fiber's own end is relied on. *)
AwaitedOnly(k, c) ==
  /\ stop[k].step = "hunts" /\ hunt[k][c].step = "wait" /\ Over(c, hunt[k][c].gen)
  /\ hunt' = [hunt EXCEPT ![k][c].step = "done"] /\ Known(k, c)
  /\ UNCHANGED <<loop, table, fiber, condemned, drops, overtaken>>

(* ... and when that is over, the job is ended.                             *)
Awaited(k, c) ==
  /\ stop[k].step = "hunts" /\ hunt[k][c].step = "wait" /\ Over(c, hunt[k][c].gen)
  /\ Finish(c, "cancelled")
  /\ hunt' = [hunt EXCEPT ![k][c].step = "done"] /\ Known(k, c)
  /\ UNCHANGED <<loop, fiber, condemned, drops, overtaken>>

(* The jobs listed that are not cancelled yet and concern it now. *)
Batch(k) ==
  {c \in Concerned({x[1] : x \in stop[k].listed}, stop[k].known, stop[k].of) :
     hunt[k][c].step = "none"}

NextBatch(k) ==
  /\ stop[k].step = "hunts" /\ \A c \in Tasks : hunt[k][c].step \notin {"look", "wait"}
  /\ Batch(k) # {} /\ Hunting(k, Batch(k))
  /\ UNCHANGED <<loop, table, fiber, condemned, stop, drops, overtaken>>

StopLoop(k) ==
  /\ stop[k].step = "hunts" /\ \A c \in Tasks : hunt[k][c].step \notin {"look", "wait"}
  /\ Batch(k) = {}
  /\ stop' = [stop EXCEPT ![k] = [NoStop EXCEPT !.step = "done"]]
  /\ hunt' = [hunt EXCEPT ![k] = [c \in Tasks |-> NoHunt]]
  /\ Idle(stop[k].of)
  /\ UNCHANGED <<table, condemned, drops, overtaken>>

(* Who cancels is interrupted. *)
Drop(k) ==
  /\ stop[k].step = "hunts" /\ drops < MaxDrops /\ drops' = drops + 1
  /\ stop' = [stop EXCEPT ![k] = [NoStop EXCEPT !.step = "dropped"]]
  /\ UNCHANGED <<loop, table, fiber, condemned, hunt, overtaken>>

Hunt(k) == NextBatch(k) \/ StopLoop(k) \/ \E c \in Tasks : Look(k, c) \/ Awaited(k, c)

Next ==
  \/ \E s \in Sessions : Prompt(s) \/ LoopEnds(s)
  \/ \E c \in Tasks : \/ Start(c)
                      \/ \E g \in Generations : End(c, g) \/ Perish(c, g)
  \/ \E k \in Stops : Hunt(k) \/ Drop(k) \/ \E s \in Cancelled : CancelSession(k, s)

Spec == Init /\ [][Next]_vars

(* Interrupted fibers end, and cancellations go on.  (Each has finitely     *)
(* much to do, so that it does not matter in which order.)                  *)
FairSpec ==
  /\ Spec
  /\ WF_vars(\E k \in Stops : Hunt(k))
  /\ WF_vars(\E c \in Tasks, g \in Generations : Perish(c, g))

-----------------------------------------------------------------------------
TypeOK ==
  /\ loop \in [Sessions -> {"idle", "prompt", "task"}]
  /\ status \in [Tasks -> {"none", "running", "completed", "cancelled"}]
  /\ gen \in [Tasks -> Nat] /\ \A c \in Tasks : gen[c] <= MaxStarts[c]
  /\ fiber \in [Tasks -> [Generations ->
                 {"none", "runs", "ends", "completed", "cancelled"}]]
  /\ told \in [Tasks -> [Generations -> {None, "completed", "cancelled"}]]
  /\ condemned \in [Tasks -> [Generations -> BOOLEAN]]
  /\ stop \in [Stops -> [step : {"new", "hunts", "done", "dropped"}, of : Sessions \cup {None},
                         listed : SUBSET (Tasks \X Generations), known : SUBSET Sessions]]
  /\ hunt \in [Stops -> [Tasks -> [step : {"none", "look", "wait", "done"},
                                   gen : Generations \cup {0}]]]
  /\ drops \in 0 .. MaxDrops /\ overtaken \in BOOLEAN
  /\ \A c \in Tasks, g \in Generations :
       /\ fiber[c][g] = "none" <=> g > gen[c]
       /\ g = gen[c] => (told[c][g] = None <=> status[c] = "running")

(* A job that is called running runs, or somebody waits for its fiber to    *)
(* end it then, unless he was interrupted: it does not block its identifier *)
(* for good.                                                                *)
RunningJobsRun ==
  \A c \in Tasks : status[c] = "running" =>
    \/ ~Over(c, gen[c])
    \/ \E k \in Stops : hunt[k][c].step = "wait" /\ stop[k].step \in {"hunts", "dropped"}

(* A job ends as its own fiber does, and no other generation's fiber is     *)
(* left, as long as none is started while a cancellation still waits for    *)
(* the fiber of an earlier one.                                             *)
EndsAreTheirOwn ==
  ~overtaken => \A c \in Tasks, g \in Generations :
    /\ g < gen[c] => Over(c, g)
    /\ told[c][g] # None => Over(c, g)
    /\ told[c][g] = "completed" => fiber[c][g] = "completed"

(* A listed job to which a chain of listed jobs leads down from the session: *)
(* it is in every set that holds the session and, with the parent of a      *)
(* listed job, that job.                                                    *)
Reached(k, c) ==
  LET ids == {x[1] : x \in stop[k].listed}
  IN  \A closed \in SUBSET Sessions :
        stop[k].of \in closed /\ (\A d \in ids : Parent[d] \in closed => d \in closed)
          => c \in closed

(* When a cancellation is over, every job that ran when it began, and that  *)
(* the session had started itself or through other running jobs, has ended. *)
ListedJobsEnd ==
  [][\A k \in Stops : stop[k].step = "hunts" /\ stop'[k].step = "done" =>
       \A x \in stop[k].listed : Reached(k, x[1]) => told[x[1]][x[2]] # None]_vars

(* Who waits for a job that is being cancelled is told, unless the          *)
(* cancellation is interrupted.                                             *)
CancelledAreTold ==
  \A c \in Tasks : \A g \in 1 .. MaxStarts[c] :
    condemned[c][g] ~> told[c][g] # None \/ drops > 0
=============================================================================
