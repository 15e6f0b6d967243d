---------------------------- MODULE PromptLoop ----------------------------
(***************************************************************************)
(* The loop of a session and those who want it to run:                      *)
(* packages/engine/src/session/prompt.ts (prompt, runLoop), its view of the *)
(* messages (message-v2.ts, latest and filterCompacted), compaction         *)
(* (compaction.ts) and the results of background tasks (tool/task.ts).      *)
(*                                                                          *)
(* The loop reads the session's messages, decides what to do by their       *)
(* identifiers, and takes one step after another (Processor).  Meanwhile    *)
(* others add messages: a user prompts, a background task puts its result   *)
(* into the session.  An identifier is taken some time before its message   *)
(* is in the log.  The runner (RunState) lets one loop run at a time; who   *)
(* comes while it runs joins it.  Setting the status publishes it first, so *)
(* that the "idle" of a loop that is over may come when the next one runs.  *)
(***************************************************************************)
EXTENDS Naturals, FiniteSetsExt

CONSTANTS
  Prompts,   \* calls of prompt, whose callers wait for a reply
  Results,   \* of background tasks
  MaxIds,    \* how many messages there may be
  MaxStops,  \* how many times somebody cancels or the loop dies
  None

Calls == Prompts \cup Results
Ids   == 1 .. MaxIds

Message == [role : {"user", "assistant"}, task : BOOLEAN,
            finish : {None, "stop", "tool-calls", "error"},
            summary : BOOLEAN, failed : BOOLEAN, parent : {None} \cup Ids]

ASSUME PromptLoopAssumption ==
  /\ Prompts \cap Results = {} /\ MaxIds \in Nat /\ MaxStops \in Nat
  /\ None \notin Nat \cup Message

VARIABLES
  last,       \* the last identifier that was taken
  log,        \* the messages, by identifier
  loop,       \* where the loop is
  seen,       \* the messages that it has read
  own,        \* the message of its step
  status,     \* what SessionStatus says of the session
  idling,     \* the "idle" of a loop that is over is being published
  call,       \* where each call is
  id,         \* and the identifier of its message
  stops,
  read,       \* the user messages that a step, or a compaction to its end, has read
  missed,     \* those that came into the log after the loop had read it and
              \*   got an identifier below that of what it then began
  spoilt,     \* those of a summary that had finished when it failed
  cut,        \* those that waited when a loop was stopped or failed
  passed      \* and those unread when a loop ended because all was answered

ghosts == <<read, missed, spoilt, cut, passed>>
reader == <<loop, seen, own, status, idling>>
caller == <<call, id>>
vars   == <<last, log, reader, caller, stops, ghosts>>

Init ==
  /\ last = 0 /\ log = [i \in Ids |-> None]
  /\ loop = "idle" /\ seen = {} /\ own = None
  /\ status = "idle" /\ idling = FALSE
  /\ call = [k \in Calls |-> "new"] /\ id = [k \in Calls |-> None]
  /\ stops = 0 /\ read = {} /\ missed = {} /\ spoilt = {} /\ cut = {} /\ passed = {}

-----------------------------------------------------------------------------
(* The messages.                                                            *)

User(task) == [role |-> "user", task |-> task, finish |-> None,
               summary |-> FALSE, failed |-> FALSE, parent |-> None]
Assistant(summary, parent) ==
  [role |-> "assistant", task |-> FALSE, finish |-> None,
   summary |-> summary, failed |-> FALSE, parent |-> parent]

Logged    == {i \in Ids : log[i] # None}
Users     == {i \in Logged : log[i].role = "user"}
Unread    == Users \ read
Summaries == {i \in Logged : log[i].summary /\ log[i].finish # None /\ ~log[i].failed}

(* filterCompacted: from the last request for compaction on that a summary  *)
(* belongs to; what it retains of the messages before is left out here.     *)
Visible ==
  LET from == Max({0} \cup {i \in Users : log[i].task /\ \E s \in Summaries : log[s].parent = i})
  IN {i \in Logged : i >= from}

(* latest, of the messages v. *)
LastUser(v)      == Max({0} \cup (v \cap Users))
LastAssistant(v) == Max({0} \cup (v \ Users))
LastFinished(v)  == Max({0} \cup {i \in v \ Users : log[i].finish # None})
Tasks(v)         == {i \in v \cap Users : log[i].task /\ i > LastFinished(v)}

(* The identifier of a new message, and its place in the log. *)
Append(msg) ==
  /\ last < MaxIds /\ last' = last + 1
  /\ log' = [log EXCEPT ![last + 1] = msg]

-----------------------------------------------------------------------------
(* Those who want the loop to run.                                          *)

(* createUserMessage takes an identifier; a result that some step has asked *)
(* for comes by the same way.                                               *)
Make(k) ==
  /\ call[k] = "new" /\ (k \in Results => read # {})
  /\ last < MaxIds /\ last' = last + 1
  /\ call' = [call EXCEPT ![k] = "made"] /\ id' = [id EXCEPT ![k] = last + 1]
  /\ UNCHANGED <<log, reader, stops, ghosts>>

(* Its message is in the log. *)
Log(k) ==
  /\ call[k] = "made"
  /\ log' = [log EXCEPT ![id[k]] = User(FALSE)]
  /\ call' = [call EXCEPT ![k] = IF k \in Results THEN "polls" ELSE "logged"]
  /\ missed' = IF \E j \in Logged \ Users : j > id[k] THEN missed \cup {id[k]} ELSE missed
  /\ UNCHANGED <<last, reader, id, stops, read, spoilt, cut, passed>>

(* ensureRunning: the loop is started, or joined wherever it is. *)
EnsureRunning ==
  /\ loop' = IF loop = "idle" THEN "head" ELSE loop
  /\ UNCHANGED <<seen, own, status, idling>>

Run(k) ==
  /\ call[k] = "logged" /\ call' = [call EXCEPT ![k] = "waits"] /\ EnsureRunning
  /\ UNCHANGED <<last, log, id, stops, ghosts>>

(* Mutant of Poll: it does not wait for the session to become idle. *)
PollOnce(k) ==
  /\ call[k] = "polls"
  /\ call' = [call EXCEPT ![k] = IF id[k] # Max(Users) \/ status # "idle" THEN "gone" ELSE "resumed"]
  /\ IF id[k] # Max(Users) \/ status # "idle" THEN UNCHANGED reader ELSE EnsureRunning
  /\ UNCHANGED <<last, log, id, stops, ghosts>>

(* resumeWhenIdle: unless a newer user message will see to it, the loop is  *)
(* started when the session's status is idle.                               *)
Poll(k) ==
  /\ call[k] = "polls"
  /\ IF id[k] # Max(Users)
       THEN call' = [call EXCEPT ![k] = "gone"] /\ UNCHANGED reader
       ELSE status = "idle" /\ call' = [call EXCEPT ![k] = "resumed"] /\ EnsureRunning
  /\ UNCHANGED <<last, log, id, stops, ghosts>>

-----------------------------------------------------------------------------
(* The loop.                                                                *)

(* The loop ends, and those who wait for it are told its last message; *)
Ends ==
  /\ loop' = "idle" /\ idling' = TRUE /\ own' = None /\ seen' = {}
  /\ call' = [k \in Calls |-> IF call[k] = "waits" THEN "told" ELSE call[k]]
  /\ UNCHANGED id

(* some time later the session is idle. *)
IdleLands ==
  /\ idling /\ status' = "idle" /\ idling' = FALSE
  /\ UNCHANGED <<last, log, loop, seen, own, caller, stops, ghosts>>

(* The assistant's last message is one that ends a turn.  What has finished *)
(* and calls tools counts as "tool-calls" here, whatever its finish says.   *)
Final(v) ==
  LET a == LastAssistant(v)
  IN a # 0 /\ log[a].finish \notin {None, "tool-calls"}

(* Mutant of Answered: whoever prompted last. *)
AnsweredSomebody(v) == Final(v)

(* It comes after the last user message. *)
Answered(v) == Final(v) /\ LastUser(v) < LastAssistant(v)

(* The loop takes its next turn. *)
GoesOn == loop' = "head" /\ own' = None /\ seen' = {}

(* The loop reads the log.  If there is something to do, it suspends before *)
(* it does so. *)
Head ==
  /\ loop = "head" /\ status' = "busy"
  /\ IF Answered(Visible)
       THEN Ends /\ passed' = passed \cup Unread
       ELSE /\ loop' = "read" /\ seen' = Visible
            /\ UNCHANGED <<own, idling, caller, passed>>
  /\ UNCHANGED <<last, log, stops, read, missed, spoilt, cut>>

(* The history is too long for the model that the last prompt wants: a      *)
(* request for compaction, which is a user message.                         *)
NoRoom ==
  /\ loop = "read" /\ Tasks(seen) = {} /\ LastFinished(seen) # 0
  /\ ~log[LastFinished(seen)].summary
  /\ Append(User(TRUE)) /\ GoesOn
  /\ UNCHANGED <<status, idling, caller, stops, ghosts>>

(* Messages that came into the log after the loop had read it, and before   *)
(* it takes the identifier of what it begins.                               *)
Skipped == (Visible \cap Users) \ seen

(* A step with what has been read, or a compaction of it. *)
Begin ==
  /\ loop = "read" /\ Tasks(seen) = {}
  /\ Append(Assistant(FALSE, LastUser(seen)))
  /\ loop' = "steps" /\ own' = last + 1 /\ seen' = {}
  /\ read' = read \cup (seen \cap Users) /\ missed' = missed \cup Skipped
  /\ UNCHANGED <<status, idling, caller, stops, spoilt, cut, passed>>

BeginCompaction ==
  /\ loop = "read" /\ Tasks(seen) # {}
  /\ Append(Assistant(TRUE, LastUser(seen)))
  /\ loop' = "compacts" /\ own' = last + 1 /\ missed' = missed \cup Skipped
  /\ UNCHANGED <<seen, status, idling, caller, stops, read, spoilt, cut, passed>>

(* The model has finished, for this attempt: from here on the message says  *)
(* so, whatever becomes of it.  Another attempt can only add calls.         *)
Finish(finish) ==
  /\ loop = "steps" \/ (loop = "compacts" /\ finish = "stop")
  /\ log[own].finish \in {None, "stop"}
  /\ log' = [log EXCEPT ![own].finish = finish]
  /\ UNCHANGED <<last, reader, caller, stops, ghosts>>

(* How a step ends, of which Processor says more: it goes on or is          *)
(* answered, *)
StepDone ==
  /\ loop = "steps" /\ GoesOn
  /\ UNCHANGED <<last, log, status, idling, caller, stops, ghosts>>

(* the context is full, with or without the model's having finished, *)
StepFull ==
  /\ loop = "steps" /\ Append(User(TRUE)) /\ GoesOn
  /\ UNCHANGED <<status, idling, caller, stops, ghosts>>

Breaks == Ends /\ cut' = cut \cup Unread

(* the user has denied something, *)
StepDenied ==
  /\ loop = "steps" /\ log[own].finish # "stop" /\ Breaks
  /\ UNCHANGED <<last, log, status, stops, read, missed, spoilt, passed>>

(* or it fails.  What the message says of its finish stays as it is.        *)
Fails == log' = [log EXCEPT ![own].failed = TRUE]

(* The messages of a summary that is cut short.                             *)
Spoils ==
  spoilt' = IF loop = "compacts" /\ log'[own].finish # None
              THEN spoilt \cup (seen \cap Unread) ELSE spoilt

(* halt says that the session is idle, and the clean-up goes on. *)
Halt ==
  /\ loop \in {"steps", "compacts"} /\ loop' = "halts" /\ status' = "idle"
  /\ Fails /\ Spoils
  /\ UNCHANGED <<last, seen, own, idling, caller, stops, read, missed, cut, passed>>

Halted ==
  /\ loop = "halts" /\ Breaks
  /\ UNCHANGED <<last, log, status, stops, read, missed, spoilt, passed>>

(* The summary is there, and a message that makes the loop go on. *)
Compacted ==
  /\ loop = "compacts" /\ Append(User(FALSE)) /\ GoesOn
  /\ read' = IF log[own].finish = None THEN read ELSE read \cup (seen \cap Users)
  /\ UNCHANGED <<status, idling, caller, stops, missed, spoilt, cut, passed>>

(* What is to be summarised is itself too long, and the summary says so. *)
TooLong ==
  /\ loop = "compacts"
  /\ log' = [log EXCEPT ![own].finish = "error", ![own].failed = TRUE]
  /\ Breaks /\ Spoils
  /\ UNCHANGED <<last, status, stops, read, missed, passed>>

(* Somebody cancels, or the loop dies of a defect.  A compaction that dies  *)
(* after its summary is there leaves that without an error.                 *)
Stop ==
  /\ loop # "idle" /\ stops < MaxStops /\ stops' = stops + 1
  /\ IF own # None THEN Fails \/ (loop = "compacts" /\ UNCHANGED log) ELSE UNCHANGED log
  /\ Breaks /\ Spoils
  /\ UNCHANGED <<last, status, read, missed, passed>>

-----------------------------------------------------------------------------
Others == \E k \in Calls : Make(k) \/ Log(k) \/ Run(k) \/ Poll(k)
Steps  == \/ Begin \/ StepDone \/ StepFull \/ StepDenied \/ Halt \/ Halted
          \/ \E finish \in {"stop", "tool-calls"} : Finish(finish)
Compactions == NoRoom \/ BeginCompaction \/ Compacted \/ TooLong

Next == Others \/ Head \/ IdleLands \/ Steps \/ Compactions \/ Stop

Spec == Init /\ [][Next]_vars

-----------------------------------------------------------------------------
TypeOK ==
  /\ last \in 0 .. MaxIds /\ log \in [Ids -> {None} \cup Message]
  /\ loop \in {"idle", "head", "read", "steps", "compacts", "halts"}
  /\ seen \subseteq Logged /\ own \in {None} \cup Logged
  /\ status \in {"idle", "busy"} /\ idling \in BOOLEAN
  /\ call \in [Calls -> {"new", "made", "logged", "waits", "told", "polls", "gone", "resumed"}]
  /\ id \in [Calls -> {None} \cup Ids] /\ stops \in 0 .. MaxStops
  /\ UNION {read, missed, spoilt, cut, passed} \subseteq Users

(* When the loop ends because the last message is answered, so are all      *)
(* others: a step, or a completed compaction, has read each.  Two kinds are *)
(* kept out, for which the code does not see to it.  Those the loop missed: *)
(* while it goes on from what it has read to the identifier of its step, or *)
(* later, a message comes into the log with an identifier below, and the    *)
(* exit goes by identifiers.  And those of a summary that failed after the  *)
(* model had finished it: its finish says that it is answered, its error    *)
(* that nothing has been summarised.                                        *)
NobodyIsPassedOver == passed \subseteq missed \cup spoilt

(* Who has still to run the loop for the message, or for a newer one. *)
Cared(i) == \E k \in Calls : id[k] \in Unread /\ id[k] >= i /\ call[k] \in {"logged", "polls"}

(* The result of a background task that nobody has read yet will be, even   *)
(* if the loop that was to read it is cancelled or fails: a loop runs, or   *)
(* somebody has still to run one.  Kept out are results that the loop       *)
(* missed or spoilt, those whose resumption has begun, which may have       *)
(* joined a failing loop that reads nothing any more (Halt), and those that *)
(* gave up in favour of a newer message that was itself left behind by a    *)
(* loop that was stopped or failed.                                         *)
ResultsAreCaredFor ==
  \A k \in Results : id[k] \in Unread \ (missed \cup spoilt) /\ call[k] # "resumed" =>
    loop # "idle" \/ Cared(id[k]) \/ \E j \in cut : j > id[k]
=============================================================================
