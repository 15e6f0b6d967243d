------------------------------ MODULE RunState ------------------------------
(***************************************************************************)
(* Who works in a session: the runner of packages/engine/src/effect/        *)
(* runner.ts and the registry of runners in session/run-state.ts.           *)
(*                                                                          *)
(* A prompt starts the session's loop, or joins the one that is running, or *)
(* waits for the shell command that is; a shell command is refused while    *)
(* anything runs.  Cancelling frees the runner at once and only then waits  *)
(* for what it interrupted, so that new work can start meanwhile.  A runner *)
(* that falls idle removes the session's entry from the registry, whichever *)
(* runner that entry is by then.                                            *)
(*                                                                          *)
(* Setting the status publishes it first, which suspends, and writes it     *)
(* then.  A runner that falls idle leaves the registry at once and is shown *)
(* as idle later; a shell command is shown as busy before it starts, and    *)
(* until it has started its runner is still idle and lets nobody else in.   *)
(*                                                                          *)
(* One session.  Every section between two suspensions is one action.  A    *)
(* call names the work it brings, and the runner that is made for it.  In   *)
(* which order those who wait for a runner's lock get it is left open.      *)
(***************************************************************************)
EXTENDS Naturals, FiniteSets

CONSTANTS
  Callers,    \* calls of SessionRunState.ensureRunning and startShell
  Cancellers, \* calls of SessionRunState.cancel
  None        \* no work, no runner, no cancellation under way

ASSUME RunStateAssumption == None \notin Callers

VARIABLES
  st,        \* state of each runner: its tag, shell handle and run handle
  current,   \* the session's entry in the registry
  status,    \* SessionStatus
  call,      \* what each call asked for
  home,      \* the runner that took it
  waits,     \* the work whose outcome it awaits
  work,      \* the fiber, or pending effect, of each work
  done,      \* its deferred
  stop,      \* each cancellation: what it has to stop and how far it got
  overtaken, \* work has started while a cancellation was under way, or with
             \*   a runner that the registry no longer has
  late       \* a shell command has started while "idle" was being published

registry == <<current, status>>
calls    == <<call, home, waits>>
vars == <<st, registry, calls, work, done, stop, overtaken, late>>

Idle             == [tag |-> "Idle", shell |-> None, run |-> None]
Running(w)       == [tag |-> "Running", shell |-> None, run |-> w]
Shell(s)         == [tag |-> "Shell", shell |-> s, run |-> None]
ShellThenRun(s, w) == [tag |-> "ShellThenRun", shell |-> s, run |-> w]

States == {Idle} \cup {Running(w) : w \in Callers} \cup {Shell(s) : s \in Callers}
            \cup {ShellThenRun(s, w) : s \in Callers, w \in Callers}

Stopping(k) == stop[k].phase \in {"latch", "fiber", "check"}

Init ==
  /\ st      = [r \in Callers |-> Idle]
  /\ current = None /\ status = "idle"
  /\ call    = [c \in Callers |-> "none"]
  /\ home    = [c \in Callers |-> None]
  /\ waits   = [c \in Callers |-> None]
  /\ work    = [c \in Callers |-> "none"]
  /\ done    = [c \in Callers |-> "open"]
  /\ stop    = [k \in Cancellers |-> [phase |-> "none", runner |-> None,
                                      fiber |-> None, run |-> None]]
  /\ overtaken = FALSE /\ late = FALSE

-----------------------------------------------------------------------------
(* Calls.                                                                   *)

(* A shell command is being announced as busy, inside the runner's lock. *)
Claimed(r) == \E c \in Callers : call[c] = "claiming" /\ home[c] = r

(* runner(): the session's runner, or a new one; whoever waits has his. *)
Taker(c) == IF home[c] # None THEN home[c] ELSE IF current = None THEN c ELSE current

Ask(c, what, w) ==
  /\ current' = IF call[c] = "none" THEN Taker(c) ELSE current
  /\ call' = [call EXCEPT ![c] = what]
  /\ home' = [home EXCEPT ![c] = Taker(c)]
  /\ waits' = [waits EXCEPT ![c] = w]

Begin(c, phase, state) ==
  /\ st' = [st EXCEPT ![Taker(c)] = state]
  /\ work' = [work EXCEPT ![c] = phase]
  /\ overtaken' = (overtaken \/ current' # Taker(c) \/ \E k \in Cancellers : Stopping(k))

Prompts(c) == call[c] \in {"none", "prompt in line"}
Shells(c)  == call[c] \in {"none", "shell in line"}

(* The runner's lock is taken. *)
GetInLine(c) ==
  /\ call[c] = "none" /\ Claimed(Taker(c))
  /\ \E what \in {"prompt in line", "shell in line"} : Ask(c, what, None)
  /\ UNCHANGED <<st, status, work, done, stop, overtaken, late>>

(* ensureRunning: start, ... *)
StartRun(c) ==
  /\ Prompts(c) /\ st[Taker(c)] = Idle /\ ~Claimed(Taker(c))
  /\ Ask(c, "prompt", c)
  /\ Begin(c, "running", Running(c))
  /\ UNCHANGED <<status, done, stop, late>>

(* ... queue behind the shell command, ... *)
QueueRun(c) ==
  /\ Prompts(c) /\ st[Taker(c)].tag = "Shell"
  /\ Ask(c, "prompt", c)
  /\ Begin(c, "pending", ShellThenRun(st[Taker(c)].shell, c))
  /\ UNCHANGED <<status, done, stop, late>>

(* ... or join the run there is. *)
JoinRun(c) ==
  /\ Prompts(c) /\ st[Taker(c)].tag \in {"Running", "ShellThenRun"}
  /\ Ask(c, "prompt", st[Taker(c)].run)
  /\ UNCHANGED <<st, status, work, done, stop, overtaken, late>>

(* Mutant of StartShell: a run does not keep the command from starting. *)
StartShellBeside(c) ==
  /\ Shells(c) /\ st[Taker(c)].tag \in {"Idle", "Running"} /\ ~Claimed(Taker(c))
  /\ Ask(c, "claiming", None)
  /\ UNCHANGED <<st, status, work, done, stop, overtaken, late>>

(* startShell: only an idle runner takes a shell command; onBusy begins. *)
StartShell(c) ==
  /\ Shells(c) /\ st[Taker(c)] = Idle /\ ~Claimed(Taker(c))
  /\ Ask(c, "claiming", None)
  /\ UNCHANGED <<st, status, work, done, stop, overtaken, late>>

(* onBusy ends and the command is started. *)
ShellStarts(c) ==
  /\ call[c] = "claiming"
  /\ Ask(c, "shell", c)
  /\ Begin(c, "starting", Shell(c))
  /\ status' = "busy"
  /\ late' = (late \/ (\E w \in Callers : work[w] = "idling")
                   \/ (\E k \in Cancellers : stop[k].phase = "idling"))
  /\ UNCHANGED <<done, stop>>

Busy(c) ==
  /\ Shells(c) /\ st[Taker(c)] # Idle
  /\ Ask(c, "refused", None)
  /\ UNCHANGED <<st, status, work, done, stop, overtaken, late>>

(* The caller is interrupted while it waits, or while it announces. *)
GiveUp(c) ==
  /\ call[c] \in {"claiming", "prompt in line", "shell in line"}
  /\ Ask(c, "refused", None)
  /\ UNCHANGED <<st, status, work, done, stop, overtaken, late>>

-----------------------------------------------------------------------------
(* The work itself.                                                         *)

(* The loop announces itself at every turn; halting on an error takes the   *)
(* announcement back before the loop is over.                               *)
Announce(w) ==
  /\ call[w] = "prompt" /\ work[w] = "running"
  /\ status' \in {"busy", "idle"}
  /\ UNCHANGED <<st, current, calls, work, done, stop, overtaken, late>>

(* The first part of a shell command cannot be interrupted; the latch opens *)
(* at its end.                                                              *)
ShellReady(s) ==
  /\ work[s] = "starting"
  /\ work' = [work EXCEPT ![s] = "running"]
  /\ UNCHANGED <<st, registry, calls, done, stop, overtaken, late>>

(* A shell command is a child of the fiber that asked for it. *)
CallerGone(c) ==
  /\ call[c] = "shell" /\ work[c] = "running"
  /\ work' = [work EXCEPT ![c] = "stopping"]
  /\ UNCHANGED <<st, registry, calls, done, stop, overtaken, late>>

(* onIdle begins: the session's entry is removed, "idle" is published. *)
FallIdle == current' = None

(* An interrupted fiber may still get to its result. *)
Settle(w) ==
  /\ \E outcome \in {"value", "cancelled"} :
       /\ outcome = "cancelled" =>
            work[w] = "stopping" \/ (work[w] = "idling" /\ call[w] = "shell")
       /\ done' = [done EXCEPT ![w] = outcome]
  /\ work' = [work EXCEPT ![w] = "ended"]

(* The fiber's runner had it, or has let it go before. *)
LastOfRunner(w) ==
  /\ st' = [st EXCEPT ![home[w]] = Idle] /\ FallIdle
  /\ work' = [work EXCEPT ![w] = "idling"]
  /\ UNCHANGED done

LetGoBefore(w) == Settle(w) /\ UNCHANGED <<st, current>>

(* Mutant of FinishRun: whatever runs is taken for this run. *)
FinishAnyRun(w) ==
  /\ call[w] = "prompt" /\ work[w] \in {"running", "stopping"} /\ ~Claimed(home[w])
  /\ IF st[home[w]].tag = "Running" THEN LastOfRunner(w) ELSE LetGoBefore(w)
  /\ UNCHANGED <<status, calls, stop, overtaken, late>>

(* finishRun *)
FinishRun(w) ==
  /\ call[w] = "prompt" /\ work[w] \in {"running", "stopping"} /\ ~Claimed(home[w])
  /\ IF st[home[w]] = Running(w) THEN LastOfRunner(w) ELSE LetGoBefore(w)
  /\ UNCHANGED <<status, calls, stop, overtaken, late>>

(* Mutant of FinishShell: the runner falls idle without saying so. *)
FinishShellQuietly(s) ==
  /\ call[s] = "shell" /\ work[s] \in {"running", "stopping"} /\ ~Claimed(home[s])
  /\ ~ \E w \in Callers : st[home[s]] = ShellThenRun(s, w)
  /\ Settle(s)
  /\ IF st[home[s]] = Shell(s)
       THEN st' = [st EXCEPT ![home[s]] = Idle] ELSE UNCHANGED st
  /\ UNCHANGED <<registry, calls, stop, overtaken, late>>

(* finishShell, with nobody waiting behind the command. *)
FinishShell(s) ==
  /\ call[s] = "shell" /\ work[s] \in {"running", "stopping"} /\ ~Claimed(home[s])
  /\ ~ \E w \in Callers : st[home[s]] = ShellThenRun(s, w)
  /\ IF st[home[s]] = Shell(s) THEN LastOfRunner(s) ELSE LetGoBefore(s)
  /\ UNCHANGED <<status, calls, stop, overtaken, late>>

(* onIdle ends, and with it the fiber; those who await it are answered. *)
IdleLands(w) ==
  /\ work[w] = "idling"
  /\ status' = "idle"
  /\ Settle(w)
  /\ UNCHANGED <<st, current, calls, stop, overtaken, late>>

(* Mutant of HandOver: the waiting run is not started. *)
HandOverToNobody(s) ==
  \E w \in Callers :
    /\ work[s] \in {"running", "stopping"}
    /\ st[home[s]] = ShellThenRun(s, w)
    /\ LastOfRunner(s)
    /\ UNCHANGED <<status, calls, stop, overtaken, late>>

(* finishShell, when a run waits. *)
HandOver(s) ==
  \E w \in Callers :
    /\ work[s] \in {"running", "stopping"}
    /\ st[home[s]] = ShellThenRun(s, w)
    /\ st' = [st EXCEPT ![home[s]] = Running(w)]
    /\ \E outcome \in {"value", "cancelled"} :
         /\ outcome = "cancelled" => work[s] = "stopping"
         /\ done' = [done EXCEPT ![s] = outcome]
    /\ work' = [work EXCEPT ![s] = "ended", ![w] = "running"]
    /\ UNCHANGED <<registry, calls, stop, overtaken, late>>

-----------------------------------------------------------------------------
(* SessionRunState.cancel, after the background jobs.                       *)

(* existing?.busy *)
Occupied == \E r \in Callers : r = current /\ st[r] # Idle

(* Only the status is set. *)
NothingToCancel(k) ==
  /\ stop[k].phase = "none" /\ ~Occupied
  /\ stop' = [stop EXCEPT ![k].phase = "idling"]
  /\ UNCHANGED <<st, registry, calls, work, done, overtaken, late>>

(* The runner is free from here on.  A run is interrupted at once, a shell  *)
(* command only when its latch is open.                                     *)
Cancel(k) ==
  /\ stop[k].phase = "none" /\ Occupied
  /\ LET s == st[current] IN
       IF s.tag = "Running"
         THEN /\ stop' = [stop EXCEPT ![k] = [phase |-> "fiber", runner |-> current,
                                              fiber |-> s.run, run |-> s.run]]
              /\ work' = [work EXCEPT ![s.run] = "stopping"]
         ELSE /\ stop' = [stop EXCEPT ![k] = [phase |-> "latch", runner |-> current,
                                              fiber |-> s.shell, run |-> s.run]]
              /\ UNCHANGED work
  /\ st' = [st EXCEPT ![current] = Idle]
  /\ UNCHANGED <<registry, calls, done, overtaken, late>>

(* stopShell *)
InterruptShell(k) ==
  /\ stop[k].phase = "latch" /\ work[stop[k].fiber] # "starting"
  /\ stop' = [stop EXCEPT ![k].phase = "fiber"]
  /\ work' = IF work[stop[k].fiber] = "running"
               THEN [work EXCEPT ![stop[k].fiber] = "stopping"] ELSE work
  /\ UNCHANGED <<st, registry, calls, done, overtaken, late>>

(* Mutant of Failed: the run behind a shell command is not told. *)
FailedIfStarted(k) ==
  LET w == stop[k].run IN
  IF w # None /\ work[w] # "pending" /\ done[w] = "open"
    THEN [done EXCEPT ![w] = "cancelled"] ELSE done

(* Deferred.fail, which does nothing to a deferred that is done. *)
Failed(k) ==
  LET w == stop[k].run IN
  IF w # None /\ done[w] = "open" THEN [done EXCEPT ![w] = "cancelled"] ELSE done

(* The fiber is gone, and the run is told. *)
CancelDone(k) ==
  /\ stop[k].phase = "fiber" /\ work[stop[k].fiber] = "ended"
  /\ done' = Failed(k)
  /\ work' = IF stop[k].run = None THEN work ELSE [work EXCEPT ![stop[k].run] = "ended"]
  /\ stop' = [stop EXCEPT ![k].phase = "check"]
  /\ UNCHANGED <<st, registry, calls, overtaken, late>>

(* idleIfCurrent looks at this runner's state, not at the registry. *)
IdleIfCurrent(k) ==
  /\ stop[k].phase = "check" /\ ~Claimed(stop[k].runner)
  /\ IF st[stop[k].runner] = Idle
       THEN FallIdle /\ stop' = [stop EXCEPT ![k].phase = "idling"]
       ELSE UNCHANGED current /\ stop' = [stop EXCEPT ![k].phase = "done"]
  /\ UNCHANGED <<st, status, calls, work, done, overtaken, late>>

(* The status is written, and the cancellation is over. *)
CancelLands(k) ==
  /\ stop[k].phase = "idling"
  /\ status' = "idle"
  /\ stop' = [stop EXCEPT ![k].phase = "done"]
  /\ UNCHANGED <<st, current, calls, work, done, overtaken, late>>

Next ==
  \/ \E c \in Callers :
       \/ GetInLine(c) \/ GiveUp(c)
       \/ StartRun(c) \/ QueueRun(c) \/ JoinRun(c) \/ StartShell(c) \/ ShellStarts(c) \/ Busy(c)
       \/ Announce(c) \/ ShellReady(c) \/ CallerGone(c)
       \/ FinishRun(c) \/ FinishShell(c) \/ HandOver(c) \/ IdleLands(c)
  \/ \E k \in Cancellers :
       \/ NothingToCancel(k) \/ Cancel(k) \/ InterruptShell(k)
       \/ CancelDone(k) \/ IdleIfCurrent(k) \/ CancelLands(k)

Spec == Init /\ [][Next]_vars

(* A fiber that was interrupted ends, the start of a shell command ends,    *)
(* publishing ends, and a cancellation goes on when it can.  Nothing makes  *)
(* a loop or a shell command that nobody interrupts end.                    *)
Winds(w) ==
  \/ ShellStarts(w) \/ ShellReady(w) \/ IdleLands(w)
  \/ work[w] = "stopping" /\ (FinishRun(w) \/ FinishShell(w) \/ HandOver(w))

Proceeds(k) == InterruptShell(k) \/ CancelDone(k) \/ IdleIfCurrent(k) \/ CancelLands(k)

FairSpec ==
  /\ Spec
  /\ \A w \in Callers : WF_vars(Winds(w))
  /\ \A k \in Cancellers : WF_vars(Proceeds(k))

-----------------------------------------------------------------------------
TypeOK ==
  /\ st \in [Callers -> States]
  /\ current \in Callers \cup {None} /\ status \in {"idle", "busy"}
  /\ call \in [Callers -> {"none", "prompt in line", "shell in line", "claiming",
                        "prompt", "shell", "refused"}]
  /\ home \in [Callers -> Callers \cup {None}]
  /\ waits \in [Callers -> Callers \cup {None}]
  /\ work \in [Callers -> {"none", "pending", "starting", "running", "stopping", "idling", "ended"}]
  /\ done \in [Callers -> {"open", "value", "cancelled"}]
  /\ stop \in [Cancellers -> [phase : {"none", "latch", "fiber", "check", "idling", "done"},
                              runner : Callers \cup {None},
                              fiber : Callers \cup {None}, run : Callers \cup {None}]]
  /\ overtaken \in BOOLEAN /\ late \in BOOLEAN

Condemned(w) == \E k \in Cancellers : Stopping(k) /\ w \in {stop[k].fiber, stop[k].run}

(* A runner's state is the truth about its fibers: what it names exists in  *)
(* the phase it says, and no fiber works for it unknown to it, except one   *)
(* that a cancellation is about to interrupt.                               *)
RunnersKeepTheirWork ==
  /\ \A r \in Callers :
       /\ st[r].tag = "Running" => work[st[r].run] = "running"
       /\ st[r].tag \in {"Shell", "ShellThenRun"} =>
            work[st[r].shell] \in {"starting", "running", "stopping"}
       /\ st[r].tag = "ShellThenRun" => work[st[r].run] = "pending"
  /\ \A w \in Callers : work[w] \in {"pending", "starting", "running"} =>
       w \in {st[home[w]].shell, st[home[w]].run} \/ Condemned(w)

(* Nobody waits for work that is over, never started or lost.               *)
NobodyIsForgotten ==
  \A c \in Callers : waits[c] # None /\ done[waits[c]] = "open" =>
    \/ work[waits[c]] \in {"starting", "running", "stopping", "idling"}
    \/ work[waits[c]] = "pending" /\ (st[home[waits[c]]].run = waits[c] \/ Condemned(waits[c]))

(* Unless work started while a cancellation was still waiting for its       *)
(* fiber, or with a runner that had left the registry, the runner that      *)
(* works is the one the registry knows, so that cancel finds it and the     *)
(* next prompt joins it, and the session is never worked on by two fibers   *)
(* at once.                                                                 *)
OneRegisteredWorker ==
  overtaken \/
    /\ \A r \in Callers : st[r] # Idle => r = current
    /\ Cardinality({w \in Callers : work[w] \in {"starting", "running", "stopping"}}) <= 1

AllIsOver ==
  /\ \A w \in Callers : work[w] \in {"none", "ended"}
  /\ \A k \in Cancellers : stop[k].phase \in {"none", "done"}

(* When everything is over, what is being published included, the session   *)
(* is shown as idle, whatever came late.  While a shell command runs it is  *)
(* shown as busy, if no cancellation was overtaken and no earlier "idle"    *)
(* was still being published when the command started: that one lands after *)
(* the command's "busy".                                                    *)
StatusIsHonest ==
  /\ AllIsOver => status = "idle"
  /\ overtaken \/ late \/ \A r \in Callers : st[r].tag = "Shell" => status = "busy"

(* Whoever waits for work that is cancelled, started or not, gets an        *)
(* answer.                                                                  *)
CancelledIsAnswered == \A w \in Callers : Condemned(w) ~> done[w] # "open"
=============================================================================
