--------------------------- MODULE RunStateProofs ---------------------------
(* For any number of calls and cancellations of a session: nobody waits for *)
(* work that is over, was never started or got lost, and a runner's state   *)
(* tells the truth about its fibers, however cancellations and new work     *)
(* interleave.                                                              *)
EXTENDS RunState, FiniteSetTheorems, TLAPS

(* What a runner names is its own, in the phase its state says, and has not *)
(* been answered.                                                           *)
Truthful(r) ==
  /\ st[r].tag = "Running" =>
       LET w == st[r].run IN
       home[w] = r /\ call[w] = "prompt" /\ work[w] = "running" /\ done[w] = "open"
  /\ st[r].tag \in {"Shell", "ShellThenRun"} =>
       LET s == st[r].shell IN
       /\ home[s] = r /\ call[s] = "shell" /\ done[s] = "open"
       /\ work[s] \in {"starting", "running", "stopping"}
  /\ st[r].tag = "ShellThenRun" =>
       LET w == st[r].run IN
       home[w] = r /\ call[w] = "prompt" /\ work[w] = "pending" /\ done[w] = "open"

HandlesAreTrue == \A r \in Callers : Truthful(r)

(* Work that nobody has told to stop is in its runner's hands.              *)
WorkIsHeld ==
  \A w \in Callers : work[w] \in {"pending", "starting", "running"} =>
    w \in {st[home[w]].shell, st[home[w]].run} \/ Condemned(w)

(* Work that is over has been answered for.                                 *)
EndIsTold == \A w \in Callers : work[w] = "ended" => done[w] # "open"

Unbegun(c) == call[c] \in {"none", "prompt in line", "shell in line", "claiming"}

(* A call that has begun nothing has left no trace but the runner it waits  *)
(* for; awaited work was asked for.                                         *)
CallsLeaveTraces ==
  /\ \A c \in Callers : Unbegun(c) => waits[c] = None /\ work[c] = "none" /\ done[c] = "open"
  /\ \A c \in Callers : call[c] = "none" <=> home[c] = None
  /\ \A c \in Callers : waits[c] # None => work[waits[c]] # "none"
  /\ \A c \in Callers : work[c] = "starting" => call[c] = "shell"

(* A runner whose lock a shell command holds is idle, and one holds it.     *)
ClaimsAreAlone ==
  \A c \in Callers : call[c] = "claiming" =>
    /\ st[home[c]] = Idle
    /\ \A d \in Callers : call[d] = "claiming" /\ home[d] = home[c] => d = c

(* What a cancellation has to stop exists.                                  *)
StopsAreReal ==
  \A k \in Cancellers : Stopping(k) =>
    LET f == stop[k].fiber  w == stop[k].run IN
    /\ f # None /\ stop[k].runner # None
    /\ stop[k].phase = "latch" =>
         call[f] = "shell" /\ work[f] \in {"starting", "running", "stopping", "ended"}
    /\ stop[k].phase = "fiber" => work[f] \in {"stopping", "ended"}
    /\ stop[k].phase = "check" => work[f] = "ended" /\ (w # None => work[w] = "ended")
    /\ w # None => w = f \/ work[w] \in {"pending", "ended"}

(* No runner holds what a cancellation has taken over.                      *)
CondemnedIsReleased ==
  \A r \in Callers : \A w \in {st[r].shell, st[r].run} : w # None => ~Condemned(w)

IInv ==
  /\ TypeOK /\ HandlesAreTrue /\ WorkIsHeld /\ EndIsTold
  /\ CallsLeaveTraces /\ ClaimsAreAlone /\ StopsAreReal /\ CondemnedIsReleased

(* The four forms of a runner's state.                                      *)
LEMMA StateForms ==
  ASSUME NEW s \in States
  PROVE  /\ s.tag \in {"Idle", "Running", "Shell", "ShellThenRun"}
         /\ s.tag = "Idle" <=> s = Idle
         /\ s.tag = "Idle" => s.shell = None /\ s.run = None
         /\ s.tag = "Running" => s.shell = None /\ s.run \in Callers /\ s = Running(s.run)
         /\ s.tag = "Shell" => s.shell \in Callers /\ s.run = None /\ s = Shell(s.shell)
         /\ s.tag = "ShellThenRun" =>
              s.shell \in Callers /\ s.run \in Callers /\ s = ShellThenRun(s.shell, s.run)
BY DEF States, Idle, Running, Shell, ShellThenRun

LEMMA FormsAreStates ==
  /\ Idle \in States
  /\ \A w \in Callers : Running(w) \in States /\ Shell(w) \in States
  /\ \A s \in Callers, w \in Callers : ShellThenRun(s, w) \in States
BY DEF States

LEMMA Initially == Init => IInv
<1> SUFFICES ASSUME Init PROVE IInv
  OBVIOUS
<1>1. TypeOK
  BY FormsAreStates DEF Init, TypeOK
<1>2. \A r \in Callers : st[r].tag = "Idle" /\ st[r].shell = None /\ st[r].run = None
  BY DEF Init, Idle
<1> QED
  BY <1>1, <1>2 DEF Init, IInv, HandlesAreTrue, Truthful, WorkIsHeld, EndIsTold, CallsLeaveTraces,
     ClaimsAreAlone, StopsAreReal, CondemnedIsReleased, Stopping, Condemned

Stops == [phase : {"none", "latch", "fiber", "check", "idling", "done"},
          runner : Callers \cup {None}, fiber : Callers \cup {None}, run : Callers \cup {None}]

LEMMA PhaseTyped ==
  ASSUME TypeOK, NEW k \in Cancellers,
         NEW p \in {"none", "latch", "fiber", "check", "idling", "done"},
         stop' = [stop EXCEPT ![k].phase = p]
  PROVE  stop' \in [Cancellers -> Stops]
<1>1. stop \in [Cancellers -> Stops]
  BY DEF TypeOK, Stops
<1>2. [stop[k] EXCEPT !.phase = p] \in Stops
  BY <1>1 DEF Stops
<1> QED
  BY <1>1, <1>2

(* Every step keeps the types. *)
LEMMA TypeStep ==
  TypeOK /\ [Next]_vars => TypeOK'
<1> USE RunStateAssumption
<1> SUFFICES ASSUME TypeOK, [Next]_vars PROVE TypeOK'
  OBVIOUS
<1>1. ASSUME NEW c \in Callers, GetInLine(c) PROVE TypeOK'
  <2>1. PICK what \in {"prompt in line", "shell in line"} : Ask(c, what, None)
    BY <1>1 DEF GetInLine
  <2>2. call' \in [Callers -> {"none", "prompt in line", "shell in line", "claiming",
                               "prompt", "shell", "refused"}]
    BY <2>1 DEF Ask, TypeOK
  <2> QED
    BY <1>1, <2>1, <2>2 DEF GetInLine, Ask, Taker, TypeOK
<1>2. ASSUME NEW c \in Callers, StartRun(c) PROVE TypeOK'
  BY <1>2, FormsAreStates DEF StartRun, Ask, Begin, Taker, TypeOK
<1>3. ASSUME NEW c \in Callers, QueueRun(c) PROVE TypeOK'
  <2>1. Taker(c) \in Callers /\ st[Taker(c)] \in States
    BY <1>3 DEF Taker, TypeOK
  <2>2. st[Taker(c)].shell \in Callers
    BY <1>3, <2>1, StateForms DEF QueueRun
  <2> QED
    BY <1>3, <2>1, <2>2, FormsAreStates DEF QueueRun, Ask, Begin, TypeOK
<1>4. ASSUME NEW c \in Callers, JoinRun(c) PROVE TypeOK'
  <2>1. Taker(c) \in Callers /\ st[Taker(c)] \in States
    BY <1>4 DEF Taker, TypeOK
  <2>2. st[Taker(c)].run \in Callers
    BY <1>4, <2>1, StateForms DEF JoinRun
  <2> QED
    BY <1>4, <2>1, <2>2 DEF JoinRun, Ask, TypeOK
<1>5. ASSUME NEW c \in Callers, StartShell(c) PROVE TypeOK'
  BY <1>5 DEF StartShell, Ask, Taker, TypeOK
<1>6. ASSUME NEW c \in Callers, ShellStarts(c) PROVE TypeOK'
  BY <1>6, FormsAreStates DEF ShellStarts, Ask, Begin, Taker, TypeOK
<1>7. ASSUME NEW c \in Callers, Busy(c) PROVE TypeOK'
  BY <1>7 DEF Busy, Ask, Taker, TypeOK
<1>8. ASSUME NEW c \in Callers, GiveUp(c) PROVE TypeOK'
  BY <1>8 DEF GiveUp, Ask, Taker, TypeOK
<1>9. ASSUME NEW c \in Callers, Announce(c) PROVE TypeOK'
  BY <1>9 DEF Announce, calls, TypeOK
<1>10. ASSUME NEW c \in Callers, ShellReady(c) PROVE TypeOK'
  BY <1>10 DEF ShellReady, registry, calls, TypeOK
<1>11. ASSUME NEW c \in Callers, CallerGone(c) PROVE TypeOK'
  BY <1>11 DEF CallerGone, registry, calls, TypeOK
<1>12. ASSUME NEW c \in Callers, FinishRun(c) \/ FinishShell(c) PROVE TypeOK'
  BY <1>12, FormsAreStates
     DEF FinishRun, FinishShell, LastOfRunner, LetGoBefore, Settle, FallIdle, calls, TypeOK
<1>13. ASSUME NEW c \in Callers, IdleLands(c) PROVE TypeOK'
  BY <1>13 DEF IdleLands, Settle, calls, TypeOK
<1>14. ASSUME NEW c \in Callers, HandOver(c) PROVE TypeOK'
  <2>1. PICK w \in Callers : st[home[c]] = ShellThenRun(c, w) /\ st' = [st EXCEPT ![home[c]] = Running(w)]
                             /\ work' = [work EXCEPT ![c] = "ended", ![w] = "running"]
    BY <1>14 DEF HandOver
  <2>2. st' \in [Callers -> States]
    BY <2>1, FormsAreStates DEF TypeOK
  <2>3. work' \in [Callers -> {"none", "pending", "starting", "running", "stopping", "idling", "ended"}]
    BY <2>1 DEF TypeOK
  <2>4. done' \in [Callers -> {"open", "value", "cancelled"}]
    BY <1>14 DEF HandOver, TypeOK
  <2> QED
    BY <1>14, <2>2, <2>3, <2>4 DEF HandOver, registry, calls, TypeOK
<1>15. ASSUME NEW k \in Cancellers, NothingToCancel(k) PROVE TypeOK'
  <2>1. stop' \in [Cancellers -> Stops]
    BY <1>15, PhaseTyped DEF NothingToCancel
  <2> QED
    BY <1>15, <2>1 DEF NothingToCancel, registry, calls, TypeOK, Stops
<1>16. ASSUME NEW k \in Cancellers, Cancel(k) PROVE TypeOK'
  <2>1. current \in Callers /\ st[current] \in States
    BY <1>16 DEF Cancel, Occupied, TypeOK
  <2>2. /\ st[current].shell \in Callers \cup {None} /\ st[current].run \in Callers \cup {None}
    BY <2>1, StateForms
  <2>3. st' \in [Callers -> States]
    BY <1>16, <2>1, FormsAreStates DEF Cancel, TypeOK
  <2>4. stop' \in [Cancellers -> Stops]
    <3>1. \E p \in {"latch", "fiber"} : \E f \in {st[current].shell, st[current].run} :
            stop' = [stop EXCEPT ![k] = [phase |-> p, runner |-> current,
                                         fiber |-> f, run |-> st[current].run]]
      BY <1>16 DEF Cancel
    <3>2. PICK p \in {"latch", "fiber"}, f \in {st[current].shell, st[current].run} :
            stop' = [stop EXCEPT ![k] = [phase |-> p, runner |-> current,
                                         fiber |-> f, run |-> st[current].run]]
      BY <3>1
    <3>3. [phase |-> p, runner |-> current, fiber |-> f, run |-> st[current].run] \in Stops
      BY <2>1, <2>2 DEF Stops
    <3>4. stop \in [Cancellers -> Stops]
      BY DEF TypeOK, Stops
    <3> QED
      BY <3>2, <3>3, <3>4
  <2>5. work' \in [Callers -> {"none", "pending", "starting", "running", "stopping", "idling", "ended"}]
    <3>1. work' = [work EXCEPT ![st[current].run] = "stopping"] \/ UNCHANGED work
      BY <1>16 DEF Cancel
    <3> QED
      BY <3>1 DEF TypeOK
  <2> QED
    BY <1>16, <2>3, <2>4, <2>5 DEF Cancel, registry, calls, TypeOK, Stops
<1>17. ASSUME NEW k \in Cancellers, InterruptShell(k) PROVE TypeOK'
  <2>1. stop' \in [Cancellers -> Stops]
    BY <1>17, PhaseTyped DEF InterruptShell
  <2>2. work' \in [Callers -> {"none", "pending", "starting", "running", "stopping", "idling", "ended"}]
    BY <1>17 DEF InterruptShell, TypeOK
  <2> QED
    BY <1>17, <2>1, <2>2 DEF InterruptShell, registry, calls, TypeOK, Stops
<1>18. ASSUME NEW k \in Cancellers, CancelDone(k) PROVE TypeOK'
  <2>1. stop' \in [Cancellers -> Stops]
    BY <1>18, PhaseTyped DEF CancelDone
  <2>2. work' \in [Callers -> {"none", "pending", "starting", "running", "stopping", "idling", "ended"}]
    BY <1>18 DEF CancelDone, TypeOK
  <2> QED
    BY <1>18, <2>1, <2>2 DEF CancelDone, Failed, registry, calls, TypeOK, Stops
<1>19. ASSUME NEW k \in Cancellers, IdleIfCurrent(k) PROVE TypeOK'
  <2>1. stop' \in [Cancellers -> Stops]
    BY <1>19, PhaseTyped DEF IdleIfCurrent
  <2>2. work' \in [Callers -> {"none", "pending", "starting", "running", "stopping", "idling", "ended"}]
    BY <1>19 DEF IdleIfCurrent, TypeOK
  <2> QED
    BY <1>19, <2>1, <2>2 DEF IdleIfCurrent, FallIdle, calls, TypeOK, Stops
<1>20. ASSUME NEW k \in Cancellers, CancelLands(k) PROVE TypeOK'
  <2>1. stop' \in [Cancellers -> Stops]
    BY <1>20, PhaseTyped DEF CancelLands
  <2>2. work' \in [Callers -> {"none", "pending", "starting", "running", "stopping", "idling", "ended"}]
    BY <1>20 DEF CancelLands, TypeOK
  <2> QED
    BY <1>20, <2>1, <2>2 DEF CancelLands, calls, TypeOK, Stops
<1>21. CASE UNCHANGED vars
  BY <1>21 DEF vars, registry, calls, TypeOK
<1> QED
  BY <1>1, <1>2, <1>3, <1>4, <1>5, <1>6, <1>7, <1>8, <1>9, <1>10, <1>11, <1>12,
     <1>13, <1>14, <1>15, <1>16, <1>17, <1>18, <1>19, <1>20, <1>21
  DEF Next

(* What the types say of the runners' states. *)
Formed ==
  \A r \in Callers : LET s == st[r] IN
    /\ s.tag \in {"Idle", "Running", "Shell", "ShellThenRun"}
    /\ s.tag = "Idle" <=> s = Idle
    /\ s.tag = "Idle" => s.shell = None /\ s.run = None
    /\ s.tag = "Running" => s.shell = None /\ s.run \in Callers /\ s = Running(s.run)
    /\ s.tag = "Shell" => s.shell \in Callers /\ s.run = None /\ s = Shell(s.shell)
    /\ s.tag = "ShellThenRun" =>
         s.shell \in Callers /\ s.run \in Callers /\ s = ShellThenRun(s.shell, s.run)

LEMMA TypeForms == TypeOK => Formed
<1> SUFFICES ASSUME TypeOK, NEW r \in Callers PROVE st[r] \in States
  BY StateForms, Zenon DEF Formed
<1> QED
  BY DEF TypeOK

Held(w) == \E r \in Callers : w \in {st[r].shell, st[r].run}

(* The end of a fiber.  If its runner still has it the runner falls idle,   *)
(* otherwise nobody has it, and nothing else happens.                       *)
LEMMA Ending ==
  ASSUME IInv, NEW w \in Callers, FinishRun(w) \/ FinishShell(w)
  PROVE  /\ home[w] \in Callers /\ work[w] \in {"running", "stopping"}
         /\ UNCHANGED <<status, calls, stop, overtaken, late>>
         /\ \A r \in Callers : w \in {st[r].shell, st[r].run} => r = home[w]
         /\ \/ /\ w \in {st[home[w]].shell, st[home[w]].run}
               /\ st[home[w]].tag \in {"Running", "Shell"} /\ LastOfRunner(w)
            \/ ~Held(w) /\ LetGoBefore(w)
<1> USE RunStateAssumption
<1>0. Formed
  BY TypeForms DEF IInv
<1>1. /\ work[w] \in {"running", "stopping"} /\ call[w] \in {"prompt", "shell"}
      /\ UNCHANGED <<status, calls, stop, overtaken, late>>
  BY DEF FinishRun, FinishShell
<1>a. home[w] \in Callers
  BY <1>1 DEF IInv, TypeOK, CallsLeaveTraces
<1>2. \A r \in Callers : w \in {st[r].shell, st[r].run} => r = home[w]
  BY <1>0 DEF IInv, HandlesAreTrue, Truthful, Formed
<1>3. CASE FinishRun(w)
  <2>1. call[w] = "prompt"
    BY <1>3 DEF FinishRun
  <2>2. st[home[w]].shell # w
    BY <1>0, <1>a, <2>1 DEF IInv, HandlesAreTrue, Truthful, Formed
  <2>3. st[home[w]].run = w => st[home[w]] = Running(w)
    BY <1>0, <1>1, <1>a DEF IInv, HandlesAreTrue, Truthful, Formed
  <2>4. st[home[w]] = Running(w) => st[home[w]].tag = "Running" /\ st[home[w]].run = w
    BY DEF Running
  <2>5. CASE st[home[w]] = Running(w)
    BY <1>1, <1>a, <1>2, <1>3, <2>4, <2>5 DEF FinishRun
  <2>6. CASE st[home[w]] # Running(w)
    <3>1. ~Held(w)
      BY <1>2, <2>2, <2>3, <2>6 DEF Held
    <3> QED
      BY <1>1, <1>a, <1>2, <1>3, <2>6, <3>1 DEF FinishRun
  <2> QED
    BY <2>5, <2>6
<1>4. CASE FinishShell(w)
  <2>1. call[w] = "shell" /\ ~ \E v \in Callers : st[home[w]] = ShellThenRun(w, v)
    BY <1>4 DEF FinishShell
  <2>2. st[home[w]].run # w
    BY <1>0, <1>1, <1>a, <2>1 DEF IInv, HandlesAreTrue, Truthful, Formed
  <2>3. st[home[w]].shell = w => st[home[w]] = Shell(w)
    BY <1>0, <1>a, <2>1 DEF Formed
  <2>4. st[home[w]] = Shell(w) => st[home[w]].tag = "Shell" /\ st[home[w]].shell = w
    BY DEF Shell
  <2>5. CASE st[home[w]] = Shell(w)
    BY <1>1, <1>a, <1>2, <1>4, <2>4, <2>5 DEF FinishShell
  <2>6. CASE st[home[w]] # Shell(w)
    <3>1. ~Held(w)
      BY <1>2, <2>2, <2>3, <2>6 DEF Held
    <3> QED
      BY <1>1, <1>a, <1>2, <1>4, <2>6, <3>1 DEF FinishShell
  <2> QED
    BY <2>5, <2>6
<1> QED
  BY <1>3, <1>4

(* What a step does, function by function.                                  *)
Becomes(f, g, x, v) == g[x] = v /\ \A y \in Callers : y # x => g[y] = f[y]

Still == UNCHANGED <<st, calls, work, done, stop>>

(* A call is made, waits, is refused, joins or announces itself; ...        *)
Asks(c) ==
  /\ Unbegun(c) /\ UNCHANGED <<st, work, done, stop>>
  /\ Becomes(home, home', c, Taker(c))
  /\ \E x \in {"prompt in line", "shell in line", "claiming", "prompt", "refused"} :
       /\ Becomes(call, call', c, x)
       /\ x = "claiming" => st[Taker(c)] = Idle /\ ~Claimed(Taker(c))
  /\ \E v \in Callers \cup {None} :
       /\ Becomes(waits, waits', c, v)
       /\ v # None => call'[c] = "prompt" /\ work[v] # "none"

(* ... it begins its work, ...                                              *)
BeginsAs(c, s, phase, what) ==
  /\ Becomes(st, st', Taker(c), s)
  /\ Becomes(work, work', c, phase)
  /\ Becomes(call, call', c, what)

Begins(c) ==
  /\ Unbegun(c) /\ UNCHANGED <<done, stop>>
  /\ Becomes(home, home', c, Taker(c)) /\ Becomes(waits, waits', c, c)
  /\ \/ st[Taker(c)] = Idle /\ ~Claimed(Taker(c)) /\ BeginsAs(c, Running(c), "running", "prompt")
     \/ /\ st[Taker(c)].tag = "Shell"
        /\ BeginsAs(c, ShellThenRun(st[Taker(c)].shell, c), "pending", "prompt")
     \/ call[c] = "claiming" /\ st[Taker(c)] = Idle /\ BeginsAs(c, Shell(c), "starting", "shell")

(* ... which goes on, or ends without its runner, ...                       *)
Goes(w) ==
  /\ UNCHANGED <<st, calls, stop>>
  /\ \/ work[w] = "starting" /\ Becomes(work, work', w, "running") /\ UNCHANGED done
     \/ /\ call[w] = "shell" /\ work[w] = "running"
        /\ Becomes(work, work', w, "stopping") /\ UNCHANGED done
     \/ /\ ~Held(w) /\ work[w] \in {"running", "stopping", "idling"}
        /\ Becomes(work, work', w, "ended")
        /\ done'[w] # "open" /\ Becomes(done, done', w, done'[w])

(* ... or as its runner's last, ...                                         *)
Idles(w) ==
  /\ home[w] \in Callers /\ work[w] \in {"running", "stopping"}
  /\ w \in {st[home[w]].shell, st[home[w]].run} /\ st[home[w]].tag \in {"Running", "Shell"}
  /\ Becomes(st, st', home[w], Idle) /\ Becomes(work, work', w, "idling")
  /\ UNCHANGED <<calls, done, stop>>

(* ... or hands over to the run that waits.                                 *)
HandsOver(s, w) ==
  /\ home[s] \in Callers /\ st[home[s]] = ShellThenRun(s, w)
  /\ s # w /\ work[s] \in {"running", "stopping"}
  /\ Becomes(st, st', home[s], Running(w))
  /\ work'[s] = "ended" /\ work'[w] = "running"
  /\ \A v \in Callers : v \notin {s, w} => work'[v] = work[v]
  /\ done'[s] # "open" /\ Becomes(done, done', s, done'[s])
  /\ UNCHANGED <<calls, stop>>

SameTargets(k) ==
  stop'[k].fiber = stop[k].fiber /\ stop'[k].run = stop[k].run /\ stop'[k].runner = stop[k].runner

(* A cancellation only goes on to its own end, ...                          *)
Concludes(k) ==
  /\ UNCHANGED <<st, calls, work, done>>
  /\ \A j \in Cancellers : j # k => stop'[j] = stop[j]
  /\ SameTargets(k)
  /\ \/ stop[k].phase = "none" /\ stop'[k].phase = "idling"
     \/ stop[k].phase = "check" /\ stop'[k].phase \in {"idling", "done"}
     \/ stop[k].phase = "idling" /\ stop'[k].phase = "done"

(* ... takes what the runner has, ...                                       *)
Takes(k) ==
  /\ current \in Callers /\ st[current].tag # "Idle" /\ Becomes(st, st', current, Idle)
  /\ UNCHANGED <<calls, done>>
  /\ \A j \in Cancellers : j # k => stop'[j] = stop[j]
  /\ stop[k].phase = "none" /\ stop'[k].runner = current /\ stop'[k].run = st[current].run
  /\ \/ /\ st[current].tag = "Running"
        /\ stop'[k].phase = "fiber" /\ stop'[k].fiber = st[current].run
        /\ Becomes(work, work', st[current].run, "stopping")
     \/ /\ st[current].tag \in {"Shell", "ShellThenRun"}
        /\ stop'[k].phase = "latch" /\ stop'[k].fiber = st[current].shell
        /\ UNCHANGED work

(* ... interrupts the shell command, ...                                    *)
Interrupts(k) ==
  /\ UNCHANGED <<st, calls, done>>
  /\ \A j \in Cancellers : j # k => stop'[j] = stop[j]
  /\ SameTargets(k)
  /\ stop[k].phase = "latch" /\ stop'[k].phase = "fiber"
  /\ work[stop[k].fiber] # "starting"
  /\ IF work[stop[k].fiber] = "running"
       THEN Becomes(work, work', stop[k].fiber, "stopping") ELSE UNCHANGED work

(* ... or tells those who wait for the run.                                 *)
Tells(k) ==
  /\ UNCHANGED <<st, calls>>
  /\ \A j \in Cancellers : j # k => stop'[j] = stop[j]
  /\ SameTargets(k)
  /\ stop[k].phase = "fiber" /\ stop'[k].phase = "check"
  /\ work[stop[k].fiber] = "ended"
  /\ \A w \in Callers : IF w = stop[k].run
       THEN /\ work'[w] = "ended" /\ done'[w] # "open"
            /\ done[w] # "open" => done'[w] = done[w]
       ELSE work'[w] = work[w] /\ done'[w] = done[w]

Shape ==
  \/ Still
  \/ \E c \in Callers : Asks(c) \/ Begins(c) \/ Goes(c) \/ Idles(c)
  \/ \E s, w \in Callers : HandsOver(s, w)
  \/ \E k \in Cancellers : Concludes(k) \/ Takes(k) \/ Interrupts(k) \/ Tells(k)

LEMMA Shapes == IInv /\ [Next]_vars => Shape
<1> USE RunStateAssumption
<1> SUFFICES ASSUME IInv, [Next]_vars PROVE Shape
  OBVIOUS
<1>0. Formed /\ TypeOK /\ CallsLeaveTraces /\ HandlesAreTrue /\ \A c \in Callers : Taker(c) \in Callers
  BY TypeForms DEF IInv, TypeOK, Taker
<1>a. \A f, x, v : f \in [Callers -> {f[y] : y \in Callers}] /\ x \in Callers
        => Becomes(f, [f EXCEPT ![x] = v], x, v)
  BY DEF Becomes
<1>b. /\ st \in [Callers -> {st[y] : y \in Callers}] /\ home \in [Callers -> {home[y] : y \in Callers}]
      /\ call \in [Callers -> {call[y] : y \in Callers}] /\ waits \in [Callers -> {waits[y] : y \in Callers}]
      /\ work \in [Callers -> {work[y] : y \in Callers}] /\ done \in [Callers -> {done[y] : y \in Callers}]
  BY <1>0 DEF TypeOK
<1>c. ASSUME NEW c \in Callers, NEW x, NEW v, Ask(c, x, v)
      PROVE  Becomes(home, home', c, Taker(c)) /\ Becomes(call, call', c, x) /\ Becomes(waits, waits', c, v)
  BY <1>a, <1>b, <1>c DEF Ask
<1>d. ASSUME NEW c \in Callers, NEW p, NEW s, Begin(c, p, s)
      PROVE  Becomes(st, st', Taker(c), s) /\ Becomes(work, work', c, p)
  BY <1>0, <1>a, <1>b, <1>d DEF Begin
<1>1. ASSUME NEW c \in Callers, GetInLine(c) PROVE Asks(c)
  <2>1. PICK x \in {"prompt in line", "shell in line"} : Ask(c, x, None)
    BY <1>1 DEF GetInLine
  <2> QED
    BY <1>1, <1>c, <2>1 DEF GetInLine, Asks, Unbegun
<1>2. ASSUME NEW c \in Callers, StartRun(c) PROVE Begins(c)
  BY <1>2, <1>c, <1>d DEF StartRun, Prompts, Unbegun, Begins, BeginsAs
<1>3. ASSUME NEW c \in Callers, QueueRun(c) PROVE Begins(c)
  BY <1>3, <1>c, <1>d DEF QueueRun, Prompts, Unbegun, Begins, BeginsAs
<1>4. ASSUME NEW c \in Callers, JoinRun(c) PROVE Asks(c)
  <2>1. st[Taker(c)].run \in Callers /\ work[st[Taker(c)].run] # "none"
    <3>1. st[Taker(c)].run \in Callers
      BY <1>0, <1>4 DEF JoinRun, Formed
    <3>2. work[st[Taker(c)].run] \in {"running", "pending"}
      BY <1>0, <1>4 DEF JoinRun, HandlesAreTrue, Truthful
    <3> QED
      BY <3>1, <3>2
  <2>2. Becomes(waits, waits', c, st[Taker(c)].run) /\ Becomes(call, call', c, "prompt")
        /\ Becomes(home, home', c, Taker(c))
    BY <1>4, <1>c DEF JoinRun
  <2>3. call'[c] = "prompt"
    BY <2>2 DEF Becomes
  <2> QED
    BY <1>4, <2>1, <2>2, <2>3 DEF JoinRun, Asks, Prompts, Unbegun
<1>5. ASSUME NEW c \in Callers, StartShell(c) PROVE Asks(c)
  BY <1>5, <1>c DEF StartShell, Shells, Unbegun, Asks
<1>6. ASSUME NEW c \in Callers, ShellStarts(c) PROVE Begins(c)
  <2>1. call[c] = "claiming" /\ home[c] # None
    BY <1>0, <1>6 DEF ShellStarts, CallsLeaveTraces
  <2>2. st[Taker(c)] = Idle
    BY <2>1 DEF Taker, IInv, ClaimsAreAlone
  <2> QED
    BY <1>6, <1>c, <1>d, <2>1, <2>2 DEF ShellStarts, Unbegun, Begins, BeginsAs
<1>7. ASSUME NEW c \in Callers, Busy(c) PROVE Asks(c)
  BY <1>7, <1>c DEF Busy, Shells, Unbegun, Asks
<1>8. ASSUME NEW c \in Callers, GiveUp(c) PROVE Asks(c)
  BY <1>8, <1>c DEF GiveUp, Unbegun, Asks
<1>9. ASSUME NEW c \in Callers, Announce(c) PROVE Still
  BY <1>9 DEF Announce, Still
<1>10. ASSUME NEW c \in Callers, ShellReady(c) PROVE Goes(c)
  BY <1>10, <1>a, <1>b DEF ShellReady, Goes
<1>11. ASSUME NEW c \in Callers, CallerGone(c) PROVE Goes(c)
  BY <1>11, <1>a, <1>b DEF CallerGone, Goes
<1>e. ASSUME NEW c \in Callers, Settle(c)
      PROVE  Becomes(work, work', c, "ended") /\ done'[c] # "open" /\ Becomes(done, done', c, done'[c])
  <2>1. PICK o \in {"value", "cancelled"} : done' = [done EXCEPT ![c] = o]
    BY <1>e DEF Settle
  <2>2. Becomes(done, done', c, o)
    BY <1>a, <1>b, <2>1
  <2>3. done'[c] = o
    BY <2>2 DEF Becomes
  <2> QED
    BY <1>a, <1>b, <1>e, <2>2, <2>3 DEF Settle
<1>12. ASSUME NEW c \in Callers, FinishRun(c) \/ FinishShell(c) PROVE Goes(c) \/ Idles(c)
  <2>1. /\ home[c] \in Callers /\ work[c] \in {"running", "stopping"}
        /\ UNCHANGED <<calls, stop>>
        /\ \/ /\ c \in {st[home[c]].shell, st[home[c]].run}
              /\ st[home[c]].tag \in {"Running", "Shell"} /\ LastOfRunner(c)
           \/ ~Held(c) /\ LetGoBefore(c)
    BY <1>12, Ending
  <2>2. CASE ~Held(c) /\ LetGoBefore(c)
    BY <1>e, <2>1, <2>2 DEF LetGoBefore, Goes
  <2>3. CASE /\ c \in {st[home[c]].shell, st[home[c]].run}
             /\ st[home[c]].tag \in {"Running", "Shell"} /\ LastOfRunner(c)
    BY <1>a, <1>b, <2>1, <2>3 DEF LastOfRunner, Idles
  <2> QED
    BY <2>1, <2>2, <2>3
<1>13. ASSUME NEW c \in Callers, IdleLands(c) PROVE Goes(c)
  <2>1. work[c] = "idling" /\ Settle(c) /\ UNCHANGED <<st, calls, stop>>
    BY <1>13 DEF IdleLands
  <2>2. ~Held(c)
    BY <1>0, <2>1 DEF Held, HandlesAreTrue, Truthful, Formed
  <2> QED
    BY <1>e, <2>1, <2>2 DEF Goes
<1>14. ASSUME NEW c \in Callers, HandOver(c) PROVE \E w \in Callers : HandsOver(c, w)
  <2>1. PICK w \in Callers :
          /\ work[c] \in {"running", "stopping"}
          /\ st[home[c]] = ShellThenRun(c, w)
          /\ st' = [st EXCEPT ![home[c]] = Running(w)]
          /\ \E o \in {"value", "cancelled"} : done' = [done EXCEPT ![c] = o]
          /\ work' = [work EXCEPT ![c] = "ended", ![w] = "running"]
          /\ UNCHANGED <<calls, stop>>
    BY <1>14 DEF HandOver
  <2>2. home[c] \in Callers
    <3>1. ~Unbegun(c)
      BY <1>0, <2>1 DEF CallsLeaveTraces
    <3>2. home[c] # None
      BY <1>0, <3>1 DEF CallsLeaveTraces, Unbegun
    <3> QED
      BY <1>0, <3>2 DEF TypeOK
  <2>3. c # w
    <3>1. st[home[c]].tag = "ShellThenRun" /\ st[home[c]].run = w /\ st[home[c]].shell = c
      BY <2>1 DEF ShellThenRun
    <3> QED
      BY <1>0, <2>2, <3>1 DEF HandlesAreTrue, Truthful
  <2>4. PICK o \in {"value", "cancelled"} : done' = [done EXCEPT ![c] = o]
    BY <2>1
  <2>5. Becomes(done, done', c, o) /\ Becomes(st, st', home[c], Running(w))
    BY <1>a, <1>b, <2>1, <2>2, <2>4
  <2>6. done'[c] = o
    BY <2>5 DEF Becomes
  <2>7. /\ work'[c] = "ended" /\ work'[w] = "running"
        /\ \A v \in Callers : v \notin {c, w} => work'[v] = work[v]
    <3>1. work' = [work EXCEPT ![c] = "ended", ![w] = "running"] /\ DOMAIN work = Callers
      BY <1>0, <2>1 DEF TypeOK
    <3> QED
      BY <2>3, <3>1
  <2> QED
    BY <2>1, <2>2, <2>3, <2>5, <2>6, <2>7 DEF HandsOver
<1>f. /\ stop \in [Cancellers -> [phase : {stop[k].phase : k \in Cancellers}, runner : Callers \cup {None},
                                  fiber : Callers \cup {None}, run : Callers \cup {None}]]
  BY <1>0 DEF TypeOK
<1>g. ASSUME NEW k \in Cancellers, NEW p, stop' = [stop EXCEPT ![k].phase = p]
      PROVE  /\ \A j \in Cancellers : j # k => stop'[j] = stop[j]
             /\ SameTargets(k) /\ stop'[k].phase = p
  BY <1>f, <1>g DEF SameTargets
<1>15. ASSUME NEW k \in Cancellers, NothingToCancel(k) PROVE Concludes(k)
  BY <1>15, <1>g DEF NothingToCancel, Concludes
<1>16. ASSUME NEW k \in Cancellers, Cancel(k) PROVE Takes(k)
  <2>1. /\ current \in Callers /\ st[current] # Idle
        /\ Becomes(st, st', current, Idle) /\ UNCHANGED <<calls, done>> /\ stop[k].phase = "none"
    BY <1>16, <1>a, <1>b DEF Cancel, Occupied
  <2>2. st[current].tag \in {"Running", "Shell", "ShellThenRun"}
    BY <1>0, <2>1 DEF Formed
  <2>3. CASE st[current].tag = "Running"
    <3>1. /\ stop' = [stop EXCEPT ![k] = [phase |-> "fiber", runner |-> current,
                                          fiber |-> st[current].run, run |-> st[current].run]]
          /\ work' = [work EXCEPT ![st[current].run] = "stopping"] /\ st[current].run \in Callers
      BY <1>0, <1>16, <2>1, <2>3 DEF Cancel, Formed
    <3>2. Becomes(work, work', st[current].run, "stopping")
      BY <1>a, <1>b, <3>1
    <3> QED
      BY <1>f, <2>1, <2>3, <3>1, <3>2 DEF Takes
  <2>4. CASE st[current].tag # "Running"
    <3>1. /\ stop' = [stop EXCEPT ![k] = [phase |-> "latch", runner |-> current,
                                          fiber |-> st[current].shell, run |-> st[current].run]]
          /\ UNCHANGED work
      BY <1>16, <2>1, <2>4 DEF Cancel
    <3> QED
      BY <1>f, <2>1, <2>2, <2>4, <3>1 DEF Takes
  <2> QED
    BY <2>3, <2>4
<1>17. ASSUME NEW k \in Cancellers, InterruptShell(k) PROVE Interrupts(k)
  <2>1. work[stop[k].fiber] = "running" => stop[k].fiber \in Callers
    <3>1. Stopping(k)
      BY <1>17 DEF InterruptShell, Stopping
    <3> QED
      BY <1>f, <3>1 DEF IInv, StopsAreReal
  <2> QED
    BY <1>17, <1>a, <1>b, <1>g, <2>1 DEF InterruptShell, Interrupts
<1>18. ASSUME NEW k \in Cancellers, CancelDone(k) PROVE Tells(k)
  <2>1. /\ stop[k].phase = "fiber" /\ work[stop[k].fiber] = "ended" /\ UNCHANGED <<st, calls>>
        /\ stop' = [stop EXCEPT ![k].phase = "check"] /\ done' = Failed(k)
        /\ work' = IF stop[k].run = None THEN work ELSE [work EXCEPT ![stop[k].run] = "ended"]
    BY <1>18 DEF CancelDone
  <2>2. ASSUME NEW w \in Callers
        PROVE  IF w = stop[k].run
               THEN /\ work'[w] = "ended" /\ done'[w] # "open"
                    /\ done[w] # "open" => done'[w] = done[w]
               ELSE work'[w] = work[w] /\ done'[w] = done[w]
    BY <1>b, <2>1 DEF Failed
  <2> QED
    BY <1>g, <2>1, <2>2 DEF Tells
<1>19. ASSUME NEW k \in Cancellers, IdleIfCurrent(k) PROVE Concludes(k)
  <2>1. /\ stop[k].phase = "check" /\ UNCHANGED <<st, calls, work, done>>
        /\ \E p \in {"idling", "done"} : stop' = [stop EXCEPT ![k].phase = p]
    BY <1>19 DEF IdleIfCurrent
  <2> QED
    BY <1>g, <2>1 DEF Concludes
<1>20. ASSUME NEW k \in Cancellers, CancelLands(k) PROVE Concludes(k)
  BY <1>20, <1>g DEF CancelLands, Concludes
<1>21. UNCHANGED vars => Still
  BY DEF vars, Still
<1> HIDE DEF Shape
<1>22. CASE \E c \in Callers :
       \/ GetInLine(c) \/ GiveUp(c)
       \/ StartRun(c) \/ QueueRun(c) \/ JoinRun(c) \/ StartShell(c) \/ ShellStarts(c) \/ Busy(c)
       \/ Announce(c) \/ ShellReady(c) \/ CallerGone(c)
       \/ FinishRun(c) \/ FinishShell(c) \/ HandOver(c) \/ IdleLands(c)
  <2>1. Still \/ (\E c \in Callers : Asks(c) \/ Begins(c) \/ Goes(c) \/ Idles(c))
              \/ \E s, w \in Callers : HandsOver(s, w)
    BY <1>1, <1>2, <1>3, <1>4, <1>5, <1>6, <1>7, <1>8, <1>9, <1>10, <1>11, <1>12,
       <1>13, <1>14, <1>22
  <2> QED
    BY <2>1 DEF Shape
<1>23. CASE \E k \in Cancellers :
       \/ NothingToCancel(k) \/ Cancel(k) \/ InterruptShell(k)
       \/ CancelDone(k) \/ IdleIfCurrent(k) \/ CancelLands(k)
  <2>1. \E k \in Cancellers : Concludes(k) \/ Takes(k) \/ Interrupts(k) \/ Tells(k)
    BY <1>15, <1>16, <1>17, <1>18, <1>19, <1>20, <1>23
  <2> QED
    BY <2>1 DEF Shape
<1>24. Next \/ UNCHANGED vars
  OBVIOUS
<1>25. CASE UNCHANGED vars
  BY <1>21, <1>25 DEF Shape
<1> QED
  BY <1>22, <1>23, <1>24, <1>25 DEF Next

(* What the invariant says of a call, of a handle and of a cancellation.    *)
Known ==
  /\ \A c \in Callers : Taker(c) \in Callers
  /\ \A c \in Callers : Unbegun(c) =>
       work[c] = "none" /\ done[c] = "open" /\ waits[c] = None /\ ~Held(c) /\ ~Condemned(c)
  /\ \A w \in Callers : work[w] # "none" => home[w] \in Callers /\ ~Unbegun(w)
  /\ \A r, w \in Callers : w \in {st[r].shell, st[r].run} =>
       home[w] = r /\ done[w] = "open" /\ work[w] \in {"pending", "starting", "running", "stopping"}
  /\ \A k \in Cancellers : stop[k].run \in Callers \cup {None}
  /\ \A k \in Cancellers : Stopping(k) => stop[k].fiber \in Callers

LEMMA ThusKnown == IInv => Known
<1> USE RunStateAssumption
<1> SUFFICES ASSUME IInv PROVE Known
  OBVIOUS
<1>0. Formed /\ TypeOK
  BY TypeForms DEF IInv
<1>1. \A c \in Callers : Taker(c) \in Callers
  BY <1>0 DEF TypeOK, Taker
<1>2. \A w \in Callers : work[w] # "none" => home[w] \in Callers /\ ~Unbegun(w)
  <2> SUFFICES ASSUME NEW w \in Callers, work[w] # "none" PROVE home[w] \in Callers /\ ~Unbegun(w)
    OBVIOUS
  <2>1. ~Unbegun(w)
    BY DEF IInv, CallsLeaveTraces
  <2>2. home[w] # None
    BY <2>1 DEF IInv, CallsLeaveTraces, Unbegun
  <2> QED
    BY <1>0, <2>1, <2>2 DEF TypeOK
<1>3. \A r, w \in Callers : w \in {st[r].shell, st[r].run} =>
        home[w] = r /\ done[w] = "open" /\ work[w] \in {"pending", "starting", "running", "stopping"}
  BY <1>0 DEF IInv, HandlesAreTrue, Truthful, Formed
<1>4. stop \in [Cancellers -> Stops]
  BY <1>0 DEF TypeOK, Stops
<1>5. \A k \in Cancellers : stop[k].run \in Callers \cup {None} /\ stop[k].fiber \in Callers \cup {None}
  BY <1>4 DEF Stops
<1>6. \A k \in Cancellers : Stopping(k) => stop[k].fiber # None
  BY DEF IInv, StopsAreReal
<1>7. ASSUME NEW c \in Callers, Unbegun(c)
      PROVE  work[c] = "none" /\ done[c] = "open" /\ waits[c] = None /\ ~Held(c) /\ ~Condemned(c)
  <2>1. work[c] = "none" /\ done[c] = "open" /\ waits[c] = None
    BY <1>7 DEF IInv, CallsLeaveTraces
  <2>2. ~Held(c)
    BY <1>3, <2>1 DEF Held
  <2>3. ASSUME NEW k \in Cancellers, Stopping(k) PROVE c # stop[k].fiber /\ c # stop[k].run
    <3>1. stop[k].phase \in {"latch", "fiber", "check"}
      BY <2>3 DEF Stopping
    <3>2. c # stop[k].fiber
      BY <2>1, <2>3, <3>1 DEF IInv, StopsAreReal
    <3> QED
      BY <2>1, <2>3, <3>2 DEF IInv, StopsAreReal
  <2> QED
    BY <2>1, <2>2, <2>3 DEF Condemned
<1> QED
  BY <1>1, <1>2, <1>3, <1>5, <1>6, <1>7 DEF Known

(* A runner whose work is not touched stays truthful.                       *)
LEMMA StaysTruthful ==
  ASSUME Formed, NEW r \in Callers, Truthful(r), st'[r] = st[r],
         \A w \in Callers : w \in {st[r].shell, st[r].run} =>
           /\ home'[w] = home[w] /\ call'[w] = call[w] /\ done'[w] = done[w]
           /\ \/ work'[w] = work[w]
              \/ w # st[r].run /\ work'[w] \in {"starting", "running", "stopping"}
  PROVE  Truthful(r)'
<1>1. CASE st[r].tag = "Idle"
  BY <1>1 DEF Truthful
<1>2. CASE st[r].tag = "Running"
  BY <1>2 DEF Truthful, Formed
<1>3. CASE st[r].tag = "Shell"
  BY <1>3 DEF Truthful, Formed
<1>4. CASE st[r].tag = "ShellThenRun"
  <2>1. st[r].shell \in Callers /\ st[r].run \in Callers
    BY <1>4 DEF Formed
  <2>2. st[r].shell # st[r].run
    BY <1>4 DEF Truthful
  <2>3. work'[st[r].run] = work[st[r].run]
    BY <2>1
  <2>4. work'[st[r].shell] \in {"starting", "running", "stopping"}
    BY <1>4, <2>1, <2>2 DEF Truthful
  <2> QED
    BY <1>4, <2>1, <2>3, <2>4 DEF Truthful
<1> QED
  BY <1>1, <1>2, <1>3, <1>4 DEF Formed

(* A runner's handles stay true.                                            *)
LEMMA HandlesStep == IInv /\ Shape => HandlesAreTrue'
<1> USE RunStateAssumption
<1> SUFFICES ASSUME IInv, Shape, NEW r \in Callers PROVE Truthful(r)'
  BY DEF HandlesAreTrue
<1>0. Formed /\ Known /\ Truthful(r)
  BY TypeForms, ThusKnown DEF IInv, HandlesAreTrue
<1>h. \A w \in Callers : w \in {st[r].shell, st[r].run} =>
        home[w] = r /\ done[w] = "open" /\ work[w] \in {"pending", "starting", "running", "stopping"}
  BY <1>0 DEF Known
<1>i. st'[r] = Idle => Truthful(r)'
  BY DEF Truthful, Idle
<1>1. CASE Still
  BY <1>0, <1>1, StaysTruthful DEF Still, calls
<1>2. ASSUME NEW c \in Callers, Asks(c) PROVE Truthful(r)'
  <2>1. \A w \in Callers : w \in {st[r].shell, st[r].run} => w # c
    <3>1. Unbegun(c)
      BY <1>2 DEF Asks
    <3>2. ~Held(c)
      BY <1>0, <3>1 DEF Known
    <3> QED
      BY <3>2 DEF Held
  <2>2. \A w \in Callers : w # c => home'[w] = home[w] /\ call'[w] = call[w]
    BY <1>2 DEF Asks, Becomes
  <2>3. UNCHANGED <<st, work, done>>
    BY <1>2 DEF Asks
  <2> QED
    BY <1>0, <2>1, <2>2, <2>3, StaysTruthful
<1>3. ASSUME NEW c \in Callers, Begins(c) PROVE Truthful(r)'
  <2>1. \A w \in Callers : w \in {st[r].shell, st[r].run} => w # c
    BY <1>0, <1>3 DEF Begins, Known, Held
  <2>2. /\ Taker(c) \in Callers /\ done[c] = "open" /\ done' = done
        /\ home'[c] = Taker(c) /\ \A y \in Callers : y # c => home'[y] = home[y]
    BY <1>0, <1>3 DEF Begins, Known, Becomes
  <2>3. ASSUME NEW s, NEW p, NEW x, BeginsAs(c, s, p, x), r # Taker(c) PROVE Truthful(r)'
    BY <1>0, <2>1, <2>2, <2>3, StaysTruthful DEF BeginsAs, Becomes
  <2>4. CASE BeginsAs(c, Running(c), "running", "prompt")
    <3>1. CASE r = Taker(c)
      BY <2>2, <2>4, <3>1 DEF BeginsAs, Becomes, Truthful, Running
    <3> QED
      BY <2>3, <2>4, <3>1
  <2>5. CASE st[Taker(c)].tag = "Shell" /\ BeginsAs(c, ShellThenRun(st[Taker(c)].shell, c), "pending", "prompt")
    <3>1. CASE r = Taker(c)
      <4> DEFINE s == st[r].shell
      <4>1. /\ s \in Callers /\ s # c /\ home[s] = r /\ call[s] = "shell" /\ done[s] = "open"
            /\ work[s] \in {"starting", "running", "stopping"}
        BY <1>0, <2>1, <2>5, <3>1 DEF Truthful, Formed
      <4>2. /\ home'[s] = r /\ call'[s] = "shell" /\ done'[s] = "open"
            /\ work'[s] \in {"starting", "running", "stopping"}
        BY <2>2, <2>5, <3>1, <4>1 DEF BeginsAs, Becomes
      <4>3. home'[c] = r /\ call'[c] = "prompt" /\ done'[c] = "open" /\ work'[c] = "pending"
        BY <2>2, <2>5, <3>1 DEF BeginsAs, Becomes
      <4>4. st'[r].tag = "ShellThenRun" /\ st'[r].shell = s /\ st'[r].run = c
        BY <2>5, <3>1 DEF BeginsAs, Becomes, ShellThenRun
      <4> QED
        BY <4>2, <4>3, <4>4 DEF Truthful
    <3> QED
      BY <2>3, <2>5, <3>1
  <2>6. CASE BeginsAs(c, Shell(c), "starting", "shell")
    <3>1. CASE r = Taker(c)
      BY <2>2, <2>6, <3>1 DEF BeginsAs, Becomes, Truthful, Shell
    <3> QED
      BY <2>3, <2>6, <3>1
  <2> QED
    BY <1>3, <2>4, <2>5, <2>6 DEF Begins
<1>4. ASSUME NEW c \in Callers, Goes(c) PROVE Truthful(r)'
  <2>1. UNCHANGED <<st, call, home>> /\ \A w \in Callers : w # c => work'[w] = work[w] /\ done'[w] = done[w]
    BY <1>4 DEF Goes, Becomes, calls
  <2>2. CASE ~Held(c)
    <3>1. c \notin {st[r].shell, st[r].run}
      BY <2>2 DEF Held
    <3> QED
      BY <1>0, <2>1, <3>1, StaysTruthful
  <2>3. CASE c # st[r].run /\ done'[c] = done[c] /\ work'[c] \in {"running", "stopping"}
    BY <1>0, <2>1, <2>3, StaysTruthful
  <2>4. CASE c = st[r].run /\ ~(~Held(c))
    <3>1. call[c] = "prompt" /\ work[c] # "starting"
      BY <1>0, <2>4 DEF Truthful, Formed
    <3> QED
      BY <1>4, <2>4, <3>1 DEF Goes
  <2> QED
    BY <1>4, <2>2, <2>3, <2>4 DEF Goes, Becomes
<1>5. ASSUME NEW c \in Callers, Idles(c) PROVE Truthful(r)'
  <2>1. CASE r = home[c]
    BY <1>5, <1>i, <2>1 DEF Idles, Becomes
  <2>2. CASE r # home[c]
    <3>1. c \notin {st[r].shell, st[r].run}
      BY <1>h, <2>2
    <3> QED
      BY <1>0, <1>5, <2>2, <3>1, StaysTruthful DEF Idles, Becomes, calls
  <2> QED
    BY <2>1, <2>2
<1>6. ASSUME NEW s \in Callers, NEW w \in Callers, HandsOver(s, w) PROVE Truthful(r)'
  <2>0. st[home[s]].tag = "ShellThenRun" /\ st[home[s]].run = w /\ st[home[s]].shell = s
    BY <1>6 DEF HandsOver, ShellThenRun
  <2>1. home[w] = home[s] /\ call[w] = "prompt" /\ done[w] = "open" /\ home[s] \in Callers
    BY <1>6, <2>0 DEF IInv, HandlesAreTrue, Truthful, HandsOver
  <2>2. CASE r = home[s]
    BY <1>6, <2>1, <2>2 DEF HandsOver, Becomes, calls, Truthful, Running
  <2>3. CASE r # home[s]
    <3>1. s \notin {st[r].shell, st[r].run} /\ w \notin {st[r].shell, st[r].run}
      BY <1>h, <2>1, <2>3
    <3> QED
      BY <1>0, <1>6, <2>3, <3>1, StaysTruthful DEF HandsOver, Becomes, calls
  <2> QED
    BY <2>2, <2>3
<1>7. ASSUME NEW k \in Cancellers, Concludes(k) PROVE Truthful(r)'
  BY <1>0, <1>7, StaysTruthful DEF Concludes, calls
<1>8. ASSUME NEW k \in Cancellers, Takes(k) PROVE Truthful(r)'
  <2>1. CASE r = current
    BY <1>8, <1>i, <2>1 DEF Takes, Becomes
  <2>2. CASE r # current
    <3>1. st[current].run \notin {st[r].shell, st[r].run} \/ st[current].tag # "Running"
      BY <1>0, <1>8, <1>h, <2>2 DEF Takes, Known, Formed
    <3> QED
      BY <1>0, <1>8, <2>2, <3>1, StaysTruthful DEF Takes, Becomes, calls
  <2> QED
    BY <2>1, <2>2
<1>9. ASSUME NEW k \in Cancellers, Interrupts(k) PROVE Truthful(r)'
  <2> DEFINE f == stop[k].fiber
  <2>1. Stopping(k)
    BY <1>9 DEF Interrupts, Stopping
  <2>2. f \in Callers /\ call[f] = "shell"
    <3>1. f \in Callers /\ stop[k].phase = "latch"
      BY <1>0, <1>9, <2>1 DEF Interrupts, Known
    <3> QED
      BY <2>1, <3>1 DEF IInv, StopsAreReal
  <2>3. f # st[r].run
    <3>1. st[r].run \in Callers => call[st[r].run] = "prompt"
      BY <1>0 DEF Truthful, Formed
    <3> QED
      BY <2>2, <3>1
  <2>4. /\ UNCHANGED <<st, home, call, done>>
        /\ \A w \in Callers : w # f => work'[w] = work[w]
        /\ work'[f] \in {"stopping", work[f]}
    BY <1>9 DEF Interrupts, Becomes, calls
  <2> QED
    BY <1>0, <2>3, <2>4, StaysTruthful
<1>10. ASSUME NEW k \in Cancellers, Tells(k) PROVE Truthful(r)'
  <2>1. Stopping(k)
    BY <1>10 DEF Tells, Stopping
  <2>2. stop[k].run \notin {st[r].shell, st[r].run} \/ stop[k].run = None
    BY <1>0, <2>1 DEF IInv, CondemnedIsReleased, Condemned
  <2>3. UNCHANGED <<st, home, call>>
        /\ \A w \in Callers : w # stop[k].run => work'[w] = work[w] /\ done'[w] = done[w]
    BY <1>10 DEF Tells, calls
  <2> QED
    BY <1>0, <2>2, <2>3, StaysTruthful
<1> QED
  BY <1>1, <1>2, <1>3, <1>4, <1>5, <1>6, <1>7, <1>8, <1>9, <1>10 DEF Shape

(* Work stays in its runner's hands until a cancellation takes it.          *)
LEMMA HeldStep == IInv /\ Shape => WorkIsHeld'
<1> USE RunStateAssumption
<1> DEFINE Has(w) == w \in {st[home[w]].shell, st[home[w]].run}
<1> DEFINE Alive(w) == work[w] \in {"pending", "starting", "running"}
<1> SUFFICES ASSUME IInv, Shape, NEW v \in Callers, Alive(v)' PROVE Has(v)' \/ Condemned(v)'
  BY DEF WorkIsHeld
<1>0. Formed /\ Known
  BY TypeForms, ThusKnown DEF IInv
<1>h. Alive(v) => Has(v) \/ Condemned(v)
  BY DEF IInv, WorkIsHeld
<1>s. stop' = stop => (Condemned(v)' <=> Condemned(v))
  BY DEF Condemned, Stopping
<1>k. ASSUME NEW k \in Cancellers, \A j \in Cancellers : j # k => stop'[j] = stop[j],
             stop'[k].fiber = stop[k].fiber, stop'[k].run = stop[k].run, Stopping(k)'
      PROVE  Condemned(v) => Condemned(v)'
  BY <1>k DEF Condemned, Stopping
<1>1. CASE Still
  BY <1>1, <1>h, <1>s DEF Still, calls
<1>2. ASSUME NEW c \in Callers, Asks(c) PROVE Has(v)' \/ Condemned(v)'
  <2>1. Unbegun(c) /\ UNCHANGED <<st, work, stop>> /\ \A w \in Callers : w # c => home'[w] = home[w]
    BY <1>2 DEF Asks, Becomes
  <2>2. c # v
    BY <1>0, <2>1 DEF Known
  <2> QED
    BY <1>h, <1>s, <2>1, <2>2
<1>3. ASSUME NEW c \in Callers, Begins(c) PROVE Has(v)' \/ Condemned(v)'
  <2>1. /\ Unbegun(c) /\ Taker(c) \in Callers /\ UNCHANGED stop /\ home'[c] = Taker(c)
        /\ \A w \in Callers : w # c => home'[w] = home[w]
    BY <1>0, <1>3 DEF Begins, Becomes, Known
  <2>2. PICK s : /\ st'[Taker(c)] = s /\ \A q \in Callers : q # Taker(c) => st'[q] = st[q]
                 /\ \A w \in Callers : w # c => work'[w] = work[w]
                 /\ c \in {s.shell, s.run}
                 /\ st[Taker(c)] = Idle \/ (st[Taker(c)].tag = "Shell" /\ s.shell = st[Taker(c)].shell)
    BY <1>3 DEF Begins, BeginsAs, Becomes, Running, Shell, ShellThenRun
  <2>3. CASE v = c
    BY <2>1, <2>2, <2>3
  <2>4. CASE v # c
    <3>1. Has(v) \/ Condemned(v)
      BY <1>h, <2>2, <2>4
    <3>2. Condemned(v) => Condemned(v)'
      BY <1>s, <2>1
    <3>3. CASE Has(v) /\ home[v] # Taker(c)
      <4>1. home[v] \in Callers
        BY <1>0, <2>2, <2>4 DEF Known
      <4> QED
        BY <2>1, <2>2, <2>4, <3>3, <4>1
    <3>4. CASE Has(v) /\ home[v] = Taker(c)
      <4>1. st[Taker(c)].tag = "Shell" /\ v = st[Taker(c)].shell
        BY <1>0, <2>1, <2>2, <3>4 DEF Formed, Idle
      <4> QED
        BY <2>1, <2>2, <2>4, <3>4, <4>1, <1>0 DEF Formed, Idle
    <3> QED
      BY <3>1, <3>2, <3>3, <3>4
  <2> QED
    BY <2>3, <2>4
<1>4. ASSUME NEW c \in Callers, Goes(c) PROVE Has(v)' \/ Condemned(v)'
  BY <1>4, <1>h, <1>s DEF Goes, Becomes, calls
<1>5. ASSUME NEW c \in Callers, Idles(c) PROVE Has(v)' \/ Condemned(v)'
  <2>1. v # c /\ work'[v] = work[v] /\ UNCHANGED <<home, stop>>
    BY <1>5 DEF Idles, Becomes, calls
  <2>2. home[v] \in Callers
    BY <1>0, <2>1 DEF Known
  <2>3. home[v] = home[c] => ~Has(v)
    BY <1>0, <1>5, <2>1 DEF Idles, Formed
  <2>4. home[v] # home[c] => st'[home[v]] = st[home[v]]
    BY <1>5, <2>2 DEF Idles, Becomes
  <2> QED
    BY <1>h, <1>s, <2>1, <2>3, <2>4
<1>6. ASSUME NEW s \in Callers, NEW w \in Callers, HandsOver(s, w) PROVE Has(v)' \/ Condemned(v)'
  <2>0. st[home[s]].tag = "ShellThenRun" /\ st[home[s]].run = w /\ st[home[s]].shell = s /\ home[s] \in Callers
    BY <1>6 DEF HandsOver, ShellThenRun
  <2>1. home[w] = home[s] /\ st'[home[s]].run = w /\ UNCHANGED <<home, stop>>
    BY <1>0, <1>6, <2>0 DEF HandsOver, Becomes, calls, Known, Running
  <2>2. CASE v = w
    BY <2>1, <2>2
  <2>3. CASE v # w
    <3>1. v # s /\ work'[v] = work[v]
      BY <1>6, <2>3 DEF HandsOver
    <3>2. home[v] \in Callers
      BY <1>0, <3>1 DEF Known
    <3>3. home[v] = home[s] => ~Has(v)
      BY <2>0, <2>3, <3>1
    <3>4. home[v] # home[s] => st'[home[v]] = st[home[v]]
      BY <1>6, <3>2 DEF HandsOver, Becomes
    <3> QED
      BY <1>h, <1>s, <2>1, <3>1, <3>3, <3>4
  <2> QED
    BY <2>2, <2>3
<1>7. ASSUME NEW k \in Cancellers, Concludes(k) PROVE Has(v)' \/ Condemned(v)'
  <2>1. UNCHANGED <<st, home, work>> /\ \A j \in Cancellers : j # k => stop'[j] = stop[j]
    BY <1>7 DEF Concludes, calls
  <2>2. Has(v) \/ Condemned(v)
    BY <1>h, <2>1
  <2>3. ASSUME Stopping(k), v \in {stop[k].fiber, stop[k].run} PROVE FALSE
    <3>1. stop[k].phase = "check"
      BY <1>7, <2>3 DEF Concludes, Stopping
    <3>2. work[v] = "ended"
      BY <2>3, <3>1 DEF IInv, StopsAreReal
    <3> QED
      BY <2>1, <3>2
  <2>4. Condemned(v) => Condemned(v)'
    BY <2>1, <2>3 DEF Condemned, Stopping
  <2> QED
    BY <2>1, <2>2, <2>4
<1>8. ASSUME NEW k \in Cancellers, Takes(k) PROVE Has(v)' \/ Condemned(v)'
  <2>1. UNCHANGED <<home>> /\ Stopping(k)' /\ (\A j \in Cancellers : j # k => stop'[j] = stop[j]) /\ stop[k].phase = "none"
    BY <1>8 DEF Takes, calls, Stopping
  <2>2. Condemned(v) => Condemned(v)'
    BY <2>1 DEF Condemned, Stopping
  <2>3. Alive(v)
    BY <1>8 DEF Takes, Becomes
  <2>4. home[v] \in Callers
    BY <1>0, <2>3 DEF Known
  <2>5. CASE home[v] = current /\ Has(v)
    <3>1. v \in {stop'[k].fiber, stop'[k].run}
      BY <1>0, <1>8, <2>5 DEF Takes, Formed
    <3> QED
      BY <2>1, <3>1 DEF Condemned
  <2>6. CASE home[v] # current /\ Has(v)
    BY <1>8, <2>1, <2>4, <2>6 DEF Takes, Becomes
  <2> QED
    BY <1>h, <2>2, <2>3, <2>5, <2>6
<1>9. ASSUME NEW k \in Cancellers, Interrupts(k) PROVE Has(v)' \/ Condemned(v)'
  <2>1. UNCHANGED <<st, home>> /\ Alive(v) /\ Stopping(k)'
    BY <1>9 DEF Interrupts, Becomes, calls, Stopping
  <2>2. Condemned(v) => Condemned(v)'
    BY <1>9, <1>k, <2>1 DEF Interrupts, SameTargets
  <2> QED
    BY <1>h, <2>1, <2>2
<1>10. ASSUME NEW k \in Cancellers, Tells(k) PROVE Has(v)' \/ Condemned(v)'
  <2>1. UNCHANGED <<st, home>> /\ work'[v] = work[v] /\ Stopping(k)'
    BY <1>10 DEF Tells, calls, Stopping
  <2>2. Condemned(v) => Condemned(v)'
    BY <1>10, <1>k, <2>1 DEF Tells, SameTargets
  <2> QED
    BY <1>h, <2>1, <2>2
<1> QED
  BY <1>1, <1>2, <1>3, <1>4, <1>5, <1>6, <1>7, <1>8, <1>9, <1>10 DEF Shape

(* No work ends untold.                                                     *)
LEMMA ToldStep == IInv /\ Shape => EndIsTold'
<1> SUFFICES ASSUME IInv, Shape, NEW v \in Callers, work'[v] = "ended" PROVE done'[v] # "open"
  BY DEF EndIsTold
<1>0. Known /\ (work[v] = "ended" => done[v] # "open")
  BY ThusKnown DEF IInv, EndIsTold
<1>1. CASE Still
  BY <1>0, <1>1 DEF Still
<1>2. ASSUME NEW c \in Callers, Asks(c) PROVE done'[v] # "open"
  BY <1>0, <1>2 DEF Asks
<1>3. ASSUME NEW c \in Callers, Begins(c) PROVE done'[v] # "open"
  BY <1>0, <1>3 DEF Begins, BeginsAs, Becomes
<1>4. ASSUME NEW c \in Callers, Goes(c) PROVE done'[v] # "open"
  BY <1>0, <1>4 DEF Goes, Becomes
<1>5. ASSUME NEW c \in Callers, Idles(c) PROVE done'[v] # "open"
  BY <1>0, <1>5 DEF Idles, Becomes
<1>6. ASSUME NEW s \in Callers, NEW w \in Callers, HandsOver(s, w) PROVE done'[v] # "open"
  BY <1>0, <1>6 DEF HandsOver, Becomes
<1>7. ASSUME NEW k \in Cancellers, Concludes(k) PROVE done'[v] # "open"
  BY <1>0, <1>7 DEF Concludes
<1>8. ASSUME NEW k \in Cancellers, Takes(k) PROVE done'[v] # "open"
  BY <1>0, <1>8 DEF Takes, Becomes
<1>9. ASSUME NEW k \in Cancellers, Interrupts(k) PROVE done'[v] # "open"
  BY <1>0, <1>9 DEF Interrupts, Becomes
<1>10. ASSUME NEW k \in Cancellers, Tells(k) PROVE done'[v] # "open"
  BY <1>0, <1>10 DEF Tells
<1> QED
  BY <1>1, <1>2, <1>3, <1>4, <1>5, <1>6, <1>7, <1>8, <1>9, <1>10 DEF Shape

(* Calls leave traces, and leave them in order.                             *)
LEMMA TracesStep == IInv /\ Shape => CallsLeaveTraces'
<1> USE RunStateAssumption
<1> DEFINE Trace(v) ==
      /\ Unbegun(v) => waits[v] = None /\ work[v] = "none" /\ done[v] = "open"
      /\ call[v] = "none" <=> home[v] = None
      /\ waits[v] # None => work[waits[v]] # "none"
      /\ work[v] = "starting" => call[v] = "shell"
<1> SUFFICES ASSUME IInv, Shape, NEW v \in Callers PROVE Trace(v)'
  BY DEF CallsLeaveTraces
<1>0. Formed /\ Known /\ Trace(v) /\ waits[v] \in Callers \cup {None}
  BY TypeForms, ThusKnown DEF IInv, CallsLeaveTraces, TypeOK
<1>b. ASSUME calls' = calls, Unbegun(v) => work'[v] = "none" /\ done'[v] = "open",
             \A w \in Callers : work[w] # "none" => work'[w] # "none",
             work'[v] = "starting" => work[v] = "starting"
      PROVE  Trace(v)'
  BY <1>0, <1>b DEF calls, Unbegun
<1>1. CASE Still
  BY <1>0, <1>1 DEF Still, calls, Unbegun
<1>2. ASSUME NEW c \in Callers, Asks(c) PROVE Trace(v)'
  <2>1. PICK x \in {"prompt in line", "shell in line", "claiming", "prompt", "refused"},
             w \in Callers \cup {None} :
          /\ call'[c] = x /\ waits'[c] = w /\ home'[c] = Taker(c) /\ Unbegun(c)
          /\ w # None => x = "prompt" /\ work[w] # "none"
          /\ UNCHANGED <<work, done>>
    BY <1>2 DEF Asks, Becomes
  <2>2. CASE v = c
    <3>1. work[c] = "none" /\ done[c] = "open" /\ Taker(c) \in Callers
      BY <1>0, <2>1 DEF Known
    <3>2. x # "none" /\ (Unbegun(c)' => x # "prompt")
      BY <2>1 DEF Unbegun
    <3> QED
      BY <2>1, <2>2, <3>1, <3>2
  <2>3. CASE v # c
    <3>1. call'[v] = call[v] /\ waits'[v] = waits[v] /\ home'[v] = home[v]
      BY <1>2, <2>3 DEF Asks, Becomes
    <3> QED
      BY <1>0, <2>1, <3>1 DEF Unbegun
  <2> QED
    BY <2>2, <2>3
<1>3. ASSUME NEW c \in Callers, Begins(c) PROVE Trace(v)'
  <2>1. /\ call'[c] \in {"prompt", "shell"} /\ waits'[c] = c /\ home'[c] = Taker(c) /\ Taker(c) \in Callers
        /\ UNCHANGED done /\ Unbegun(c)
    BY <1>0, <1>3 DEF Begins, BeginsAs, Becomes, Known
  <2>2. /\ work'[c] \in {"running", "pending", "starting"}
        /\ work'[c] = "starting" => call'[c] = "shell"
    BY <1>3 DEF Begins, BeginsAs, Becomes
  <2>3. \A w \in Callers : w # c => /\ call'[w] = call[w] /\ waits'[w] = waits[w]
                                    /\ home'[w] = home[w] /\ work'[w] = work[w]
    BY <1>3 DEF Begins, BeginsAs, Becomes
  <2>4. CASE v = c
    BY <2>1, <2>2, <2>4 DEF Unbegun
  <2>5. CASE v # c
    BY <1>0, <2>1, <2>2, <2>3, <2>5 DEF Unbegun
  <2> QED
    BY <2>4, <2>5
<1>4. ASSUME NEW c \in Callers, Goes(c) PROVE Trace(v)'
  BY <1>0, <1>4, <1>b DEF Goes, Becomes, Known
<1>5. ASSUME NEW c \in Callers, Idles(c) PROVE Trace(v)'
  BY <1>0, <1>5, <1>b DEF Idles, Becomes, Known
<1>6. ASSUME NEW s \in Callers, NEW w \in Callers, HandsOver(s, w) PROVE Trace(v)'
  <2>1. w \in {st[home[s]].shell, st[home[s]].run} /\ home[s] \in Callers
    BY <1>6 DEF HandsOver, ShellThenRun
  <2>2. work[s] # "none" /\ work[w] # "none"
    BY <1>0, <1>6, <2>1 DEF HandsOver, Known
  <2>3. v \in {s, w} => ~Unbegun(v)
    BY <1>0, <2>2 DEF Known
  <2> QED
    BY <1>0, <1>6, <1>b, <2>2, <2>3 DEF HandsOver, Becomes, Known
<1>7. ASSUME NEW k \in Cancellers, Concludes(k) PROVE Trace(v)'
  BY <1>0, <1>7, <1>b DEF Concludes, Known
<1>8. ASSUME NEW k \in Cancellers, Takes(k) PROVE Trace(v)'
  <2>1. st[current].tag = "Running" => st[current].run \in Callers /\ work[st[current].run] # "none"
    BY <1>0, <1>8 DEF Takes, Known, Formed
  <2>2. v = st[current].run => ~Unbegun(v)
    BY <1>0, <1>8 DEF Takes, Known, Formed
  <2> QED
    BY <1>0, <1>8, <1>b, <2>1, <2>2 DEF Takes, Becomes, Known
<1>9. ASSUME NEW k \in Cancellers, Interrupts(k) PROVE Trace(v)'
  BY <1>0, <1>9, <1>b DEF Interrupts, Becomes, Known
<1>10. ASSUME NEW k \in Cancellers, Tells(k) PROVE Trace(v)'
  <2>1. Stopping(k)
    BY <1>10 DEF Tells, Stopping
  <2>2. stop[k].run \in Callers => work[stop[k].run] # "none"
    BY <1>10, <2>1 DEF IInv, StopsAreReal, Tells
  <2>3. v = stop[k].run => ~Unbegun(v)
    BY <1>0, <2>2 DEF Known
  <2> QED
    BY <1>0, <1>10, <1>b, <2>2, <2>3 DEF Tells, Known
<1> QED
  BY <1>1, <1>2, <1>3, <1>4, <1>5, <1>6, <1>7, <1>8, <1>9, <1>10 DEF Shape

(* A lock is held by one, for a runner that is idle.                        *)
LEMMA ClaimsStep == IInv /\ Shape => ClaimsAreAlone'
<1> USE RunStateAssumption
<1> DEFINE Alone(v) == call[v] = "claiming" =>
             /\ st[home[v]] = Idle
             /\ \A d \in Callers : call[d] = "claiming" /\ home[d] = home[v] => d = v
<1> SUFFICES ASSUME IInv, Shape, NEW v \in Callers PROVE Alone(v)'
  BY DEF ClaimsAreAlone
<1>0. Formed /\ Known /\ (\A w \in Callers : Alone(w))
  BY TypeForms, ThusKnown DEF IInv, ClaimsAreAlone
<1>t. \A c \in Callers : call[c] # "none" => Taker(c) = home[c] /\ home[c] \in Callers
  <2>1. \A c \in Callers : call[c] # "none" => home[c] # None
    BY DEF IInv, CallsLeaveTraces
  <2> QED
    BY <2>1 DEF IInv, Taker, TypeOK
<1>b. ASSUME calls' = calls, \A q \in Callers : st[q] = Idle => st'[q] = Idle PROVE Alone(v)'
  BY <1>0, <1>b, <1>t DEF calls
<1>1. CASE Still
  BY <1>1, <1>b DEF Still
<1>2. ASSUME NEW c \in Callers, Asks(c) PROVE Alone(v)'
  <2>1. /\ UNCHANGED st /\ home'[c] = Taker(c)
        /\ \A w \in Callers : w # c => home'[w] = home[w] /\ call'[w] = call[w]
        /\ call'[c] = "claiming" => st[Taker(c)] = Idle /\ ~Claimed(Taker(c))
    BY <1>2 DEF Asks, Becomes
  <2>2. CASE call'[c] # "claiming"
    BY <1>0, <2>1, <2>2
  <2>3. CASE call'[c] = "claiming"
    <3>1. \A w \in Callers : w # c /\ call'[w] = "claiming" => home'[w] # Taker(c)
      BY <2>1, <2>3 DEF Claimed
    <3> QED
      BY <1>0, <2>1, <2>3, <3>1
  <2> QED
    BY <2>2, <2>3
<1>3. ASSUME NEW c \in Callers, Begins(c) PROVE Alone(v)'
  <2>1. /\ home'[c] = Taker(c) /\ call'[c] # "claiming"
        /\ \A w \in Callers : w # c => home'[w] = home[w] /\ call'[w] = call[w]
        /\ \A q \in Callers : q # Taker(c) => st'[q] = st[q]
    BY <1>3 DEF Begins, BeginsAs, Becomes
  <2>2. ASSUME call'[v] = "claiming" PROVE home[v] # Taker(c)
    <3>1. v # c /\ call[v] = "claiming" /\ st[home[v]] = Idle /\ home[v] \in Callers
      BY <1>0, <1>t, <2>1, <2>2
    <3>2. CASE ~Claimed(Taker(c))
      BY <3>1, <3>2 DEF Claimed
    <3>3. CASE st[Taker(c)].tag = "Shell"
      BY <3>1, <3>3 DEF Idle
    <3>4. CASE call[c] = "claiming"
      BY <1>0, <1>t, <3>1, <3>4
    <3> QED
      BY <1>3, <3>2, <3>3, <3>4 DEF Begins
  <2>3. call'[v] = "claiming" => home[v] \in Callers
    BY <1>t, <2>1
  <2> QED
    BY <1>0, <2>1, <2>2, <2>3
<1>4. ASSUME NEW c \in Callers, Goes(c) PROVE Alone(v)'
  BY <1>4, <1>b DEF Goes
<1>5. ASSUME NEW c \in Callers, Idles(c) PROVE Alone(v)'
  BY <1>5, <1>b DEF Idles, Becomes
<1>6. ASSUME NEW s \in Callers, NEW w \in Callers, HandsOver(s, w) PROVE Alone(v)'
  <2>1. st[home[s]] # Idle
    BY <1>6 DEF HandsOver, ShellThenRun, Idle
  <2> QED
    BY <1>6, <1>b, <2>1 DEF HandsOver, Becomes
<1>7. ASSUME NEW k \in Cancellers, Concludes(k) PROVE Alone(v)'
  BY <1>7, <1>b DEF Concludes
<1>8. ASSUME NEW k \in Cancellers, Takes(k) PROVE Alone(v)'
  BY <1>8, <1>b DEF Takes, Becomes
<1>9. ASSUME NEW k \in Cancellers, Interrupts(k) PROVE Alone(v)'
  BY <1>9, <1>b DEF Interrupts
<1>10. ASSUME NEW k \in Cancellers, Tells(k) PROVE Alone(v)'
  BY <1>10, <1>b DEF Tells
<1> QED
  BY <1>1, <1>2, <1>3, <1>4, <1>5, <1>6, <1>7, <1>8, <1>9, <1>10 DEF Shape

(* A cancellation's targets only move towards their end.                    *)
LEMMA StopsStep == IInv /\ Shape => StopsAreReal'
<1> USE RunStateAssumption
<1> DEFINE Real(f, w, p, q) ==
      /\ f # None /\ q # None
      /\ p = "latch" => call[f] = "shell" /\ work[f] \in {"starting", "running", "stopping", "ended"}
      /\ p = "fiber" => work[f] \in {"stopping", "ended"}
      /\ p = "check" => work[f] = "ended" /\ (w # None => work[w] = "ended")
      /\ w # None => w = f \/ work[w] \in {"pending", "ended"}
<1> DEFINE IsReal(j) == Stopping(j) => Real(stop[j].fiber, stop[j].run, stop[j].phase, stop[j].runner)
<1> SUFFICES ASSUME IInv, Shape, NEW j \in Cancellers PROVE IsReal(j)'
  BY DEF StopsAreReal
<1>0. Formed /\ Known /\ IsReal(j)
  BY TypeForms, ThusKnown DEF IInv, StopsAreReal
<1>k. Stopping(j) => /\ stop[j].fiber \in Callers /\ stop[j].run \in Callers \cup {None}
                     /\ ~Held(stop[j].fiber) /\ (stop[j].run # None => ~Held(stop[j].run))
  <2>1. Stopping(j) => stop[j].fiber \in Callers /\ stop[j].run \in Callers \cup {None}
    BY <1>0 DEF Known
  <2>2. \A w \in Callers : Condemned(w) => ~Held(w)
    BY DEF IInv, CondemnedIsReleased, Held
  <2> QED
    BY <2>1, <2>2 DEF Condemned
<1>p. Stopping(j) => stop[j].phase \in {"latch", "fiber", "check"}
  BY DEF Stopping
(* The work it is about goes on as work does. *)
<1>b. ASSUME stop'[j] = stop[j],
             \A v \in Callers : v \in {stop[j].fiber, stop[j].run} =>
               /\ call'[v] = call[v]
               /\ \/ work'[v] = work[v]
                  \/ work[v] = "starting" /\ work'[v] = "running"
                  \/ work[v] = "running" /\ work'[v] = "stopping"
                  \/ work'[v] = "ended"
      PROVE  IsReal(j)'
  <2> SUFFICES ASSUME Stopping(j) PROVE IsReal(j)'
    BY <1>b DEF Stopping
  <2> DEFINE f == stop[j].fiber
  <2> DEFINE w == stop[j].run
  <2>1. Real(f, w, stop[j].phase, stop[j].runner) /\ f \in Callers /\ w \in Callers \cup {None}
    BY <1>0, <1>k
  <2>2. call'[f] = call[f] /\ (work[f] = "ended" => work'[f] = "ended")
    BY <1>b, <2>1
  <2>3. work[f] \in {"stopping", "ended"} => work'[f] \in {"stopping", "ended"}
    BY <1>b, <2>1
  <2>4. work[f] \in {"starting", "running", "stopping", "ended"} =>
          work'[f] \in {"starting", "running", "stopping", "ended"}
    BY <1>b, <2>1
  <2>5. w # None => /\ work[w] = "ended" => work'[w] = "ended"
                    /\ work[w] = "pending" => work'[w] \in {"pending", "ended"}
    BY <1>b, <2>1
  <2> QED
    BY <1>b, <1>p, <2>1, <2>2, <2>3, <2>4, <2>5
<1>1. CASE Still
  BY <1>1, <1>b DEF Still, calls
<1>2. ASSUME NEW c \in Callers, Asks(c) PROVE IsReal(j)'
  <2>1. Unbegun(c) /\ UNCHANGED <<work, stop>> /\ \A v \in Callers : v # c => call'[v] = call[v]
    BY <1>2 DEF Asks, Becomes
  <2>2. Stopping(j) => c \notin {stop[j].fiber, stop[j].run}
    BY <1>0, <2>1 DEF Known, Condemned
  <2>3. CASE Stopping(j)
    BY <1>b, <2>1, <2>2, <2>3
  <2>4. CASE ~Stopping(j)
    BY <2>1, <2>4 DEF Stopping
  <2> QED
    BY <2>3, <2>4
<1>3. ASSUME NEW c \in Callers, Begins(c) PROVE IsReal(j)'
  <2>1. /\ Unbegun(c) /\ UNCHANGED stop
        /\ \A v \in Callers : v # c => call'[v] = call[v] /\ work'[v] = work[v]
    BY <1>3 DEF Begins, BeginsAs, Becomes
  <2>2. Stopping(j) => c \notin {stop[j].fiber, stop[j].run}
    BY <1>0, <2>1 DEF Known, Condemned
  <2>3. CASE Stopping(j)
    BY <1>b, <2>1, <2>2, <2>3
  <2>4. CASE ~Stopping(j)
    BY <2>1, <2>4 DEF Stopping
  <2> QED
    BY <2>3, <2>4
<1>4. ASSUME NEW c \in Callers, Goes(c) PROVE IsReal(j)'
  <2>1. stop' = stop /\ call' = call /\ \A v \in Callers : v # c => work'[v] = work[v]
    BY <1>4 DEF Goes, Becomes, calls
  <2>2. \/ work[c] = "starting" /\ work'[c] = "running"
        \/ work[c] = "running" /\ work'[c] = "stopping"
        \/ work'[c] = "ended"
    BY <1>4 DEF Goes, Becomes
  <2>3. \A v \in Callers : work'[v] = work[v] \/ v = c
    BY <2>1
  <2> QED
    BY <1>b, <2>1, <2>2, <2>3
<1>5. ASSUME NEW c \in Callers, Idles(c) PROVE IsReal(j)'
  <2>1. Stopping(j) => c \notin {stop[j].fiber, stop[j].run}
    BY <1>5, <1>k DEF Idles, Held
  <2>2. stop' = stop /\ call' = call /\ \A v \in Callers : v # c => work'[v] = work[v]
    BY <1>5 DEF Idles, Becomes, calls
  <2>3. CASE Stopping(j)
    BY <1>b, <2>1, <2>2, <2>3
  <2>4. CASE ~Stopping(j)
    BY <2>2, <2>4 DEF Stopping
  <2> QED
    BY <2>3, <2>4
<1>6. ASSUME NEW s \in Callers, NEW w \in Callers, HandsOver(s, w) PROVE IsReal(j)'
  <2>1. Held(s) /\ Held(w)
    BY <1>6 DEF HandsOver, Held, ShellThenRun
  <2>2. Stopping(j) => s \notin {stop[j].fiber, stop[j].run} /\ w \notin {stop[j].fiber, stop[j].run}
    BY <1>k, <2>1
  <2>3. stop' = stop /\ call' = call /\ \A v \in Callers : v \notin {s, w} => work'[v] = work[v]
    BY <1>6 DEF HandsOver, calls
  <2>4. CASE Stopping(j)
    BY <1>b, <2>2, <2>3, <2>4
  <2>5. CASE ~Stopping(j)
    BY <2>3, <2>5 DEF Stopping
  <2> QED
    BY <2>4, <2>5
<1>7. ASSUME NEW k \in Cancellers, Concludes(k) PROVE IsReal(j)'
  <2>1. CASE j = k
    <3>1. ~Stopping(k)'
      BY <1>7 DEF Concludes, Stopping
    <3> QED
      BY <2>1, <3>1
  <2>2. CASE j # k
    BY <1>7, <1>b, <2>2 DEF Concludes, calls
  <2> QED
    BY <2>1, <2>2
<1>8. ASSUME NEW k \in Cancellers, Takes(k) PROVE IsReal(j)'
  <2>1. current \in Callers /\ call' = call /\ stop'[k].runner = current /\ stop'[k].run = st[current].run
    BY <1>8 DEF Takes, calls
  <2>2. CASE j = k /\ st[current].tag = "Running"
    <3>1. st[current].run \in Callers /\ stop'[k].phase = "fiber" /\ stop'[k].fiber = st[current].run
          /\ work'[st[current].run] = "stopping"
      BY <1>0, <1>8, <2>1, <2>2 DEF Takes, Formed, Becomes
    <3> QED
      BY <2>1, <2>2, <3>1
  <2>3. CASE j = k /\ st[current].tag # "Running"
    <3>1. /\ st[current].tag \in {"Shell", "ShellThenRun"} /\ work' = work
          /\ stop'[k].phase = "latch" /\ stop'[k].fiber = st[current].shell
      BY <1>0, <1>8, <2>1, <2>3 DEF Takes, Formed
    <3>2. st[current].shell \in Callers /\ st[current].run \in Callers \cup {None}
      BY <1>0, <2>1, <3>1 DEF Formed
    <3>3. call[st[current].shell] = "shell" /\ work[st[current].shell] \in {"starting", "running", "stopping"}
      BY <2>1, <3>1 DEF IInv, HandlesAreTrue, Truthful
    <3>4. st[current].run # None => work[st[current].run] = "pending"
      BY <1>0, <2>1, <3>1 DEF IInv, HandlesAreTrue, Truthful, Formed
    <3> QED
      BY <2>1, <2>3, <3>1, <3>2, <3>3, <3>4
  <2>4. CASE j # k
    <3>1. stop'[j] = stop[j]
      BY <1>8, <2>4 DEF Takes
    <3>2. UNCHANGED work \/ /\ st[current].tag = "Running"
                            /\ \A v \in Callers : v # st[current].run => work'[v] = work[v]
      BY <1>8 DEF Takes, Becomes
    <3>3. Stopping(j) /\ st[current].tag = "Running" => st[current].run \notin {stop[j].fiber, stop[j].run}
      BY <1>0, <1>k, <2>1 DEF Held, Formed
    <3>4. CASE Stopping(j)
      BY <1>b, <2>1, <3>1, <3>2, <3>3, <3>4
    <3>5. CASE ~Stopping(j)
      BY <3>1, <3>5 DEF Stopping
    <3> QED
      BY <3>4, <3>5
  <2> QED
    BY <2>2, <2>3, <2>4
<1>9. ASSUME NEW k \in Cancellers, Interrupts(k) PROVE IsReal(j)'
  <2> DEFINE g == stop[k].fiber
  <2>1. Stopping(k) /\ g # None /\ stop[k].runner # None /\ work[g] \in {"starting", "running", "stopping", "ended"}
    BY <1>9 DEF Interrupts, IInv, StopsAreReal, Stopping
  <2>2. /\ call' = call /\ stop'[k].phase = "fiber" /\ SameTargets(k) /\ work[g] # "starting"
        /\ \A i \in Cancellers : i # k => stop'[i] = stop[i]
        /\ \/ work[g] = "running" /\ work'[g] = "stopping" /\ \A v \in Callers : v # g => work'[v] = work[v]
           \/ work[g] # "running" /\ UNCHANGED work
    BY <1>9 DEF Interrupts, Becomes, calls
  <2>3. CASE j = k
    <3>1. work'[g] \in {"stopping", "ended"}
      BY <2>1, <2>2
    <3>2. stop[k].run # None => stop[k].run = g \/ work[stop[k].run] \in {"pending", "ended"}
      BY <1>0, <2>1, <2>3
    <3>3. stop[k].run # None => stop[k].run = g \/ work'[stop[k].run] \in {"pending", "ended"}
      BY <1>k, <2>1, <2>2, <2>3, <3>2
    <3> QED
      BY <2>1, <2>2, <2>3, <3>1, <3>3 DEF SameTargets
  <2>4. CASE j # k
    <3>1. \A v \in Callers : work'[v] = work[v] \/ (work[v] = "running" /\ work'[v] = "stopping")
      BY <2>2
    <3> QED
      BY <1>b, <2>2, <2>4, <3>1
  <2> QED
    BY <2>3, <2>4
<1>10. ASSUME NEW k \in Cancellers, Tells(k) PROVE IsReal(j)'
  <2>1. /\ call' = call /\ stop'[k].phase = "check" /\ SameTargets(k) /\ work[stop[k].fiber] = "ended"
        /\ \A i \in Cancellers : i # k => stop'[i] = stop[i]
        /\ \A v \in Callers : work'[v] = work[v] \/ work'[v] = "ended"
        /\ stop[k].run \in Callers => work'[stop[k].run] = "ended"
    BY <1>10 DEF Tells, calls
  <2>2. Stopping(k)
    BY <1>10 DEF Tells, Stopping
  <2>3. CASE j = k
    BY <1>0, <1>k, <2>1, <2>2, <2>3 DEF SameTargets
  <2>4. CASE j # k
    BY <1>b, <2>1, <2>4
  <2> QED
    BY <2>3, <2>4
<1> QED
  BY <1>1, <1>2, <1>3, <1>4, <1>5, <1>6, <1>7, <1>8, <1>9, <1>10 DEF Shape

(* A cancellation takes work out of the runner's hands for good.            *)
LEMMA ReleasedStep == IInv /\ Shape => CondemnedIsReleased'
<1> USE RunStateAssumption
<1> SUFFICES ASSUME IInv, Shape,
                    NEW r \in Callers, NEW v \in {st'[r].shell, st'[r].run}, v # None
             PROVE  ~Condemned(v)'
  BY DEF CondemnedIsReleased
<1>0. Formed /\ Known
  BY TypeForms, ThusKnown DEF IInv
<1>h. v \in {st[r].shell, st[r].run} => ~Condemned(v)
  BY DEF IInv, CondemnedIsReleased
<1>s. stop' = stop => (Condemned(v)' <=> Condemned(v))
  BY DEF Condemned, Stopping
<1>k. ASSUME NEW k \in Cancellers, \A j \in Cancellers : j # k => stop'[j] = stop[j],
             SameTargets(k), Stopping(k)
      PROVE  Condemned(v)' => Condemned(v)
  BY <1>k DEF Condemned, Stopping, SameTargets
<1>1. CASE Still
  BY <1>1, <1>h, <1>s DEF Still
<1>2. ASSUME NEW c \in Callers, Asks(c) PROVE ~Condemned(v)'
  BY <1>2, <1>h, <1>s DEF Asks
<1>3. ASSUME NEW c \in Callers, Begins(c) PROVE ~Condemned(v)'
  <2>1. Unbegun(c) /\ UNCHANGED stop /\ ~Condemned(c)
    BY <1>0, <1>3 DEF Begins, Known
  <2>2. PICK s : /\ st'[Taker(c)] = s /\ \A q \in Callers : q # Taker(c) => st'[q] = st[q]
                 /\ {s.shell, s.run} \subseteq {c, None, st[Taker(c)].shell}
    BY <1>3 DEF Begins, BeginsAs, Becomes, Running, Shell, ShellThenRun
  <2>3. v = c \/ v \in {st[r].shell, st[r].run}
    BY <2>2
  <2> QED
    BY <1>h, <1>s, <2>1, <2>3
<1>4. ASSUME NEW c \in Callers, Goes(c) PROVE ~Condemned(v)'
  BY <1>4, <1>h, <1>s DEF Goes
<1>5. ASSUME NEW c \in Callers, Idles(c) PROVE ~Condemned(v)'
  BY <1>5, <1>h, <1>s DEF Idles, Becomes, Idle
<1>6. ASSUME NEW s \in Callers, NEW w \in Callers, HandsOver(s, w) PROVE ~Condemned(v)'
  BY <1>6, <1>h, <1>s DEF HandsOver, Becomes, Running, ShellThenRun
<1>7. ASSUME NEW k \in Cancellers, Concludes(k) PROVE ~Condemned(v)'
  <2>1. UNCHANGED st /\ ~Stopping(k)' /\ \A j \in Cancellers : j # k => stop'[j] = stop[j]
    BY <1>7 DEF Concludes, Stopping
  <2>2. Condemned(v)' => Condemned(v)
    BY <2>1 DEF Condemned, Stopping
  <2> QED
    BY <1>h, <2>1, <2>2
<1>8. ASSUME NEW k \in Cancellers, Takes(k) PROVE ~Condemned(v)'
  <2>1. /\ current \in Callers /\ st'[current] = Idle /\ \A q \in Callers : q # current => st'[q] = st[q]
        /\ \A j \in Cancellers : j # k => stop'[j] = stop[j]
        /\ stop'[k].run = st[current].run /\ stop'[k].fiber \in {st[current].run, st[current].shell}
    BY <1>8 DEF Takes, Becomes
  <2>2. r # current /\ v \in {st[r].shell, st[r].run}
    BY <2>1 DEF Idle
  <2>3. v \in Callers
    BY <1>0, <2>2 DEF Formed
  <2>4. v \notin {st[current].run, st[current].shell}
    BY <1>0, <2>1, <2>2, <2>3 DEF Known
  <2> QED
    BY <1>h, <2>1, <2>2, <2>4 DEF Condemned, Stopping
<1>9. ASSUME NEW k \in Cancellers, Interrupts(k) PROVE ~Condemned(v)'
  BY <1>9, <1>h, <1>k DEF Interrupts, Stopping
<1>10. ASSUME NEW k \in Cancellers, Tells(k) PROVE ~Condemned(v)'
  BY <1>10, <1>h, <1>k DEF Tells, Stopping
<1> QED
  BY <1>1, <1>2, <1>3, <1>4, <1>5, <1>6, <1>7, <1>8, <1>9, <1>10 DEF Shape

LEMMA Inductive == IInv /\ [Next]_vars => IInv'
BY Shapes, TypeStep, HandlesStep, HeldStep, ToldStep, TracesStep, ClaimsStep, StopsStep, ReleasedStep
   DEF IInv

THEOREM Invariance == Spec => []IInv
<1> QED
  BY Initially, Inductive, PTL DEF Spec

(* States, calls, works and cancellations are well formed.                  *)
THEOREM TypeCorrect == Spec => []TypeOK
<1>1. IInv => TypeOK
  BY DEF IInv
<1> QED
  BY <1>1, Invariance, PTL

(* A runner names only work that exists in the phase its state says, and    *)
(* knows all the work that runs for it and has not been told to stop.       *)
THEOREM RunnersAreTruthful == Spec => []RunnersKeepTheirWork
<1>1. IInv => RunnersKeepTheirWork
  BY DEF IInv, HandlesAreTrue, Truthful, WorkIsHeld, RunnersKeepTheirWork
<1> QED
  BY <1>1, Invariance, PTL

(* Whoever waits, waits for work that runs or will be started or answered.  *)
THEOREM NobodyForgotten == Spec => []NobodyIsForgotten
<1>1. ASSUME IInv PROVE NobodyIsForgotten
  <2> USE RunStateAssumption, <1>1
  <2>0. Formed
    BY TypeForms DEF IInv
  <2> SUFFICES ASSUME NEW c \in Callers, waits[c] # None, done[waits[c]] = "open"
      PROVE  \/ work[waits[c]] \in {"starting", "running", "stopping", "idling"}
             \/ /\ work[waits[c]] = "pending"
                /\ st[home[waits[c]]].run = waits[c] \/ Condemned(waits[c])
    BY DEF NobodyIsForgotten
  <2>1. waits[c] \in Callers /\ work[waits[c]] \notin {"none", "ended"}
    <3>1. waits[c] \in Callers
      BY DEF IInv, TypeOK
    <3> QED
      BY <3>1 DEF IInv, CallsLeaveTraces, EndIsTold
  <2>2. CASE work[waits[c]] = "pending"
    <3>1. home[waits[c]] \in Callers
      BY <2>1, <2>2, ThusKnown DEF Known
    <3>2. waits[c] # st[home[waits[c]]].shell
      BY <2>0, <2>1, <2>2, <3>1 DEF IInv, HandlesAreTrue, Truthful, Formed
    <3> QED
      BY <2>1, <2>2, <3>2 DEF IInv, WorkIsHeld
  <2> QED
    BY <2>1, <2>2 DEF IInv, TypeOK
<1> QED
  BY <1>1, Invariance, PTL

-----------------------------------------------------------------------------
(* One worker for the session.                                              *)

(* Whoever is told to stop is a runner's shell command, or what a           *)
(* cancellation waits for.                                                  *)
StoppingIsHeld ==
  \A w \in Callers : work[w] = "stopping" =>
    st[home[w]].shell = w \/ \E k \in Cancellers : Stopping(k) /\ stop[k].fiber = w

(* As long as nothing starts while a cancellation waits, the registered     *)
(* runner is the only one that works, none does while something is being    *)
(* cancelled, and one cancellation has something to stop at a time.         *)
OneAtATime ==
  ~overtaken =>
    /\ \A r \in Callers : st[r] # Idle => r = current
    /\ (\E k \in Cancellers : Stopping(k)) => \A r \in Callers : st[r] = Idle
    /\ \A k, j \in Cancellers : Stopping(k) /\ Stopping(j) => k = j

SomeoneIdles ==
  (\E w \in Callers : work[w] = "idling") \/ (\E k \in Cancellers : stop[k].phase = "idling")

(* "idle" is not on its way while a shell command runs. *)
NoIdleIsLate == overtaken \/ late \/ (SomeoneIdles => \A r \in Callers : st[r].tag # "Shell")

WorkerInv == IInv /\ StoppingIsHeld /\ OneAtATime /\ NoIdleIsLate /\ StatusIsHonest

LEMMA StoppingStep == IInv /\ StoppingIsHeld /\ Shape => StoppingIsHeld'
<1> USE RunStateAssumption
<1> DEFINE InHand(v) == st[home[v]].shell = v
<1> DEFINE Awaited(v) == \E k \in Cancellers : Stopping(k) /\ stop[k].fiber = v
<1> SUFFICES ASSUME IInv, StoppingIsHeld, Shape, NEW v \in Callers, work'[v] = "stopping"
             PROVE  InHand(v)' \/ Awaited(v)'
  BY DEF StoppingIsHeld
<1>0. Formed /\ Known
  BY TypeForms, ThusKnown DEF IInv
<1>h. work[v] = "stopping" => InHand(v) \/ Awaited(v)
  BY DEF StoppingIsHeld
<1>s. stop' = stop => (Awaited(v)' <=> Awaited(v))
  BY DEF Stopping
<1>1. CASE Still
  BY <1>1, <1>h, <1>s DEF Still, calls
<1>2. ASSUME NEW c \in Callers, Asks(c) PROVE InHand(v)' \/ Awaited(v)'
  <2>1. Unbegun(c) /\ UNCHANGED <<st, work, stop>> /\ \A w \in Callers : w # c => home'[w] = home[w]
    BY <1>2 DEF Asks, Becomes
  <2>2. c # v
    BY <1>0, <2>1 DEF Known
  <2> QED
    BY <1>h, <1>s, <2>1, <2>2
<1>3. ASSUME NEW c \in Callers, Begins(c) PROVE InHand(v)' \/ Awaited(v)'
  <2>1. /\ Taker(c) \in Callers /\ UNCHANGED stop /\ \A w \in Callers : w # c => home'[w] = home[w]
    BY <1>0, <1>3 DEF Begins, Becomes, Known
  <2>2. PICK s : /\ st'[Taker(c)] = s /\ \A q \in Callers : q # Taker(c) => st'[q] = st[q]
                 /\ \A w \in Callers : w # c => work'[w] = work[w]
                 /\ work'[c] # "stopping"
                 /\ st[Taker(c)] = Idle \/ s.shell = st[Taker(c)].shell
    BY <1>3 DEF Begins, BeginsAs, Becomes, Running, Shell, ShellThenRun
  <2>3. v # c /\ work[v] = "stopping" /\ home[v] \in Callers
    BY <1>0, <2>2 DEF Known
  <2>4. InHand(v) => InHand(v)'
    BY <1>0, <2>1, <2>2, <2>3 DEF Idle
  <2> QED
    BY <1>h, <1>s, <2>1, <2>3, <2>4
<1>4. ASSUME NEW c \in Callers, Goes(c) PROVE InHand(v)' \/ Awaited(v)'
  <2>1. UNCHANGED <<st, home, stop>>
    BY <1>4 DEF Goes, calls
  <2>2. CASE work[v] = "stopping"
    BY <1>h, <1>s, <2>1, <2>2
  <2>3. CASE work[v] # "stopping"
    <3>1. v = c /\ call[v] = "shell" /\ work[v] = "running"
      BY <1>4, <2>3 DEF Goes, Becomes
    <3>2. home[v] \in Callers
      BY <1>0, <3>1 DEF Known
    <3>3. st[home[v]].run # v
      <4>1. st[home[v]].run \in Callers => call[st[home[v]].run] = "prompt"
        BY <1>0, <3>2 DEF IInv, HandlesAreTrue, Truthful, Formed
      <4> QED
        BY <3>1, <4>1
    <3>4. Condemned(v) => Awaited(v)
      BY <3>1 DEF IInv, StopsAreReal, Condemned
    <3> QED
      BY <1>s, <2>1, <3>1, <3>3, <3>4 DEF IInv, WorkIsHeld
  <2> QED
    BY <2>2, <2>3
<1>5. ASSUME NEW c \in Callers, Idles(c) PROVE InHand(v)' \/ Awaited(v)'
  <2>1. v # c /\ work[v] = "stopping" /\ UNCHANGED <<home, stop>>
    BY <1>5 DEF Idles, Becomes, calls
  <2>2. home[v] \in Callers
    BY <1>0, <2>1 DEF Known
  <2>3. home[v] = home[c] => ~InHand(v)
    BY <1>0, <1>5, <2>1 DEF Idles, Formed
  <2>4. home[v] # home[c] => st'[home[v]] = st[home[v]]
    BY <1>5, <2>2 DEF Idles, Becomes
  <2> QED
    BY <1>h, <1>s, <2>1, <2>3, <2>4
<1>6. ASSUME NEW s \in Callers, NEW w \in Callers, HandsOver(s, w) PROVE InHand(v)' \/ Awaited(v)'
  <2>0. st[home[s]].shell = s /\ home[s] \in Callers
    BY <1>6 DEF HandsOver, ShellThenRun
  <2>1. v # s /\ work[v] = "stopping" /\ UNCHANGED <<home, stop>>
    BY <1>6 DEF HandsOver, Becomes, calls
  <2>2. home[v] \in Callers
    BY <1>0, <2>1 DEF Known
  <2>3. home[v] = home[s] => ~InHand(v)
    BY <2>0, <2>1
  <2>4. home[v] # home[s] => st'[home[v]] = st[home[v]]
    BY <1>6, <2>2 DEF HandsOver, Becomes
  <2> QED
    BY <1>h, <1>s, <2>1, <2>3, <2>4
<1>7. ASSUME NEW k \in Cancellers, Concludes(k) PROVE InHand(v)' \/ Awaited(v)'
  <2>1. /\ UNCHANGED <<st, home, work>> /\ stop[k].phase \in {"none", "check", "idling"}
        /\ \A j \in Cancellers : j # k => stop'[j] = stop[j]
    BY <1>7 DEF Concludes, calls
  <2>2. Stopping(k) => stop[k].fiber # v
    BY <2>1 DEF IInv, StopsAreReal, Stopping
  <2> QED
    BY <1>h, <2>1, <2>2 DEF Stopping
<1>8. ASSUME NEW k \in Cancellers, Takes(k) PROVE InHand(v)' \/ Awaited(v)'
  <2>1. /\ UNCHANGED <<home>> /\ Stopping(k)' /\ stop[k].phase = "none" /\ current \in Callers
        /\ \A j \in Cancellers : j # k => stop'[j] = stop[j]
        /\ \/ st[current].tag = "Running" /\ stop'[k].fiber = st[current].run
           \/ st[current].tag # "Running" /\ stop'[k].fiber = st[current].shell
    BY <1>8 DEF Takes, calls, Stopping
  <2>2. work[v] = "stopping" \/ stop'[k].fiber = v
    BY <1>8 DEF Takes, Becomes
  <2>3. Awaited(v) => Awaited(v)'
    BY <2>1 DEF Stopping
  <2>4. ASSUME InHand(v), work[v] = "stopping" PROVE InHand(v)' \/ Awaited(v)'
    <3>1. home[v] \in Callers
      BY <1>0, <2>4 DEF Known
    <3>2. CASE home[v] = current
      BY <1>0, <2>1, <2>4, <3>2 DEF Formed
    <3>3. CASE home[v] # current
      BY <1>8, <2>1, <2>4, <3>1, <3>3 DEF Takes, Becomes
    <3> QED
      BY <3>2, <3>3
  <2> QED
    BY <1>h, <2>1, <2>2, <2>3, <2>4
<1>9. ASSUME NEW k \in Cancellers, Interrupts(k) PROVE InHand(v)' \/ Awaited(v)'
  <2>1. /\ UNCHANGED <<st, home>> /\ Stopping(k)' /\ SameTargets(k)
        /\ \A j \in Cancellers : j # k => stop'[j] = stop[j]
        /\ work[v] = "stopping" \/ stop[k].fiber = v
    BY <1>9 DEF Interrupts, Becomes, calls, Stopping
  <2> QED
    BY <1>h, <2>1 DEF Stopping, SameTargets
<1>10. ASSUME NEW k \in Cancellers, Tells(k) PROVE InHand(v)' \/ Awaited(v)'
  <2>1. /\ UNCHANGED <<st, home>> /\ Stopping(k)' /\ SameTargets(k)
        /\ \A j \in Cancellers : j # k => stop'[j] = stop[j]
        /\ work[v] = "stopping"
    BY <1>10 DEF Tells, calls, Stopping
  <2> QED
    BY <1>h, <2>1 DEF Stopping, SameTargets
<1> QED
  BY <1>1, <1>2, <1>3, <1>4, <1>5, <1>6, <1>7, <1>8, <1>9, <1>10 DEF Shape

(* A call is taken by the runner that works, if one does. *)
LEMMA TakerIs ==
  ASSUME IInv, NEW c \in Callers, current' = IF call[c] = "none" THEN Taker(c) ELSE current
  PROVE  OneAtATime /\ ~overtaken => \A r \in Callers : st[r] # Idle => r = current'
<1>1. None \notin Callers /\ (call[c] = "none" => home[c] = None)
  BY RunStateAssumption DEF IInv, CallsLeaveTraces
<1> QED
  BY <1>1 DEF Taker, OneAtATime

(* Cancelling frees the registered runner and notes what it had. *)
LEMMA Cancelling ==
  ASSUME IInv, NEW k \in Cancellers, Cancel(k)
  PROVE  /\ current \in Callers /\ st[current] # Idle
         /\ Becomes(st, st', current, Idle) /\ UNCHANGED <<registry, overtaken, late>>
         /\ Stopping(k)'
         /\ \A j \in Cancellers : j # k => stop'[j] = stop[j]
<1>1. current \in Callers /\ st[current] # Idle /\ UNCHANGED <<registry, overtaken, late>>
      /\ st' = [st EXCEPT ![current] = Idle]
  BY DEF Cancel, Occupied
<1>2. Becomes(st, st', current, Idle)
  BY <1>1 DEF Becomes, IInv, TypeOK
<1>3. \E x : x.phase \in {"fiber", "latch"} /\ stop' = [stop EXCEPT ![k] = x]
  <2> DEFINE s == st[current]
             x(p, f) == [phase |-> p, runner |-> current, fiber |-> f, run |-> s.run]
  <2>1. stop' = [stop EXCEPT ![k] = x("fiber", s.run)] \/ stop' = [stop EXCEPT ![k] = x("latch", s.shell)]
    BY DEF Cancel
  <2>2. \A p, f : x(p, f).phase = p
    OBVIOUS
  <2> HIDE DEF x
  <2> QED
    BY <2>1, <2>2
<1>4. stop'[k].phase \in {"fiber", "latch"} /\ \A j \in Cancellers : j # k => stop'[j] = stop[j]
  BY <1>3 DEF IInv, TypeOK
<1> QED
  BY <1>1, <1>2, <1>4 DEF Stopping

(* One worker at a time. *)
LEMMA OneAtATimeStep == WorkerInv /\ [Next]_vars => OneAtATime'
<1> USE RunStateAssumption
<1> SUFFICES ASSUME WorkerInv, [Next]_vars, ~overtaken', ~overtaken => OneAtATime
             PROVE OneAtATime'
  BY DEF WorkerInv, OneAtATime
<1>0. IInv /\ TypeOK /\ Formed /\ OneAtATime
  BY TypeForms DEF WorkerInv, IInv
<1>a. ASSUME NEW c \in Callers, NEW phase, NEW s, NEW x, NEW v, Begin(c, phase, s), Ask(c, x, v), stop' = stop
      PROVE  OneAtATime'
  <2>1. /\ ~overtaken /\ st' = [st EXCEPT ![Taker(c)] = s] /\ current' = Taker(c)
        /\ \A k \in Cancellers : ~Stopping(k) /\ ~Stopping(k)'
    BY <1>a DEF Begin, Stopping
  <2>2. \A r \in Callers : st[r] # Idle => r = current'
    BY <1>0, <1>a, <2>1, TakerIs DEF Ask
  <2> QED
    BY <1>0, <2>1, <2>2 DEF OneAtATime, TypeOK
<1>b. ASSUME NEW c \in Callers, NEW x, NEW v, Ask(c, x, v), UNCHANGED <<st, stop, overtaken>>
      PROVE  OneAtATime'
  <2>1. \A r \in Callers : st[r] # Idle => r = current'
    BY <1>0, <1>b, TakerIs DEF Ask
  <2> QED
    BY <1>0, <1>b, <2>1 DEF OneAtATime, Stopping
<1>c. ASSUME UNCHANGED <<st, current, overtaken>>,
             \A k \in Cancellers : Stopping(k)' => Stopping(k)
      PROVE  OneAtATime'
  BY <1>0, <1>c DEF OneAtATime
<1>d. stop' = stop => \A k \in Cancellers : Stopping(k)' <=> Stopping(k)
  BY DEF Stopping
<1>e. ASSUME NEW k \in Cancellers, NEW p, stop' = [stop EXCEPT ![k].phase = p],
             p \in {"latch", "fiber", "check"} => Stopping(k)
      PROVE  \A j \in Cancellers : Stopping(j)' => Stopping(j)
  <2>1. stop \in [Cancellers -> Stops]
    BY <1>0 DEF TypeOK, Stops
  <2>2. stop'[k].phase = p /\ \A j \in Cancellers : j # k => stop'[j] = stop[j]
    BY <1>e, <2>1 DEF Stops
  <2> QED
    BY <1>e, <2>2 DEF Stopping
<1>f. ASSUME NEW k \in Cancellers, NEW p \in {"idling", "done"}, stop' = [stop EXCEPT ![k].phase = p]
      PROVE  \A j \in Cancellers : Stopping(j)' => Stopping(j)
  BY <1>e, <1>f
<1>1. ASSUME NEW c \in Callers, GetInLine(c) PROVE OneAtATime'
  BY <1>1, <1>b DEF GetInLine
<1>2. ASSUME NEW c \in Callers, StartRun(c) PROVE OneAtATime'
  BY <1>2, <1>a DEF StartRun
<1>3. ASSUME NEW c \in Callers, QueueRun(c) PROVE OneAtATime'
  BY <1>3, <1>a DEF QueueRun
<1>4. ASSUME NEW c \in Callers, JoinRun(c) PROVE OneAtATime'
  BY <1>4, <1>b DEF JoinRun
<1>5. ASSUME NEW c \in Callers, StartShell(c) PROVE OneAtATime'
  BY <1>5, <1>b DEF StartShell
<1>6. ASSUME NEW c \in Callers, ShellStarts(c) PROVE OneAtATime'
  BY <1>6, <1>a DEF ShellStarts
<1>7. ASSUME NEW c \in Callers, Busy(c) PROVE OneAtATime'
  BY <1>7, <1>b DEF Busy
<1>8. ASSUME NEW c \in Callers, GiveUp(c) PROVE OneAtATime'
  BY <1>8, <1>b DEF GiveUp
<1>9. ASSUME NEW c \in Callers, Announce(c) \/ ShellReady(c) \/ CallerGone(c) \/ IdleLands(c)
      PROVE  OneAtATime'
  BY <1>9, <1>c, <1>d DEF Announce, ShellReady, CallerGone, IdleLands, registry
<1>10. ASSUME NEW c \in Callers, FinishRun(c) \/ FinishShell(c) PROVE OneAtATime'
  <2>1. /\ UNCHANGED <<stop, overtaken>> /\ home[c] \in Callers
        /\ \/ st[home[c]].tag \in {"Running", "Shell"} /\ LastOfRunner(c)
           \/ LetGoBefore(c)
    BY <1>0, <1>10, Ending
  <2>2. CASE LetGoBefore(c)
    BY <1>c, <1>d, <2>1, <2>2 DEF LetGoBefore
  <2>3. CASE st[home[c]].tag \in {"Running", "Shell"} /\ LastOfRunner(c)
    <3>1. home[c] = current /\ st[home[c]] # Idle
      BY <1>0, <2>1, <2>3 DEF OneAtATime, Idle
    <3>2. \A r \in Callers : st'[r] = Idle
      BY <1>0, <2>1, <2>3, <3>1 DEF OneAtATime, TypeOK, LastOfRunner
    <3>3. \A k \in Cancellers : ~Stopping(k)
      BY <1>0, <2>1, <3>1 DEF OneAtATime
    <3> QED
      BY <1>d, <2>1, <3>2, <3>3 DEF OneAtATime
  <2> QED
    BY <2>1, <2>2, <2>3
<1>11. ASSUME NEW c \in Callers, HandOver(c) PROVE OneAtATime'
  <2>1. PICK v \in Callers :
          /\ st[home[c]] = ShellThenRun(c, v) /\ st' = [st EXCEPT ![home[c]] = Running(v)]
          /\ UNCHANGED <<current, stop, overtaken>> /\ work[c] \in {"running", "stopping"}
    BY <1>11 DEF HandOver, registry
  <2>2. home[c] \in Callers /\ st[home[c]] # Idle
    BY <1>0, <2>1, ThusKnown DEF Known, ShellThenRun, Idle
  <2>3. home[c] = current /\ \A r \in Callers : st'[r] # Idle => r = current
    BY <1>0, <2>1, <2>2 DEF OneAtATime, TypeOK
  <2>4. \A k \in Cancellers : ~Stopping(k)
    BY <1>0, <2>1, <2>2 DEF OneAtATime
  <2> QED
    BY <1>d, <2>1, <2>3, <2>4 DEF OneAtATime
<1>12. ASSUME NEW k \in Cancellers, NothingToCancel(k) PROVE OneAtATime'
  <2>1. \A j \in Cancellers : Stopping(j)' => Stopping(j)
    BY <1>12, <1>f DEF NothingToCancel
  <2> QED
    BY <1>12, <1>c, <2>1 DEF NothingToCancel, registry
<1>13. ASSUME NEW k \in Cancellers, Cancel(k) PROVE OneAtATime'
  <2>1. /\ current \in Callers /\ st[current] # Idle /\ UNCHANGED <<current, overtaken>>
        /\ st'[current] = Idle /\ \A r \in Callers : r # current => st'[r] = st[r]
        /\ \A j \in Cancellers : j # k => stop'[j] = stop[j]
    BY <1>0, <1>13, Cancelling DEF registry, Becomes
  <2>2. \A r \in Callers : st'[r] = Idle
    BY <1>0, <2>1 DEF OneAtATime
  <2>3. \A j \in Cancellers : Stopping(j)' => j = k
    BY <1>0, <2>1 DEF OneAtATime, Stopping
  <2> QED
    BY <2>2, <2>3 DEF OneAtATime
<1>14. ASSUME NEW k \in Cancellers, InterruptShell(k) PROVE OneAtATime'
  <2>1. Stopping(k)
    BY <1>14 DEF InterruptShell, Stopping
  <2> QED
    BY <1>14, <1>c, <1>e, <2>1 DEF InterruptShell, registry
<1>15. ASSUME NEW k \in Cancellers, CancelDone(k) PROVE OneAtATime'
  <2>1. Stopping(k)
    BY <1>15 DEF CancelDone, Stopping
  <2> QED
    BY <1>15, <1>c, <1>e, <2>1 DEF CancelDone, registry
<1>16. ASSUME NEW k \in Cancellers, IdleIfCurrent(k) PROVE OneAtATime'
  <2>1. Stopping(k) /\ UNCHANGED <<st, overtaken>>
    BY <1>16 DEF IdleIfCurrent, Stopping
  <2>2. \A r \in Callers : st[r] = Idle
    BY <1>0, <2>1 DEF OneAtATime
  <2>3. PICK p \in {"idling", "done"} : stop' = [stop EXCEPT ![k].phase = p]
    BY <1>16 DEF IdleIfCurrent
  <2>4. \A j \in Cancellers : Stopping(j)' => Stopping(j)
    BY <1>e, <2>1, <2>3
  <2> QED
    BY <1>0, <2>1, <2>2, <2>4 DEF OneAtATime
<1>17. ASSUME NEW k \in Cancellers, CancelLands(k) PROVE OneAtATime'
  <2>1. \A j \in Cancellers : Stopping(j)' => Stopping(j)
    BY <1>17, <1>f DEF CancelLands
  <2> QED
    BY <1>17, <1>c, <2>1 DEF CancelLands
<1>18. CASE UNCHANGED vars
  BY <1>18, <1>c, <1>d DEF vars, registry
<1> QED
  BY <1>1, <1>2, <1>3, <1>4, <1>5, <1>6, <1>7, <1>8, <1>9, <1>10, <1>11, <1>12,
     <1>13, <1>14, <1>15, <1>16, <1>17, <1>18
  DEF Next

Live == {w \in Callers : work[w] \in {"starting", "running", "stopping"}}

(* A fiber that is not over is its runner's worker, or a cancellation waits *)
(* for it.                                                                  *)
LEMMA LiveIsKnown ==
  ASSUME IInv, StoppingIsHeld, NEW w \in Live
  PROVE  \/ /\ home[w] \in Callers
            /\ \/ st[home[w]].tag \in {"Shell", "ShellThenRun"} /\ st[home[w]].shell = w
               \/ st[home[w]].tag = "Running" /\ st[home[w]].run = w
         \/ \E k \in Cancellers : Stopping(k) /\ stop[k].fiber = w
<1> USE RunStateAssumption
<1>1. w \in Callers /\ work[w] \in {"starting", "running", "stopping"}
  BY DEF Live
<1>0. Formed /\ home[w] \in Callers
  BY <1>1, TypeForms, ThusKnown DEF IInv, Known
<1>2. CASE Condemned(w)
  BY <1>1, <1>2 DEF IInv, StopsAreReal, Condemned
<1>3. CASE ~Condemned(w) /\ work[w] # "stopping"
  <2>1. w \in {st[home[w]].shell, st[home[w]].run}
    BY <1>1, <1>3 DEF IInv, WorkIsHeld
  <2>2. st[home[w]].tag = "ShellThenRun" => st[home[w]].run # w
    BY <1>0, <1>1 DEF IInv, HandlesAreTrue, Truthful
  <2> QED
    BY <1>0, <1>1, <2>1, <2>2 DEF Formed
<1>4. CASE ~Condemned(w) /\ work[w] = "stopping"
  BY <1>0, <1>1, <1>4 DEF StoppingIsHeld, Formed
<1> QED
  BY <1>2, <1>3, <1>4

(* No two fibers work for the session. *)
LEMMA OneFiber ==
  ASSUME WorkerInv, ~overtaken, NEW v \in Live, NEW w \in Live
  PROVE  v = w
<1>0. IInv /\ StoppingIsHeld /\ OneAtATime
  BY DEF WorkerInv
<1>1. CASE \E k \in Cancellers : Stopping(k)
  <2>1. \A r \in Callers : st[r].tag = "Idle"
    BY <1>0, <1>1 DEF OneAtATime, Idle
  <2>2. /\ \E k \in Cancellers : Stopping(k) /\ stop[k].fiber = v
        /\ \E k \in Cancellers : Stopping(k) /\ stop[k].fiber = w
    BY <1>0, <2>1, LiveIsKnown
  <2> QED
    BY <1>0, <2>2 DEF OneAtATime
<1>2. CASE ~ \E k \in Cancellers : Stopping(k)
  <2>1. /\ home[v] \in Callers /\ home[w] \in Callers
        /\ st[home[v]].tag # "Idle" /\ st[home[w]].tag # "Idle"
        /\ v = IF st[home[v]].tag = "Running" THEN st[home[v]].run ELSE st[home[v]].shell
        /\ w = IF st[home[w]].tag = "Running" THEN st[home[w]].run ELSE st[home[w]].shell
    BY <1>0, <1>2, LiveIsKnown
  <2>2. home[v] = current /\ home[w] = current
    BY <1>0, <2>1 DEF OneAtATime, Idle
  <2> QED
    BY <2>1, <2>2
<1> QED
  BY <1>1, <1>2

(* No "idle" comes late. *)
LEMMA NoIdleStep == WorkerInv /\ [Next]_vars => NoIdleIsLate'
<1> USE RunStateAssumption
<1> DEFINE NoShell == \A r \in Callers : st[r].tag # "Shell"
<1> SUFFICES ASSUME WorkerInv, [Next]_vars, ~overtaken', ~late',
                    ~overtaken /\ ~late /\ SomeoneIdles => NoShell, SomeoneIdles'
             PROVE  NoShell'
  BY DEF WorkerInv, NoIdleIsLate
<1>0. IInv /\ TypeOK /\ Formed /\ OneAtATime /\ Idle.tag # "Shell" /\ \A w \in Callers : Running(w).tag # "Shell"
  BY TypeForms DEF WorkerInv, IInv, Idle, Running
<1>a. ASSUME UNCHANGED <<overtaken, late>>, SomeoneIdles,
             \A r \in Callers : st'[r].tag = "Shell" => st[r].tag = "Shell"
      PROVE  NoShell'
  BY <1>a
<1>b. ASSUME UNCHANGED <<st, work, stop, overtaken, late>> PROVE NoShell'
  BY <1>b DEF SomeoneIdles
<1>c. ASSUME \A r \in Callers : st'[r] = Idle PROVE NoShell'
  BY <1>0, <1>c
<1>w. ASSUME UNCHANGED stop, \A w \in Callers : work'[w] = "idling" => work[w] = "idling"
      PROVE  SomeoneIdles
  BY <1>w DEF SomeoneIdles
<1>k. ASSUME NEW k \in Cancellers, NEW p, stop' = [stop EXCEPT ![k].phase = p]
      PROVE  stop'[k].phase = p /\ \A j \in Cancellers : j # k => stop'[j] = stop[j]
  <2>1. stop \in [Cancellers -> Stops]
    BY <1>0 DEF TypeOK, Stops
  <2> QED
    BY <1>k, <2>1 DEF Stops
<1>1. ASSUME NEW c \in Callers, GetInLine(c) \/ JoinRun(c) \/ StartShell(c) \/ Busy(c) \/ GiveUp(c)
      PROVE  NoShell'
  BY <1>1, <1>b DEF GetInLine, JoinRun, StartShell, Busy, GiveUp
<1>2. ASSUME NEW c \in Callers, NEW s, NEW p, p # "idling", s.tag # "Shell", Begin(c, p, s),
             UNCHANGED <<stop, late>>
      PROVE  NoShell'
  <2>1. /\ ~overtaken /\ st' = [st EXCEPT ![Taker(c)] = s] /\ work' = [work EXCEPT ![c] = p]
    BY <1>2 DEF Begin
  <2>2. SomeoneIdles
    BY <1>0, <1>2, <1>w, <2>1 DEF TypeOK
  <2>3. NoShell
    BY <1>2, <2>1, <2>2
  <2> QED
    BY <1>0, <1>2, <2>1, <2>3 DEF TypeOK
<1>3. ASSUME NEW c \in Callers, StartRun(c) PROVE NoShell'
  BY <1>0, <1>2, <1>3 DEF StartRun
<1>4. ASSUME NEW c \in Callers, QueueRun(c) PROVE NoShell'
  <2>1. ShellThenRun(st[Taker(c)].shell, c).tag # "Shell"
    BY DEF ShellThenRun
  <2> QED
    BY <1>2, <1>4, <2>1 DEF QueueRun
<1>5. ASSUME NEW c \in Callers, ShellStarts(c) PROVE NoShell'
  <2>1. /\ work' = [work EXCEPT ![c] = "starting"] /\ UNCHANGED stop
        /\ ~ \E w \in Callers : work[w] = "idling"
        /\ ~ \E k \in Cancellers : stop[k].phase = "idling"
    BY <1>5 DEF ShellStarts, Begin
  <2>2. \A w \in Callers : work'[w] # "idling"
    BY <1>0, <2>1 DEF TypeOK
  <2> QED
    BY <2>1, <2>2 DEF SomeoneIdles
<1>6. ASSUME NEW c \in Callers, Announce(c) PROVE NoShell'
  BY <1>6, <1>b DEF Announce
<1>7. ASSUME NEW c \in Callers, ShellReady(c) \/ CallerGone(c) PROVE NoShell'
  <2>1. /\ UNCHANGED <<st, stop, overtaken, late>>
        /\ \E p \in {"running", "stopping"} : work' = [work EXCEPT ![c] = p]
    BY <1>7 DEF ShellReady, CallerGone
  <2>2. SomeoneIdles
    BY <1>0, <1>w, <2>1 DEF TypeOK
  <2> QED
    BY <1>a, <2>1, <2>2
<1>8. ASSUME NEW c \in Callers, Settle(c), UNCHANGED <<st, stop, overtaken, late>> PROVE NoShell'
  <2>1. SomeoneIdles
    BY <1>0, <1>8, <1>w DEF TypeOK, Settle
  <2> QED
    BY <1>8, <1>a, <2>1
<1>9. ASSUME NEW c \in Callers, FinishRun(c) \/ FinishShell(c) PROVE NoShell'
  <2>1. /\ UNCHANGED <<stop, overtaken, late>> /\ home[c] \in Callers
        /\ \/ st[home[c]].tag \in {"Running", "Shell"} /\ LastOfRunner(c)
           \/ LetGoBefore(c)
    BY <1>0, <1>9, Ending
  <2>2. CASE LetGoBefore(c)
    BY <1>8, <2>1, <2>2 DEF LetGoBefore
  <2>3. CASE st[home[c]].tag \in {"Running", "Shell"} /\ LastOfRunner(c)
    <3>1. home[c] = current /\ st[home[c]] # Idle
      BY <1>0, <2>1, <2>3 DEF OneAtATime, Idle
    <3>2. \A r \in Callers : st'[r] = Idle
      BY <1>0, <2>1, <2>3, <3>1 DEF OneAtATime, TypeOK, LastOfRunner
    <3> QED
      BY <1>c, <3>2
  <2> QED
    BY <2>1, <2>2, <2>3
<1>10. ASSUME NEW c \in Callers, HandOver(c) PROVE NoShell'
  <2>1. PICK v \in Callers :
          /\ st[home[c]] = ShellThenRun(c, v) /\ st' = [st EXCEPT ![home[c]] = Running(v)]
          /\ work' = [work EXCEPT ![c] = "ended", ![v] = "running"] /\ UNCHANGED <<stop, overtaken, late>>
    BY <1>10 DEF HandOver
  <2>2. SomeoneIdles
    BY <1>0, <1>w, <2>1 DEF TypeOK
  <2>3. \A r \in Callers : st'[r].tag = "Shell" => st[r].tag = "Shell"
    BY <1>0, <2>1 DEF TypeOK
  <2> QED
    BY <1>a, <2>1, <2>2, <2>3
<1>11. ASSUME NEW c \in Callers, IdleLands(c) PROVE NoShell'
  BY <1>8, <1>11 DEF IdleLands
<1>12. ASSUME NEW k \in Cancellers, NothingToCancel(k) PROVE NoShell'
  BY <1>0, <1>12 DEF NothingToCancel, Occupied, OneAtATime
<1>13. ASSUME NEW k \in Cancellers, Cancel(k) PROVE NoShell'
  <2>1. /\ current \in Callers /\ st[current] # Idle /\ UNCHANGED <<overtaken>>
        /\ st'[current] = Idle /\ \A r \in Callers : r # current => st'[r] = st[r]
    BY <1>0, <1>13, Cancelling DEF Becomes
  <2>2. \A r \in Callers : st'[r] = Idle
    BY <1>0, <2>1 DEF OneAtATime
  <2> QED
    BY <1>c, <2>2
<1>14. ASSUME NEW k \in Cancellers, Stopping(k), UNCHANGED <<st, overtaken>> PROVE NoShell'
  BY <1>0, <1>14 DEF OneAtATime
<1>15. ASSUME NEW k \in Cancellers, InterruptShell(k) \/ CancelDone(k) \/ IdleIfCurrent(k) PROVE NoShell'
  BY <1>14, <1>15 DEF InterruptShell, CancelDone, IdleIfCurrent, Stopping
<1>16. ASSUME NEW k \in Cancellers, CancelLands(k) PROVE NoShell'
  <2>1. SomeoneIdles
    BY <1>16 DEF CancelLands, SomeoneIdles
  <2> QED
    BY <1>16, <1>a, <2>1 DEF CancelLands
<1>17. CASE UNCHANGED vars
  BY <1>17, <1>b DEF vars
<1> QED
  BY <1>1, <1>3, <1>4, <1>5, <1>6, <1>7, <1>9, <1>10, <1>11, <1>12,
     <1>13, <1>15, <1>16, <1>17
  DEF Next

(* What is shown is the truth. *)
LEMMA StatusStep == WorkerInv /\ [Next]_vars => StatusIsHonest'
<1> USE RunStateAssumption
<1> DEFINE ShellIsShown == overtaken \/ late \/ \A r \in Callers : st[r].tag = "Shell" => status = "busy"
<1> SUFFICES ASSUME WorkerInv, [Next]_vars PROVE StatusIsHonest'
  OBVIOUS
<1>0. /\ IInv /\ TypeOK /\ Formed /\ OneAtATime /\ StoppingIsHeld /\ StatusIsHonest /\ NoIdleIsLate
      /\ Idle.tag = "Idle" /\ \A w \in Callers : Running(w).tag = "Running"
  BY TypeForms DEF WorkerInv, IInv, Idle, Running
<1>1. stop \in [Cancellers -> Stops]
  BY <1>0 DEF TypeOK, Stops
<1>k. ASSUME NEW k \in Cancellers, NEW p, stop' = [stop EXCEPT ![k].phase = p]
      PROVE  stop'[k].phase = p /\ \A j \in Cancellers : j # k => stop'[j] = stop[j]
  BY <1>1, <1>k DEF Stops
(* Somebody still works, and what is shown of a shell command is as before. *)
<1>a. ASSUME ShellIsShown',
             \/ \E w \in Callers : work'[w] \notin {"none", "ended"}
             \/ \E k \in Cancellers : stop'[k].phase \notin {"none", "done"}
      PROVE  StatusIsHonest'
  BY <1>a DEF StatusIsHonest, AllIsOver
<1>b. ASSUME UNCHANGED <<st, status, work, stop, overtaken, late>>
      PROVE  StatusIsHonest'
  BY <1>0, <1>b DEF StatusIsHonest, AllIsOver
<1>c. ASSUME \A r \in Callers : st'[r].tag = "Shell" => st[r].tag = "Shell",
             status' = status, overtaken => overtaken', late => late'
      PROVE  ShellIsShown'
  BY <1>0, <1>c DEF StatusIsHonest
<1>d. ASSUME NEW c \in Callers, NEW p \in {"pending", "starting", "running"}, NEW s, Begin(c, p, s)
      PROVE  /\ st' = [st EXCEPT ![Taker(c)] = s] /\ (overtaken => overtaken')
             /\ work'[c] = p
  BY <1>0, <1>d DEF Begin, TypeOK
<1>e. ASSUME NEW c \in Callers, NEW p \in {"pending", "running"}, NEW s, Begin(c, p, s),
             s.tag # "Shell", UNCHANGED <<status, late>>
      PROVE  StatusIsHonest'
  <2>1. /\ st' = [st EXCEPT ![Taker(c)] = s] /\ (overtaken => overtaken') /\ work'[c] = p
    BY <1>d, <1>e
  <2>2. ShellIsShown'
    BY <1>0, <1>c, <1>e, <2>1 DEF TypeOK
  <2> QED
    BY <1>a, <2>1, <2>2
<1>2. ASSUME NEW c \in Callers, GetInLine(c) \/ JoinRun(c) \/ StartShell(c) \/ Busy(c) \/ GiveUp(c)
      PROVE  StatusIsHonest'
  BY <1>2, <1>b DEF GetInLine, JoinRun, StartShell, Busy, GiveUp
<1>3. ASSUME NEW c \in Callers, StartRun(c) PROVE StatusIsHonest'
  BY <1>0, <1>3, <1>e DEF StartRun
<1>4. ASSUME NEW c \in Callers, QueueRun(c) PROVE StatusIsHonest'
  <2>1. ShellThenRun(st[Taker(c)].shell, c).tag # "Shell"
    BY DEF ShellThenRun
  <2> QED
    BY <1>4, <1>e, <2>1 DEF QueueRun
<1>5. ASSUME NEW c \in Callers, ShellStarts(c) PROVE StatusIsHonest'
  <2>1. status' = "busy" /\ Begin(c, "starting", Shell(c))
    BY <1>5 DEF ShellStarts
  <2>2. work'[c] = "starting"
    BY <1>d, <2>1
  <2> QED
    BY <1>a, <2>1, <2>2
<1>6. ASSUME NEW c \in Callers, Announce(c) PROVE StatusIsHonest'
  <2>1. call[c] = "prompt" /\ work[c] = "running" /\ UNCHANGED <<st, work, overtaken, late>>
    BY <1>6 DEF Announce
  <2>2. ASSUME ~overtaken, NEW r \in Callers, st[r].tag = "Shell" PROVE FALSE
    <3>1. st[r].shell \in Live /\ call[st[r].shell] = "shell"
      BY <1>0, <2>2 DEF Live, IInv, HandlesAreTrue, Truthful, Formed
    <3>2. c \in Live
      BY <2>1 DEF Live
    <3>3. st[r].shell = c
      BY <2>2, <3>1, <3>2, OneFiber
    <3> QED
      BY <2>1, <3>1, <3>3
  <2> QED
    BY <1>a, <2>1, <2>2
<1>7. ASSUME NEW c \in Callers, ShellReady(c) \/ CallerGone(c) PROVE StatusIsHonest'
  <2>1. work'[c] \in {"running", "stopping"} /\ UNCHANGED <<st, status, overtaken, late>>
    BY <1>0, <1>7 DEF ShellReady, CallerGone, registry, TypeOK
  <2>2. ShellIsShown'
    BY <1>c, <2>1
  <2> QED
    BY <1>a, <2>1, <2>2
<1>8. ASSUME NEW c \in Callers, FinishRun(c) \/ FinishShell(c) PROVE StatusIsHonest'
  <2>1. /\ home[c] \in Callers /\ work[c] \in {"running", "stopping"}
        /\ UNCHANGED <<status, stop, overtaken, late>>
        /\ \/ st[home[c]].tag \in {"Running", "Shell"} /\ LastOfRunner(c)
           \/ ~Held(c) /\ LetGoBefore(c)
    BY <1>0, <1>8, Ending
  <2>2. CASE ~Held(c) /\ LetGoBefore(c)
    <3>1. c \in Live
      BY <2>1 DEF Live
    <3>2. PICK k \in Cancellers : Stopping(k)
      BY <1>0, <2>2, <3>1, LiveIsKnown DEF Held
    <3>3. stop'[k].phase \notin {"none", "done"}
      BY <2>1, <3>2 DEF Stopping
    <3>4. ShellIsShown'
      BY <1>c, <2>1, <2>2 DEF LetGoBefore
    <3> QED
      BY <1>a, <3>3, <3>4
  <2>3. CASE LastOfRunner(c)
    <3>1. work'[c] = "idling" /\ \A r \in Callers : st'[r].tag = "Shell" => st[r].tag = "Shell"
      BY <1>0, <2>1, <2>3 DEF TypeOK, LastOfRunner
    <3>2. ShellIsShown'
      BY <1>c, <2>1, <3>1
    <3> QED
      BY <1>a, <3>1, <3>2
  <2> QED
    BY <2>1, <2>2, <2>3
<1>9. ASSUME NEW c \in Callers, HandOver(c) PROVE StatusIsHonest'
  <2>1. PICK v \in Callers :
          /\ st[home[c]] = ShellThenRun(c, v) /\ st' = [st EXCEPT ![home[c]] = Running(v)]
          /\ work' = [work EXCEPT ![c] = "ended", ![v] = "running"]
          /\ UNCHANGED <<status, overtaken, late>>
    BY <1>9 DEF HandOver, registry
  <2>2. work'[v] = "running"
    BY <1>0, <2>1 DEF TypeOK
  <2>3. \A r \in Callers : st'[r].tag = "Shell" => st[r].tag = "Shell"
    BY <1>0, <2>1 DEF TypeOK
  <2>4. ShellIsShown'
    BY <1>c, <2>1, <2>3
  <2> QED
    BY <1>a, <2>2, <2>4
<1>10. ASSUME UNCHANGED <<st, overtaken, late>>, SomeoneIdles, status' = "idle" PROVE StatusIsHonest'
  BY <1>0, <1>10 DEF StatusIsHonest, NoIdleIsLate
<1>11. ASSUME NEW c \in Callers, IdleLands(c) PROVE StatusIsHonest'
  BY <1>10, <1>11 DEF IdleLands, SomeoneIdles
<1>12. ASSUME NEW k \in Cancellers, NothingToCancel(k) PROVE StatusIsHonest'
  <2>1. stop'[k].phase = "idling"
    BY <1>12, <1>k DEF NothingToCancel
  <2>2. ShellIsShown'
    BY <1>12, <1>c DEF NothingToCancel, registry
  <2> QED
    BY <1>a, <2>1, <2>2
<1>13. ASSUME NEW k \in Cancellers, Cancel(k) PROVE StatusIsHonest'
  <2>1. /\ current \in Callers /\ Becomes(st, st', current, Idle)
        /\ UNCHANGED <<status, overtaken, late>> /\ Stopping(k)'
    BY <1>0, <1>13, Cancelling DEF registry
  <2>2. \A r \in Callers : st'[r].tag = "Shell" => st[r].tag = "Shell"
    BY <1>0, <2>1 DEF Becomes
  <2>3. ShellIsShown'
    BY <1>c, <2>1, <2>2
  <2>4. stop'[k].phase \notin {"none", "done"}
    BY <2>1 DEF Stopping
  <2> QED
    BY <1>a, <2>3, <2>4
<1>14. ASSUME NEW k \in Cancellers, InterruptShell(k) \/ CancelDone(k) PROVE StatusIsHonest'
  <2>1. PICK p \in {"fiber", "check"} : stop' = [stop EXCEPT ![k].phase = p]
    BY <1>14 DEF InterruptShell, CancelDone
  <2>2. stop'[k].phase = p
    BY <1>k, <2>1
  <2>3. UNCHANGED <<st, status, overtaken, late>>
    BY <1>14 DEF InterruptShell, CancelDone, registry
  <2>4. ShellIsShown'
    BY <1>c, <2>3
  <2> QED
    BY <1>a, <2>2, <2>4
<1>15. ASSUME NEW k \in Cancellers, IdleIfCurrent(k) PROVE StatusIsHonest'
  <2>1. UNCHANGED <<st, status, work, overtaken, late>> /\ Stopping(k)
    BY <1>15 DEF IdleIfCurrent, Stopping
  <2>2. ShellIsShown'
    BY <1>c, <2>1
  <2>3. CASE st[stop[k].runner] = Idle
    <3>1. stop'[k].phase = "idling"
      BY <1>15, <1>k, <2>3 DEF IdleIfCurrent
    <3> QED
      BY <1>a, <2>2, <3>1
  <2>4. CASE st[stop[k].runner] # Idle
    <3> DEFINE q == stop[k].runner
    <3>1. q \in Callers
      BY <1>1, <2>1 DEF Stops, IInv, StopsAreReal, WorkerInv
    <3>2. st[q].tag \in {"Running", "Shell", "ShellThenRun"}
      BY <1>0, <2>4, <3>1 DEF Formed
    <3>3. \E f \in Callers : work[f] \in {"starting", "running", "stopping"}
      BY <1>0, <3>1, <3>2 DEF Formed, IInv, HandlesAreTrue, Truthful
    <3> QED
      BY <1>a, <2>1, <2>2, <3>3
  <2> QED
    BY <2>3, <2>4
<1>16. ASSUME NEW k \in Cancellers, CancelLands(k) PROVE StatusIsHonest'
  BY <1>10, <1>16 DEF CancelLands, SomeoneIdles
<1>17. CASE UNCHANGED vars
  BY <1>17, <1>b DEF vars, registry
<1> QED
  BY <1>2, <1>3, <1>4, <1>5, <1>6, <1>7, <1>8, <1>9, <1>11, <1>12,
     <1>13, <1>14, <1>15, <1>16, <1>17
  DEF Next

LEMMA WorkerInvariance == Spec => []WorkerInv
<1>1. Init => WorkerInv
  BY Initially DEF Init, WorkerInv, StoppingIsHeld, OneAtATime, NoIdleIsLate, SomeoneIdles,
     StatusIsHonest, Stopping, Idle
<1>2. WorkerInv /\ [Next]_vars => WorkerInv'
  BY Inductive, Shapes, StoppingStep, OneAtATimeStep, NoIdleStep, StatusStep DEF WorkerInv
<1> QED
  BY <1>1, <1>2, PTL DEF Spec

(* Unless work starts while a cancellation waits for a fiber, the session's *)
(* registered runner is the only one that works, for one fiber at a time.   *)
THEOREM OneWorker == Spec => []OneRegisteredWorker
<1>1. ASSUME WorkerInv PROVE OneRegisteredWorker
  <2>1. CASE Live = {}
    BY <1>1, <2>1, FS_EmptySet DEF OneRegisteredWorker, WorkerInv, OneAtATime, Live
  <2>2. ASSUME ~overtaken, NEW w \in Live PROVE OneRegisteredWorker
    <3>1. Live = {w}
      BY <1>1, <2>2, OneFiber
    <3>2. Cardinality(Live) = 1
      BY <3>1, FS_Singleton
    <3> QED
      BY <1>1, <3>2 DEF OneRegisteredWorker, WorkerInv, OneAtATime, Live
  <2> QED
    BY <2>1, <2>2 DEF OneRegisteredWorker
<1> QED
  BY <1>1, WorkerInvariance, PTL

(* A session whose work is over is shown as idle, however its end, the      *)
(* announcements of its loop, what is still being published and             *)
(* cancellations interleave; one whose shell command runs is shown as busy, *)
(* unless a cancellation was overtaken or an "idle" was on its way when the *)
(* command started.                                                         *)
THEOREM HonestStatus == Spec => []StatusIsHonest
<1>1. WorkerInv => StatusIsHonest
  BY DEF WorkerInv
<1> QED
  BY <1>1, WorkerInvariance, PTL
-----------------------------------------------------------------------------
(* What whoever waits for cancelled work gets his answer from.              *)

(* Work only goes forward, ...                                              *)
Moves(p, q) ==
  \/ p = q
  \/ p = "none"     /\ q \in {"pending", "starting", "running"}
  \/ p = "pending"  /\ q \in {"running", "ended"}
  \/ p = "starting" /\ q = "running"
  \/ p = "running"  /\ q \in {"stopping", "idling", "ended"}
  \/ p = "stopping" /\ q \in {"idling", "ended"}
  \/ p = "idling"   /\ q = "ended"

(* ... and so does a cancellation.                                          *)
Advances(p, q) ==
  \/ p = q
  \/ p = "none"   /\ q \in {"latch", "fiber", "idling"}
  \/ p = "latch"  /\ q = "fiber"
  \/ p = "fiber"  /\ q = "check"
  \/ p = "check"  /\ q \in {"idling", "done"}
  \/ p = "idling" /\ q = "done"

NothingIsUndone ==
  /\ \A w \in Callers : /\ Moves(work[w], work'[w])
                        /\ done[w] # "open" => done'[w] = done[w]
  /\ \A k \in Cancellers : /\ Advances(stop[k].phase, stop'[k].phase)
                           /\ stop[k].phase # "none" =>
                                stop'[k].fiber = stop[k].fiber /\ stop'[k].run = stop[k].run

(* A cancellation under way has a step of its own to take, or the fiber it  *)
(* waits for has: the shell command's start is on its way, or the           *)
(* interrupted fiber is winding down.                                       *)
CancellationsCanGoOn ==
  \A k \in Cancellers : Stopping(k) =>
    LET f == stop[k].fiber IN
    \/ stop[k].phase = "latch" /\ work[f] # "starting"
    \/ stop[k].phase = "fiber" /\ work[f] = "ended"
    \/ stop[k].phase = "check"
    \/ work[f] = "starting"
    \/ work[f] = "stopping" /\ call[f] \in {"prompt", "shell"}

(* A cancellation that has told those who wait has ended all it took, and   *)
(* answered for it.                                                         *)
StoppedAreAnswered ==
  \A k \in Cancellers : stop[k].phase \in {"check", "idling", "done"} =>
    \A w \in Callers : w \in {stop[k].fiber, stop[k].run} =>
      work[w] = "ended" /\ done[w] # "open"

(* Only work that has ended is answered for.                                *)
UnendedIsOpen == \A w \in Callers : work[w] # "ended" => done[w] = "open"

(* Work was asked for; a cancellation that has not begun has taken nothing. *)
WorkIsAsked == \A w \in Callers : work[w] # "none" => call[w] \in {"prompt", "shell"}

UnbegunTookNothing ==
  \A k \in Cancellers : stop[k].phase = "none" => stop[k].fiber = None /\ stop[k].run = None

AnswersInv ==
  IInv /\ UnendedIsOpen /\ WorkIsAsked /\ UnbegunTookNothing /\ StoppedAreAnswered

(* What a step does to one work and its answer, ...                         *)
LEMMA WorkMoves ==
  ASSUME IInv, UnendedIsOpen, WorkIsAsked, Shape, NEW v \in Callers
  PROVE  /\ Moves(work[v], work'[v])
         /\ work'[v] # work[v] \/ done'[v] # done[v] => done[v] = "open"
         /\ done'[v] # done[v] => work'[v] = "ended"
         /\ work'[v] # "none" => call'[v] \in {"prompt", "shell"}
<1> USE RunStateAssumption
<1> DEFINE Fine == /\ Moves(work[v], work'[v])
                   /\ work'[v] # work[v] \/ done'[v] # done[v] => done[v] = "open"
                   /\ done'[v] # done[v] => work'[v] = "ended"
                   /\ work'[v] # "none" => call'[v] \in {"prompt", "shell"}
<1>0. /\ Formed /\ Known /\ (work[v] # "ended" => done[v] = "open")
      /\ (work[v] # "none" => call[v] \in {"prompt", "shell"})
  BY TypeForms, ThusKnown DEF IInv, UnendedIsOpen, WorkIsAsked
<1>a. ASSUME UNCHANGED <<work, done, call>> PROVE Fine
  BY <1>0, <1>a DEF Moves
<1>1. CASE Still
  BY <1>1, <1>a DEF Still, calls
<1>2. ASSUME NEW c \in Callers, Asks(c) PROVE Fine
  <2>1. Unbegun(c) /\ UNCHANGED <<work, done>> /\ \A w \in Callers : w # c => call'[w] = call[w]
    BY <1>2 DEF Asks, Becomes
  <2>2. v = c => work[v] = "none"
    BY <1>0, <2>1 DEF Known
  <2> QED
    BY <1>0, <2>1, <2>2 DEF Moves
<1>3. ASSUME NEW c \in Callers, Begins(c) PROVE Fine
  <2>1. /\ Unbegun(c) /\ UNCHANGED done
        /\ work'[c] \in {"pending", "starting", "running"} /\ call'[c] \in {"prompt", "shell"}
        /\ \A w \in Callers : w # c => call'[w] = call[w] /\ work'[w] = work[w]
    BY <1>3 DEF Begins, BeginsAs, Becomes
  <2>2. work[c] = "none" /\ done[c] = "open"
    BY <1>0, <2>1 DEF Known
  <2> QED
    BY <1>0, <2>1, <2>2 DEF Moves
<1>4. ASSUME NEW c \in Callers, Goes(c) PROVE Fine
  BY <1>0, <1>4 DEF Goes, Becomes, calls, Moves
<1>5. ASSUME NEW c \in Callers, Idles(c) PROVE Fine
  BY <1>0, <1>5 DEF Idles, Becomes, calls, Moves
<1>6. ASSUME NEW s \in Callers, NEW w \in Callers, HandsOver(s, w) PROVE Fine
  <2>1. st[home[s]].tag = "ShellThenRun" /\ st[home[s]].run = w /\ home[s] \in Callers
    BY <1>6 DEF HandsOver, ShellThenRun
  <2>2. work[w] = "pending"
    BY <2>1 DEF IInv, HandlesAreTrue, Truthful
  <2> QED
    BY <1>0, <1>6, <2>2 DEF HandsOver, Becomes, calls, Moves
<1>7. ASSUME NEW k \in Cancellers, Concludes(k) PROVE Fine
  BY <1>7, <1>a DEF Concludes, calls
<1>8. ASSUME NEW k \in Cancellers, Takes(k) PROVE Fine
  <2>1. st[current].tag = "Running" => work[st[current].run] = "running"
    BY <1>8 DEF Takes, IInv, HandlesAreTrue, Truthful
  <2> QED
    BY <1>0, <1>8, <2>1 DEF Takes, Becomes, calls, Moves
<1>9. ASSUME NEW k \in Cancellers, Interrupts(k) PROVE Fine
  BY <1>0, <1>9 DEF Interrupts, Becomes, calls, Moves
<1>10. ASSUME NEW k \in Cancellers, Tells(k) PROVE Fine
  <2>1. Stopping(k)
    BY <1>10 DEF Tells, Stopping
  <2>2. v = stop[k].run => work[v] \in {"pending", "ended"}
    BY <1>10, <2>1 DEF IInv, StopsAreReal, Tells
  <2>3. v = stop[k].run /\ work[v] = "ended" => done[v] # "open"
    BY DEF IInv, EndIsTold
  <2> QED
    BY <1>0, <1>10, <2>2, <2>3 DEF Tells, calls, Moves
<1> QED
  BY <1>1, <1>2, <1>3, <1>4, <1>5, <1>6, <1>7, <1>8, <1>9, <1>10 DEF Shape

(* ... and to a cancellation: it goes on, and tells before it concludes.    *)
LEMMA StopMoves ==
  ASSUME IInv, Shape, NEW k \in Cancellers
  PROVE  /\ Advances(stop[k].phase, stop'[k].phase)
         /\ stop[k].phase # "none" \/ stop'[k].phase \notin {"latch", "fiber"} =>
              stop'[k].fiber = stop[k].fiber /\ stop'[k].run = stop[k].run
         /\ stop[k].phase = "fiber" /\ stop'[k].phase = "check" => Tells(k)
<1> DEFINE Fine == /\ Advances(stop[k].phase, stop'[k].phase)
                   /\ stop[k].phase # "none" \/ stop'[k].phase \notin {"latch", "fiber"} =>
                        stop'[k].fiber = stop[k].fiber /\ stop'[k].run = stop[k].run
                   /\ stop[k].phase = "fiber" /\ stop'[k].phase = "check" => Tells(k)
<1>1. stop'[k] = stop[k] => Fine
  BY DEF Advances
<1>2. CASE Still
  BY <1>1, <1>2 DEF Still
<1>3. ASSUME NEW c \in Callers, Asks(c) \/ Begins(c) \/ Goes(c) \/ Idles(c) PROVE Fine
  <2>1. stop' = stop
    BY <1>3 DEF Asks, Begins, Goes, Idles
  <2> QED
    BY <1>1, <2>1
<1>4. ASSUME NEW s \in Callers, NEW w \in Callers, HandsOver(s, w) PROVE Fine
  BY <1>1, <1>4 DEF HandsOver
<1>5. ASSUME NEW j \in Cancellers, Concludes(j) PROVE Fine
  BY <1>1, <1>5 DEF Concludes, SameTargets, Advances
<1>6. ASSUME NEW j \in Cancellers, Takes(j) PROVE Fine
  BY <1>1, <1>6 DEF Takes, Advances
<1>7. ASSUME NEW j \in Cancellers, Interrupts(j) PROVE Fine
  BY <1>1, <1>7 DEF Interrupts, SameTargets, Advances
<1>8. ASSUME NEW j \in Cancellers, Tells(j) PROVE Fine
  <2>1. stop'[j].phase = "check" /\ stop[j].phase = "fiber" /\ SameTargets(j)
        /\ \A i \in Cancellers : i # j => stop'[i] = stop[i]
    BY <1>8 DEF Tells
  <2>2. CASE j = k
    BY <1>8, <2>1, <2>2 DEF SameTargets, Advances
  <2> QED
    BY <1>1, <2>1, <2>2
<1> QED
  BY <1>2, <1>3, <1>4, <1>5, <1>6, <1>7, <1>8 DEF Shape

(* Whatever a step does, it takes nothing back. *)
LEMMA UndoneStep == AnswersInv /\ [Next]_vars => NothingIsUndone
<1> SUFFICES ASSUME AnswersInv, [Next]_vars PROVE NothingIsUndone
  OBVIOUS
<1>1. Shape /\ IInv /\ UnendedIsOpen /\ WorkIsAsked
  BY Shapes DEF AnswersInv
<1>2. \A w \in Callers : Moves(work[w], work'[w]) /\ (done[w] # "open" => done'[w] = done[w])
  BY <1>1, WorkMoves
<1>3. \A k \in Cancellers : /\ Advances(stop[k].phase, stop'[k].phase)
                            /\ stop[k].phase # "none" =>
                                 stop'[k].fiber = stop[k].fiber /\ stop'[k].run = stop[k].run
  BY <1>1, StopMoves
<1> QED
  BY <1>2, <1>3 DEF NothingIsUndone

LEMMA AnswersStep == AnswersInv /\ [Next]_vars => AnswersInv'
<1> USE RunStateAssumption
<1> SUFFICES ASSUME AnswersInv, [Next]_vars PROVE AnswersInv'
  OBVIOUS
<1>0. /\ NothingIsUndone /\ IInv /\ IInv' /\ Shape /\ UnendedIsOpen /\ WorkIsAsked
      /\ StoppedAreAnswered /\ UnbegunTookNothing
  BY UndoneStep, Inductive, Shapes DEF AnswersInv
<1>1. UnendedIsOpen'
  <2> SUFFICES ASSUME NEW w \in Callers, work'[w] # "ended" PROVE done'[w] = "open"
    BY DEF UnendedIsOpen
  <2>1. done'[w] = done[w] /\ work[w] # "ended"
    BY <1>0, WorkMoves DEF NothingIsUndone, Moves
  <2> QED
    BY <1>0, <2>1 DEF UnendedIsOpen
<1>2. WorkIsAsked'
  BY <1>0, WorkMoves DEF WorkIsAsked
<1>3. UnbegunTookNothing'
  <2> SUFFICES ASSUME NEW k \in Cancellers, stop'[k].phase = "none"
      PROVE  stop'[k].fiber = None /\ stop'[k].run = None
    BY DEF UnbegunTookNothing
  <2>1. stop[k].phase = "none"
    BY <1>0 DEF NothingIsUndone, Advances
  <2>2. stop'[k].fiber = stop[k].fiber /\ stop'[k].run = stop[k].run
    BY <1>0, StopMoves
  <2> QED
    BY <1>0, <2>1, <2>2 DEF UnbegunTookNothing
<1>4. StoppedAreAnswered'
  <2> SUFFICES ASSUME NEW k \in Cancellers, stop'[k].phase \in {"check", "idling", "done"},
                      NEW w \in Callers, w \in {stop'[k].fiber, stop'[k].run}
      PROVE  work'[w] = "ended" /\ done'[w] # "open"
    BY DEF StoppedAreAnswered
  <2>1. w \in {stop[k].fiber, stop[k].run}
    BY <1>0, StopMoves
  <2>2. work[w] = "ended" /\ done[w] # "open" => work'[w] = "ended" /\ done'[w] # "open"
    BY <1>0 DEF NothingIsUndone, Moves
  <2>3. CASE stop[k].phase \in {"check", "idling", "done"}
    BY <1>0, <2>1, <2>2, <2>3 DEF StoppedAreAnswered
  <2>4. CASE stop[k].phase = "none"
    BY <1>0, <2>1, <2>4 DEF UnbegunTookNothing
  <2>5. CASE stop[k].phase \in {"latch", "fiber"}
    <3>1. Tells(k)
      <4>1. Advances(stop[k].phase, stop'[k].phase)
        BY <1>0 DEF NothingIsUndone
      <4>2. stop[k].phase = "fiber" /\ stop'[k].phase = "check"
        BY <2>5, <4>1 DEF Advances
      <4> QED
        BY <1>0, <4>2, StopMoves
    <3>2. work[stop[k].fiber] = "ended"
      BY <3>1 DEF Tells
    <3>3. w = stop[k].fiber => work[w] = "ended" /\ done[w] # "open"
      BY <1>0, <3>2 DEF IInv, EndIsTold
    <3>4. w = stop[k].run => work'[w] = "ended" /\ done'[w] # "open"
      BY <3>1 DEF Tells
    <3> QED
      BY <2>1, <2>2, <3>3, <3>4
  <2>6. stop[k].phase \in {"none", "latch", "fiber", "check", "idling", "done"}
    BY <1>0 DEF NothingIsUndone, Advances
  <2> QED
    BY <2>3, <2>4, <2>5, <2>6
<1> QED
  BY <1>0, <1>1, <1>2, <1>3, <1>4 DEF AnswersInv

LEMMA AnswersInvariance == Spec => []AnswersInv
<1>1. Init => AnswersInv
  BY Initially DEF Init, AnswersInv, UnendedIsOpen, WorkIsAsked, UnbegunTookNothing, StoppedAreAnswered
<1> QED
  BY <1>1, AnswersStep, PTL DEF Spec

(* What CancelledIsAnswered rests on, short of fairness: a cancellation     *)
(* that is over has answered for all it took; one that is not can go on, or *)
(* waits for a fiber that can; and no step takes anything back, neither an  *)
(* answer nor a phase of a work or of a cancellation, of which there are    *)
(* finitely many.                                                           *)
THEOREM CancellationsComeToAnEnd ==
  Spec => [](StoppedAreAnswered /\ CancellationsCanGoOn) /\ [][NothingIsUndone]_vars
<1> USE RunStateAssumption
<1>1. ASSUME AnswersInv PROVE StoppedAreAnswered /\ CancellationsCanGoOn
  <2> SUFFICES ASSUME NEW k \in Cancellers, Stopping(k)
      PROVE  LET f == stop[k].fiber IN
             \/ stop[k].phase = "latch" /\ work[f] # "starting"
             \/ stop[k].phase = "fiber" /\ work[f] = "ended"
             \/ stop[k].phase = "check"
             \/ work[f] = "starting"
             \/ work[f] = "stopping" /\ call[f] \in {"prompt", "shell"}
    BY <1>1 DEF AnswersInv, CancellationsCanGoOn
  <2>1. stop[k].fiber \in Callers
    BY <1>1, ThusKnown DEF AnswersInv, Known
  <2>2. stop[k].phase = "fiber" => work[stop[k].fiber] \in {"stopping", "ended"}
    BY <1>1 DEF AnswersInv, IInv, StopsAreReal
  <2>3. work[stop[k].fiber] = "stopping" => call[stop[k].fiber] \in {"prompt", "shell"}
    BY <1>1, <2>1 DEF AnswersInv, WorkIsAsked
  <2> QED
    BY <2>2, <2>3 DEF Stopping
<1>2. AnswersInv /\ [Next]_vars => [NothingIsUndone]_vars
  BY UndoneStep
<1> QED
  BY <1>1, <1>2, AnswersInvariance, PTL DEF Spec
=============================================================================
