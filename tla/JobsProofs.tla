----------------------------- MODULE JobsProofs -----------------------------
(* For any tree of sessions and any number of tasks, restarts and           *)
(* cancellations: a job that is called running runs or is being ended, ends *)
(* are of the job's own fiber, and a cancellation that comes to its end has *)
(* ended every job that it found under its session.                         *)
EXTENDS Jobs, TLAPS

(* There is an entry exactly if there was a generation; what came before it *)
(* has been told, what comes after it has no trace.                         *)
GenerationsFollow ==
  \A c \in Tasks :
    /\ gen[c] = 0 => status[c] = "none"
    /\ \A g \in Generations :
         /\ g < gen[c] => told[c][g] # None
         /\ g > gen[c] => told[c][g] = None
         /\ condemned[c][g] => g <= gen[c]

Waits(k, c) == hunt[k][c].step = "wait" /\ stop[k].step \in {"hunts", "dropped"}

(* The fiber of a job that runs has only been interrupted by somebody who   *)
(* waits for it, or did so until he was interrupted.                        *)
CondemnedIsAwaited ==
  \A c \in Tasks :
    status[c] = "running" /\ condemned[c][gen[c]] =>
      \E k \in Stops : Waits(k, c)

(* Who waits for a fiber waits for the last one, unless he is overtaken.    *)
HuntsAreCurrent ==
  \A k \in Stops, c \in Tasks :
    /\ hunt[k][c].step = "wait" => hunt[k][c].gen \in Generations
    /\ ~overtaken /\ Hunts(k, c) => hunt[k][c].gen = gen[c]

(* What a cancellation has done with, it knows, and has ended as far as it  *)
(* was listed; one that is not under way hunts nothing.                     *)
HuntsAreTracked ==
  \A k \in Stops :
    /\ stop[k].step \in {"new", "done"} => \A c \in Tasks : hunt[k][c].step = "none"
    /\ stop[k].step = "hunts" =>
         /\ stop[k].of \in stop[k].known
         /\ \A c \in Tasks : hunt[k][c].step = "done" => c \in stop[k].known
         /\ \A x \in stop[k].listed :
              x[2] <= gen[x[1]] /\ (hunt[k][x[1]].step = "done" => told[x[1]][x[2]] # None)

IInv ==
  /\ TypeOK /\ GenerationsFollow /\ CondemnedIsAwaited /\ HuntsAreCurrent /\ HuntsAreTracked
  /\ RunningJobsRun /\ EndsAreTheirOwn

-----------------------------------------------------------------------------
(* The data.                                                                *)

LEMMA Numbers ==
  ASSUME NEW c \in Tasks
  PROVE  /\ MaxStarts[c] \in Nat /\ 1 .. MaxStarts[c] \subseteq Generations
         /\ \A g \in Generations : g \in Nat \ {0}
<1>1. \A d \in Tasks : MaxStarts[d] \in Nat
  BY JobsAssumption
<1> QED
  BY <1>1 DEF Generations

Lives == {"none", "runs", "ends", "completed", "cancelled"}
Steps == {"none", "look", "wait", "done"}
StopRecord == [step : {"new", "hunts", "done", "dropped"}, of : Sessions \cup {None},
               listed : SUBSET (Tasks \X Generations), known : SUBSET Sessions]
HuntRecord == [step : Steps, gen : Generations \cup {0}]

(* What becomes of a function of functions when one of its values changes.  *)
LEMMA Updates ==
  ASSUME NEW A, NEW B, NEW C, NEW f \in [A -> [B -> C]], NEW a \in A, NEW b \in B, NEW v \in C
  PROVE  /\ [f EXCEPT ![a][b] = v] \in [A -> [B -> C]]
         /\ \A x \in A, y \in B :
              [f EXCEPT ![a][b] = v][x][y] = IF x = a /\ y = b THEN v ELSE f[x][y]
<1> DEFINE g == [f[a] EXCEPT ![b] = v]
<1>1. [f EXCEPT ![a][b] = v] = [f EXCEPT ![a] = g]
  OBVIOUS
<1>2. g \in [B -> C] /\ \A y \in B : g[y] = IF y = b THEN v ELSE f[a][y]
  OBVIOUS
<1> HIDE DEF g
<1>3. /\ [f EXCEPT ![a] = g] \in [A -> [B -> C]]
      /\ \A x \in A : [f EXCEPT ![a] = g][x] = IF x = a THEN g ELSE f[x]
  BY <1>2
<1> QED
  BY <1>1, <1>2, <1>3

(* What Finish does: the entry of a job that runs is ended, and its last    *)
(* generation told.                                                         *)
LEMMA Finishing ==
  ASSUME TypeOK, GenerationsFollow, NEW c \in Tasks, NEW how \in {"completed", "cancelled"},
         Finish(c, how)
  PROVE  /\ gen' = gen
         /\ status' \in [Tasks -> {"none", "running", "completed", "cancelled"}]
         /\ told' \in [Tasks -> [Generations -> {None, "completed", "cancelled"}]]
         /\ status'[c] # "running"
         /\ \A d \in Tasks : d # c => status'[d] = status[d] /\ told'[d] = told[d]
         /\ \A g \in Generations :
              told'[c][g] = IF status[c] = "running" /\ g = gen[c] THEN how ELSE told[c][g]
         /\ status[c] # "running" => status' = status /\ told' = told
         /\ status[c] = "running" => status'[c] = how /\ gen[c] \in Generations
<1>1. CASE status[c] # "running"
  BY <1>1 DEF Finish, table, TypeOK
<1>2. CASE status[c] = "running"
  <2>1. gen[c] \in 1 .. MaxStarts[c]
    BY <1>2, Numbers DEF TypeOK, GenerationsFollow
  <2>2. gen[c] \in Generations
    BY <2>1, Numbers
  <2>3. /\ gen' = gen /\ status' = [status EXCEPT ![c] = how]
        /\ told' = [told EXCEPT ![c] = [told[c] EXCEPT ![gen[c]] = how]]
    BY <1>2 DEF Finish
  <2>4. told'[c] = [told[c] EXCEPT ![gen[c]] = how] /\ told[c] \in [Generations -> {None, "completed", "cancelled"}]
    BY <2>3 DEF TypeOK
  <2>5. told' \in [Tasks -> [Generations -> {None, "completed", "cancelled"}]]
    BY <2>3, <2>4 DEF TypeOK
  <2>6. \A d \in Tasks : d # c => status'[d] = status[d] /\ told'[d] = told[d]
    BY <2>3 DEF TypeOK
  <2>7. \A g \in Generations : told'[c][g] = IF g = gen[c] THEN how ELSE told[c][g]
    BY <2>4
  <2>8. /\ status' \in [Tasks -> {"none", "running", "completed", "cancelled"}]
        /\ status'[c] = how
    BY <2>3 DEF TypeOK
  <2> QED
    BY <1>2, <2>2, <2>3, <2>5, <2>6, <2>7, <2>8
<1> QED
  BY <1>1, <1>2

(* What Idle does: the fibers that waited for the loop are about to end.    *)
LEMMA Idling ==
  ASSUME TypeOK, NEW s \in Sessions, Idle(s)
  PROVE  /\ loop' \in [Sessions -> {"idle", "prompt", "task"}]
         /\ fiber' \in [Tasks -> [Generations -> Lives]]
         /\ \A c \in Tasks, g \in Generations :
              \/ fiber'[c][g] = fiber[c][g]
              \/ fiber[c][g] = "runs" /\ fiber'[c][g] = "ends"
<1>1. \A c \in Tasks, g \in Generations :
        fiber'[c][g] = IF c = s /\ fiber[c][g] = "runs" THEN "ends" ELSE fiber[c][g]
  BY DEF Idle
<1>2. \A c \in Tasks, g \in Generations : fiber[c][g] \in Lives
  BY DEF TypeOK, Lives
<1>3. fiber' \in [Tasks -> [Generations -> Lives]]
  BY <1>2 DEF Idle, Lives
<1> QED
  BY <1>1, <1>3 DEF Idle, TypeOK

(* What a move of one fiber does.                                           *)
LEMMA Moving ==
  ASSUME TypeOK, NEW c \in Tasks, NEW g \in Generations, NEW how \in Lives,
         fiber' = [fiber EXCEPT ![c][g] = how]
  PROVE  /\ fiber' \in [Tasks -> [Generations -> Lives]]
         /\ \A d \in Tasks, h \in Generations :
              fiber'[d][h] = IF d = c /\ h = g THEN how ELSE fiber[d][h]
<1>1. fiber \in [Tasks -> [Generations -> Lives]]
  BY DEF TypeOK, Lives
<1> QED
  BY <1>1, Updates

(* What a cancellation does to what it hunts.                               *)
LEMMA HuntForms ==
  ASSUME TypeOK
  PROVE  /\ hunt \in [Stops -> [Tasks -> HuntRecord]]
         /\ \A k \in Stops, c \in Tasks :
              /\ hunt[k][c].step \in Steps /\ hunt[k][c].gen \in Generations \cup {0}
              /\ hunt[k][c] = [step |-> hunt[k][c].step, gen |-> hunt[k][c].gen]
         /\ stop \in [Stops -> StopRecord]
<1>1. hunt \in [Stops -> [Tasks -> HuntRecord]] /\ stop \in [Stops -> StopRecord]
  BY DEF TypeOK, HuntRecord, StopRecord, Steps
<1>2. \A k \in Stops, c \in Tasks : hunt[k][c] \in HuntRecord
  BY <1>1
<1> QED
  BY <1>1, <1>2 DEF HuntRecord

LEMMA HuntMoves ==
  ASSUME TypeOK, NEW k \in Stops, NEW c \in Tasks, NEW r \in HuntRecord,
         hunt' = [hunt EXCEPT ![k][c] = r]
  PROVE  /\ hunt' \in [Stops -> [Tasks -> HuntRecord]]
         /\ \A j \in Stops, d \in Tasks :
              hunt'[j][d] = IF j = k /\ d = c THEN r ELSE hunt[j][d]
<1>1. hunt \in [Stops -> [Tasks -> HuntRecord]]
  BY HuntForms
<1> QED
  BY <1>1, Updates

LEMMA HuntSpreads ==
  ASSUME TypeOK, NEW k \in Stops, NEW cs, Hunting(k, cs)
  PROVE  /\ hunt' \in [Stops -> [Tasks -> HuntRecord]]
         /\ \A j \in Stops : j # k => hunt'[j] = hunt[j]
         /\ \A c \in Tasks :
              hunt'[k][c] = IF c \in cs /\ hunt[k][c].step # "done"
                              THEN [step |-> "look", gen |-> 0] ELSE hunt[k][c]
<1> DEFINE f == [c \in Tasks |-> IF c \in cs /\ hunt[k][c].step # "done"
                                   THEN [step |-> "look", gen |-> 0] ELSE hunt[k][c]]
<1>1. hunt \in [Stops -> [Tasks -> HuntRecord]]
  BY HuntForms
<1>2. f \in [Tasks -> HuntRecord]
  BY <1>1 DEF HuntRecord, Steps
<1>3. hunt' = [hunt EXCEPT ![k] = f]
  BY DEF Hunting
<1>4. \A c \in Tasks : f[c] = IF c \in cs /\ hunt[k][c].step # "done"
                                 THEN [step |-> "look", gen |-> 0] ELSE hunt[k][c]
  OBVIOUS
<1> HIDE DEF f
<1>5. hunt'[k] = f /\ hunt' \in [Stops -> [Tasks -> HuntRecord]]
  BY <1>1, <1>2, <1>3
<1>6. \A j \in Stops : j # k => hunt'[j] = hunt[j]
  BY <1>1, <1>3
<1> QED
  BY <1>4, <1>5, <1>6

LEMMA Condemning ==
  ASSUME TypeOK, NEW c \in Tasks, NEW g \in Generations,
         condemned' = [condemned EXCEPT ![c][g] = TRUE]
  PROVE  /\ condemned' \in [Tasks -> [Generations -> BOOLEAN]]
         /\ \A d \in Tasks, h \in Generations :
              condemned'[d][h] = IF d = c /\ h = g THEN TRUE ELSE condemned[d][h]
<1>1. condemned \in [Tasks -> [Generations -> BOOLEAN]]
  BY DEF TypeOK
<1> QED
  BY <1>1, Updates

(* What is said of a task that a cancellation is through with.              *)
LEMMA HuntEnds ==
  ASSUME TypeOK, NEW k \in Stops, NEW c \in Tasks, hunt' = [hunt EXCEPT ![k][c].step = "done"]
  PROVE  /\ hunt' \in [Stops -> [Tasks -> HuntRecord]]
         /\ \A j \in Stops, d \in Tasks :
              hunt'[j][d] = IF j = k /\ d = c THEN [step |-> "done", gen |-> hunt[k][c].gen]
                                              ELSE hunt[j][d]
<1> DEFINE r == [step |-> "done", gen |-> hunt[k][c].gen]
<1>1. r \in HuntRecord
  BY HuntForms DEF HuntRecord, Steps
<1>2. [hunt[k][c] EXCEPT !.step = "done"] = r
  <2>1. hunt[k][c] \in HuntRecord
    BY HuntForms
  <2> QED
    BY <2>1 DEF HuntRecord
<1>3. hunt' = [hunt EXCEPT ![k][c] = r]
  BY <1>2
<1>4. hunt \in [Stops -> [Tasks -> HuntRecord]]
  BY HuntForms
<1>5. /\ [hunt EXCEPT ![k][c] = r] \in [Stops -> [Tasks -> HuntRecord]]
      /\ \A j \in Stops, d \in Tasks :
           [hunt EXCEPT ![k][c] = r][j][d] = IF j = k /\ d = c THEN r ELSE hunt[j][d]
  BY <1>1, <1>4, Updates
<1> HIDE DEF r
<1>6. /\ hunt' \in [Stops -> [Tasks -> HuntRecord]]
      /\ \A j \in Stops, d \in Tasks : hunt'[j][d] = IF j = k /\ d = c THEN r ELSE hunt[j][d]
  BY <1>3, <1>5, Zenon
<1> QED
  BY <1>6, Zenon DEF r

LEMMA Knowing ==
  ASSUME TypeOK, NEW k \in Stops, NEW c \in Tasks, Known(k, c)
  PROVE  /\ stop' \in [Stops -> StopRecord]
         /\ \A j \in Stops : j # k => stop'[j] = stop[j]
         /\ stop'[k] = [stop[k] EXCEPT !.known = stop[k].known \cup {c}]
         /\ stop'[k].step = stop[k].step /\ stop'[k].of = stop[k].of
         /\ stop'[k].listed = stop[k].listed /\ stop'[k].known = stop[k].known \cup {c}
<1>1. stop \in [Stops -> StopRecord] /\ stop[k] \in StopRecord
  BY HuntForms
<1>2. c \in Sessions
  BY DEF Tasks
<1>3. stop' = [stop EXCEPT ![k] = [stop[k] EXCEPT !.known = stop[k].known \cup {c}]]
  BY DEF Known
<1>4. [stop[k] EXCEPT !.known = stop[k].known \cup {c}] \in StopRecord
  BY <1>1, <1>2 DEF StopRecord
<1> QED
  BY <1>1, <1>3, <1>4 DEF StopRecord

(* What Start does: the task has a generation more, which runs.             *)
LEMMA Starting ==
  ASSUME TypeOK, NEW c \in Tasks, Start(c)
  PROVE  /\ gen[c] \in Nat /\ gen[c] + 1 \in Generations /\ gen[c] + 1 <= MaxStarts[c]
         /\ gen' \in [Tasks -> Nat] /\ \A d \in Tasks : gen'[d] = IF d = c THEN gen[c] + 1 ELSE gen[d]
         /\ \A d \in Tasks : status'[d] = IF d = c THEN "running" ELSE status[d]
         /\ status' \in [Tasks -> {"none", "running", "completed", "cancelled"}]
         /\ loop' \in [Sessions -> {"idle", "prompt", "task"}]
         /\ fiber' \in [Tasks -> [Generations -> Lives]]
         /\ \A d \in Tasks, g \in Generations :
              fiber'[d][g] = IF d = c /\ g = gen[c] + 1 THEN "runs" ELSE fiber[d][g]
<1>1. gen[c] \in Nat /\ gen[c] < MaxStarts[c] /\ MaxStarts[c] \in Nat
  BY Numbers DEF TypeOK, Start
<1>2. gen[c] + 1 \in 1 .. MaxStarts[c]
  BY <1>1
<1>3. gen[c] + 1 \in Generations
  BY <1>2, Numbers
<1>4. gen' \in [Tasks -> Nat] /\ \A d \in Tasks : gen'[d] = IF d = c THEN gen[c] + 1 ELSE gen[d]
  BY DEF Start, TypeOK
<1>5. /\ \A d \in Tasks : status'[d] = IF d = c THEN "running" ELSE status[d]
      /\ status' \in [Tasks -> {"none", "running", "completed", "cancelled"}]
  BY DEF Start, TypeOK
<1>6. loop' \in [Sessions -> {"idle", "prompt", "task"}]
  BY DEF Start, TypeOK
<1>7. fiber' = [fiber EXCEPT ![c][gen[c] + 1] = "runs"] /\ "runs" \in Lives
  BY DEF Start, Lives
<1>8. /\ fiber' \in [Tasks -> [Generations -> Lives]]
      /\ \A d \in Tasks, g \in Generations :
           fiber'[d][g] = IF d = c /\ g = gen[c] + 1 THEN "runs" ELSE fiber[d][g]
  BY <1>3, <1>7, Moving
<1> QED
  BY <1>1, <1>2, <1>3, <1>4, <1>5, <1>6, <1>8

-----------------------------------------------------------------------------
(* Each part of the invariant.                                              *)

(* The two links between the variables that TypeOK states.                  *)
Linked ==
  \A c \in Tasks, g \in Generations :
    /\ fiber[c][g] = "none" <=> g > gen[c]
    /\ g = gen[c] => (told[c][g] = None <=> status[c] = "running")

Typed ==
  /\ loop \in [Sessions -> {"idle", "prompt", "task"}]
  /\ status \in [Tasks -> {"none", "running", "completed", "cancelled"}]
  /\ gen \in [Tasks -> Nat] /\ \A c \in Tasks : gen[c] <= MaxStarts[c]
  /\ fiber \in [Tasks -> [Generations -> Lives]]
  /\ told \in [Tasks -> [Generations -> {None, "completed", "cancelled"}]]
  /\ condemned \in [Tasks -> [Generations -> BOOLEAN]]
  /\ stop \in [Stops -> StopRecord] /\ hunt \in [Stops -> [Tasks -> HuntRecord]]
  /\ drops \in 0 .. MaxDrops /\ overtaken \in BOOLEAN

LEMMA TypeParts == TypeOK <=> Typed /\ Linked
BY DEF TypeOK, Typed, Linked, StopRecord, HuntRecord, Steps, Lives

LEMMA Initially == Init => IInv
<1> SUFFICES ASSUME Init PROVE IInv
  OBVIOUS
<1>1. \A c \in Tasks : MaxStarts[c] \in Nat /\ \A g \in Generations : g \in Nat /\ g > 0
  BY Numbers
<1>2. Typed
  <2>1. stop \in [Stops -> StopRecord]
    BY DEF Init, NoStop, StopRecord
  <2>2. hunt \in [Stops -> [Tasks -> HuntRecord]]
    BY DEF Init, NoHunt, HuntRecord, Steps
  <2>3. drops \in 0 .. MaxDrops /\ \A c \in Tasks : gen[c] <= MaxStarts[c]
    BY <1>1, JobsAssumption DEF Init
  <2>4. /\ fiber \in [Tasks -> [Generations -> Lives]]
        /\ told \in [Tasks -> [Generations -> {None, "completed", "cancelled"}]]
        /\ condemned \in [Tasks -> [Generations -> BOOLEAN]]
    BY DEF Init, Lives
  <2> QED
    BY <2>1, <2>2, <2>3, <2>4 DEF Init, Typed
<1>3. Linked
  BY <1>1 DEF Init, Linked
<1>4. GenerationsFollow
  BY <1>1 DEF Init, GenerationsFollow
<1>5. EndsAreTheirOwn
  <2>1. \A c \in Tasks, g \in Generations : gen[c] = 0 /\ told[c][g] = None /\ ~(g < 0)
    BY <1>1 DEF Init
  <2> QED
    BY <2>1, JobsAssumption DEF EndsAreTheirOwn
<1>6. CondemnedIsAwaited /\ RunningJobsRun
  BY DEF Init, CondemnedIsAwaited, RunningJobsRun, Waits
<1>7. HuntsAreCurrent /\ HuntsAreTracked
  BY DEF Init, HuntsAreCurrent, HuntsAreTracked, Hunts, NoHunt, NoStop
<1> QED
  BY <1>2, <1>3, <1>4, <1>7, <1>5, <1>6, TypeParts DEF IInv

LEMMA TypeStep == TypeOK /\ GenerationsFollow /\ HuntsAreTracked /\ [Next]_vars => TypeOK'
<1> SUFFICES ASSUME TypeOK, GenerationsFollow, HuntsAreTracked, [Next]_vars PROVE Typed' /\ Linked'
  BY TypeParts DEF TypeOK, Typed, Linked, StopRecord, HuntRecord, Steps, Lives
<1>1. Typed /\ Linked
  BY TypeParts
<1> USE <1>1 DEF table
<1>2. ASSUME NEW s \in Sessions, Prompt(s) PROVE Typed' /\ Linked'
  BY <1>2 DEF Prompt, Typed, Linked
<1>3. ASSUME NEW s \in Sessions, Idle(s), UNCHANGED <<table, condemned, drops, overtaken>>,
             stop' \in [Stops -> StopRecord], hunt' \in [Stops -> [Tasks -> HuntRecord]]
      PROVE  Typed' /\ Linked'
  <2>1. /\ loop' \in [Sessions -> {"idle", "prompt", "task"}]
        /\ fiber' \in [Tasks -> [Generations -> Lives]]
        /\ \A c \in Tasks, g \in Generations :
              \/ fiber'[c][g] = fiber[c][g]
              \/ fiber[c][g] = "runs" /\ fiber'[c][g] = "ends"
    BY <1>3, Idling
  <2>2. Typed'
    BY <1>3, <2>1 DEF Typed
  <2>3. Linked'
    BY <1>3, <2>1 DEF Linked
  <2> QED
    BY <2>2, <2>3
<1>4. ASSUME NEW s \in Sessions, LoopEnds(s) PROVE Typed' /\ Linked'
  BY <1>3, <1>4 DEF LoopEnds, Typed
<1>5. ASSUME NEW c \in Tasks, Start(c) PROVE Typed' /\ Linked'
  <2> DEFINE n == gen[c] + 1
  <2>1. /\ n \in Generations /\ n <= MaxStarts[c] /\ gen' \in [Tasks -> Nat]
        /\ \A d \in Tasks : gen'[d] = IF d = c THEN n ELSE gen[d]
        /\ \A d \in Tasks : status'[d] = IF d = c THEN "running" ELSE status[d]
        /\ status' \in [Tasks -> {"none", "running", "completed", "cancelled"}]
        /\ loop' \in [Sessions -> {"idle", "prompt", "task"}]
        /\ fiber' \in [Tasks -> [Generations -> Lives]]
        /\ \A d \in Tasks, g \in Generations :
             fiber'[d][g] = IF d = c /\ g = n THEN "runs" ELSE fiber[d][g]
    BY <1>5, Starting
  <2>2. UNCHANGED <<told, condemned, stop, hunt, drops>> /\ overtaken' \in BOOLEAN
    BY <1>5 DEF Start
  <2>3. gen[c] \in Nat /\ n = gen[c] + 1 /\ \A g \in Generations : g \in Nat
    BY Numbers DEF Typed
  <2> HIDE DEF n
  <2>4. Typed'
    <3>1. \A d \in Tasks : gen'[d] <= MaxStarts[d]
      BY <2>1 DEF Typed
    <3> QED
      BY <2>1, <2>2, <3>1 DEF Typed
  <2>5. ASSUME NEW d \in Tasks, NEW g \in Generations
        PROVE  /\ fiber'[d][g] = "none" <=> g > gen'[d]
               /\ g = gen'[d] => (told'[d][g] = None <=> status'[d] = "running")
    <3>1. CASE d = c
      BY <2>1, <2>2, <2>3, <3>1 DEF Linked, GenerationsFollow
    <3>2. CASE d # c
      BY <2>1, <2>2, <3>2 DEF Linked
    <3> QED
      BY <3>1, <3>2
  <2> QED
    BY <2>4, <2>5 DEF Linked
<1>6. ASSUME NEW c \in Tasks, NEW how \in {"completed", "cancelled"}, Finish(c, how)
      PROVE  /\ gen' = gen /\ \A d \in Tasks, g \in Generations :
                  g = gen[d] => (told'[d][g] = None <=> status'[d] = "running")
             /\ status' \in [Tasks -> {"none", "running", "completed", "cancelled"}]
             /\ told' \in [Tasks -> [Generations -> {None, "completed", "cancelled"}]]
  BY <1>6, Finishing, JobsAssumption DEF Linked
<1>7. ASSUME NEW c \in Tasks, NEW g \in Generations, End(c, g) \/ Perish(c, g)
      PROVE  Typed' /\ Linked'
  <2>1. PICK how \in {"completed", "cancelled"} :
          /\ fiber[c][g] \in {"runs", "ends"} /\ fiber' = [fiber EXCEPT ![c][g] = how]
          /\ Finish(c, how) \/ UNCHANGED table
          /\ UNCHANGED <<loop, condemned, stop, hunt, drops, overtaken>>
    BY <1>7 DEF End, Perish
  <2>2. /\ fiber' \in [Tasks -> [Generations -> Lives]]
        /\ \A d \in Tasks, h \in Generations :
             fiber'[d][h] = IF d = c /\ h = g THEN how ELSE fiber[d][h]
    <3>1. how \in Lives
      BY DEF Lives
    <3> QED
      BY <2>1, <3>1, Moving
  <2>3. /\ gen' = gen /\ \A d \in Tasks, h \in Generations :
                  h = gen[d] => (told'[d][h] = None <=> status'[d] = "running")
        /\ status' \in [Tasks -> {"none", "running", "completed", "cancelled"}]
        /\ told' \in [Tasks -> [Generations -> {None, "completed", "cancelled"}]]
    BY <1>6, <2>1 DEF Linked, Typed
  <2> QED
    BY <2>1, <2>2, <2>3 DEF Typed, Linked
<1>8. ASSUME NEW k \in Stops, NEW s \in Cancelled, CancelSession(k, s) PROVE Typed' /\ Linked'
  <2> DEFINE listed == {c \in Tasks : status[c] = "running"}
             r == [step |-> "hunts", of |-> s, known |-> {s}, listed |-> {<<c, gen[c]>> : c \in listed}]
  <2>1. ASSUME NEW c \in listed PROVE gen[c] \in Generations
    <3>1. gen[c] \in 1 .. MaxStarts[c]
      BY Numbers DEF Typed, GenerationsFollow
    <3> QED
      BY <3>1, Numbers
  <2>2. s \in Sessions
    BY JobsAssumption
  <2>3. r \in StopRecord
    BY <2>1, <2>2 DEF StopRecord
  <2>4. stop' = [stop EXCEPT ![k] = r] /\ Hunting(k, Concerned(listed, {s}, s))
        /\ UNCHANGED <<loop, table, fiber, condemned, drops, overtaken>>
    BY <1>8 DEF CancelSession
  <2> HIDE DEF r, listed
  <2>5. stop' \in [Stops -> StopRecord]
    BY <2>3, <2>4 DEF Typed
  <2>6. hunt' \in [Stops -> [Tasks -> HuntRecord]]
    BY <2>4, HuntSpreads
  <2> QED
    BY <2>4, <2>5, <2>6 DEF Typed, Linked
<1>9. ASSUME NEW k \in Stops, NEW c \in Tasks, Look(k, c) PROVE Typed' /\ Linked'
  <2>1. UNCHANGED <<loop, table, fiber, drops, overtaken>>
    BY <1>9 DEF Look
  <2>2. CASE status[c] = "running"
    <3>1. gen[c] \in 1 .. MaxStarts[c]
      BY <2>2, Numbers DEF Typed, GenerationsFollow
    <3>2. gen[c] \in Generations
      BY <3>1, Numbers
    <3>3. [step |-> "wait", gen |-> gen[c]] \in HuntRecord
      BY <3>2 DEF HuntRecord, Steps
    <3>4. hunt' \in [Stops -> [Tasks -> HuntRecord]]
      BY <1>9, <2>2, <3>3, HuntMoves DEF Look
    <3>5. condemned' \in [Tasks -> [Generations -> BOOLEAN]] /\ stop' = stop
      BY <1>9, <2>2, <3>2, Condemning DEF Look
    <3> QED
      BY <2>1, <3>4, <3>5 DEF Typed, Linked
  <2>3. CASE status[c] # "running"
    <3>1. hunt' \in [Stops -> [Tasks -> HuntRecord]]
      BY <1>9, <2>3, HuntEnds DEF Look
    <3>2. stop' \in [Stops -> StopRecord] /\ condemned' = condemned
      BY <1>9, <2>3, Knowing DEF Look
    <3> QED
      BY <2>1, <3>1, <3>2 DEF Typed, Linked
  <2> QED
    BY <2>2, <2>3
<1>10. ASSUME NEW k \in Stops, NEW c \in Tasks, Awaited(k, c) PROVE Typed' /\ Linked'
  <2>1. /\ gen' = gen /\ \A d \in Tasks, h \in Generations :
                  h = gen[d] => (told'[d][h] = None <=> status'[d] = "running")
        /\ status' \in [Tasks -> {"none", "running", "completed", "cancelled"}]
        /\ told' \in [Tasks -> [Generations -> {None, "completed", "cancelled"}]]
    BY <1>6, <1>10 DEF Awaited
  <2>2. hunt' \in [Stops -> [Tasks -> HuntRecord]]
    BY <1>10, HuntEnds DEF Awaited
  <2>3. stop' \in [Stops -> StopRecord] /\ UNCHANGED <<loop, fiber, condemned, drops, overtaken>>
    BY <1>10, Knowing DEF Awaited
  <2> QED
    BY <2>1, <2>2, <2>3 DEF Typed, Linked
<1>11. ASSUME NEW k \in Stops, NextBatch(k) PROVE Typed' /\ Linked'
  <2>1. hunt' \in [Stops -> [Tasks -> HuntRecord]]
    BY <1>11, HuntSpreads DEF NextBatch
  <2> QED
    BY <1>11, <2>1 DEF NextBatch, Typed, Linked
<1>12. ASSUME NEW k \in Stops, StopLoop(k) PROVE Typed' /\ Linked'
  <2>1. stop[k].of \in Sessions
    BY <1>12, HuntForms DEF StopLoop, HuntsAreTracked, StopRecord
  <2>2. stop' \in [Stops -> StopRecord]
    BY <1>12 DEF StopLoop, Typed, NoStop, StopRecord
  <2>3. hunt' \in [Stops -> [Tasks -> HuntRecord]]
    BY <1>12 DEF StopLoop, Typed, NoHunt, HuntRecord, Steps
  <2> QED
    BY <1>3, <1>12, <2>1, <2>2, <2>3 DEF StopLoop
<1>13. ASSUME NEW k \in Stops, Drop(k) PROVE Typed' /\ Linked'
  <2>1. stop' \in [Stops -> StopRecord]
    BY <1>13 DEF Drop, Typed, NoStop, StopRecord
  <2>2. drops' \in 0 .. MaxDrops
    BY <1>13, JobsAssumption DEF Drop, Typed
  <2> QED
    BY <1>13, <2>1, <2>2 DEF Drop, Typed, Linked
<1>14. CASE UNCHANGED vars
  BY <1>14 DEF vars, Typed, Linked
<1> QED
  BY <1>2, <1>4, <1>5, <1>7, <1>8, <1>9, <1>10, <1>11, <1>12, <1>13, <1>14 DEF Next, Hunt

(* Whatever a step does, told generations stay told, and generations only   *)
(* get more.                                                                *)
LEMMA TableGrows ==
  ASSUME TypeOK, GenerationsFollow, [Next]_vars
  PROVE  \A c \in Tasks :
           /\ gen[c] <= gen'[c]
           /\ \A g \in Generations : told[c][g] # None => told'[c][g] = told[c][g]
<1>1. ASSUME NEW c \in Tasks, NEW how \in {"completed", "cancelled"}, Finish(c, how)
      PROVE  /\ gen' = gen
             /\ \A d \in Tasks, g \in Generations : told[d][g] # None => told'[d][g] = told[d][g]
  <2>1. \A g \in Generations : status[c] = "running" /\ g = gen[c] => told[c][g] = None
    BY DEF TypeOK
  <2> QED
    BY <1>1, <2>1, Finishing
<1>2. CASE UNCHANGED <<gen, told>>
  BY <1>2 DEF TypeOK
<1>3. ASSUME NEW c \in Tasks, Start(c)
      PROVE  \A d \in Tasks : gen[d] <= gen'[d] /\ told'[d] = told[d]
  BY <1>3, Starting DEF Start, TypeOK
<1>4. ASSUME NEW c \in Tasks, NEW g \in Generations, End(c, g) \/ Perish(c, g)
      PROVE  UNCHANGED <<gen, told>> \/ \E how \in {"completed", "cancelled"} : Finish(c, how)
  BY <1>4 DEF End, Perish, table
<1>5. ASSUME NEW k \in Stops, NEW c \in Tasks, Awaited(k, c) PROVE Finish(c, "cancelled")
  BY <1>5 DEF Awaited
<1>6. ASSUME ~ \E c \in Tasks : \/ Start(c) \/ \E g \in Generations : End(c, g) \/ Perish(c, g)
                               \/ \E k \in Stops : Awaited(k, c)
      PROVE  UNCHANGED <<gen, told>>
  BY <1>6 DEF Next, Hunt, Prompt, LoopEnds, Look, NextBatch, StopLoop, Drop, CancelSession, vars, table
<1>7. \A c \in Tasks : gen[c] <= gen[c]
  BY DEF TypeOK
<1> QED
  BY <1>1, <1>2, <1>3, <1>4, <1>5, <1>6, <1>7

LEMMA GenerationsStep == TypeOK /\ GenerationsFollow /\ [Next]_vars => GenerationsFollow'
<1> SUFFICES ASSUME TypeOK, GenerationsFollow, [Next]_vars PROVE GenerationsFollow'
  OBVIOUS
<1> USE DEF table
<1>1. ASSUME UNCHANGED <<gen, status, told, condemned>> PROVE GenerationsFollow'
  BY <1>1 DEF GenerationsFollow
<1>2. ASSUME NEW c \in Tasks, NEW how \in {"completed", "cancelled"}, Finish(c, how),
             condemned' = condemned
      PROVE  GenerationsFollow'
  <2>1. gen[c] = 0 => status[c] # "running"
    BY DEF GenerationsFollow
  <2>2. status[c] # "running" => status' = status /\ told' = told
    BY <1>2, Finishing
  <2>3. \A d \in Tasks : gen[d] = 0 => status'[d] = "none"
    BY <1>2, <2>1, <2>2, Finishing DEF GenerationsFollow
  <2>4. ASSUME NEW d \in Tasks, NEW g \in Generations
        PROVE  /\ g < gen[d] => told'[d][g] # None
               /\ g > gen[d] => told'[d][g] = None
    <3>1. told'[d][g] = told[d][g] \/ g = gen[d]
      BY <1>2, Finishing
    <3> QED
      BY <3>1, Numbers DEF GenerationsFollow, TypeOK
  <2>5. gen' = gen
    BY <1>2, Finishing
  <2> QED
    BY <1>2, <2>3, <2>4, <2>5 DEF GenerationsFollow
<1>3. ASSUME NEW c \in Tasks, Start(c) PROVE GenerationsFollow'
  <2> DEFINE n == gen[c] + 1
  <2>1. /\ gen[c] \in Nat /\ \A d \in Tasks : gen'[d] = IF d = c THEN n ELSE gen[d]
        /\ \A d \in Tasks : status'[d] = IF d = c THEN "running" ELSE status[d]
    BY <1>3, Starting
  <2>2. told' = told /\ condemned' = condemned /\ status[c] # "running"
    BY <1>3 DEF Start
  <2>3. ASSUME NEW d \in Tasks, NEW g \in Generations
        PROVE  /\ g < gen'[d] => told[d][g] # None
               /\ g > gen'[d] => told[d][g] = None
               /\ condemned[d][g] => g <= gen'[d]
    <3>1. CASE d = c
      <4>1. g \in Nat /\ gen'[c] = gen[c] + 1
        BY <2>1, Numbers
      <4>2. g < gen[c] + 1 => g < gen[c] \/ g = gen[c]
        BY <2>1, <4>1
      <4>3. g = gen[c] => told[c][g] # None
        BY <2>2 DEF TypeOK
      <4> QED
        BY <2>1, <3>1, <4>1, <4>2, <4>3 DEF GenerationsFollow
    <3>2. CASE d # c
      BY <2>1, <3>2 DEF GenerationsFollow
    <3> QED
      BY <3>1, <3>2
  <2>4. \A d \in Tasks : gen'[d] = 0 => status'[d] = "none"
    BY <2>1 DEF GenerationsFollow
  <2> QED
    BY <2>2, <2>3, <2>4 DEF GenerationsFollow
<1>4. ASSUME NEW c \in Tasks, NEW g \in Generations, End(c, g) \/ Perish(c, g)
      PROVE  GenerationsFollow'
  BY <1>1, <1>2, <1>4 DEF End, Perish
<1>5. ASSUME NEW k \in Stops, NEW c \in Tasks, Awaited(k, c) PROVE GenerationsFollow'
  BY <1>2, <1>5 DEF Awaited
<1>6. ASSUME NEW k \in Stops, NEW c \in Tasks, Look(k, c) PROVE GenerationsFollow'
  <2>1. UNCHANGED <<gen, status, told>>
    BY <1>6 DEF Look
  <2>2. CASE status[c] = "running"
    <3>1. gen[c] \in 1 .. MaxStarts[c]
      BY <2>2, Numbers DEF TypeOK, GenerationsFollow
    <3>2. gen[c] \in Generations
      BY <3>1, Numbers
    <3>3. \A d \in Tasks, h \in Generations :
            condemned'[d][h] = IF d = c /\ h = gen[c] THEN TRUE ELSE condemned[d][h]
      BY <1>6, <2>2, <3>2, Condemning DEF Look
    <3>4. gen[c] \in Nat
      BY DEF TypeOK
    <3>5. ASSUME NEW d \in Tasks, NEW h \in Generations PROVE condemned'[d][h] => h <= gen[d]
      <4>1. CASE d = c /\ h = gen[c]
        BY <3>4, <4>1
      <4>2. CASE ~ (d = c /\ h = gen[c])
        BY <3>3, <4>2 DEF GenerationsFollow
      <4> QED
        BY <4>1, <4>2
    <3> QED
      BY <2>1, <3>5 DEF GenerationsFollow
  <2>3. CASE status[c] # "running"
    BY <1>1, <1>6, <2>1, <2>3 DEF Look
  <2> QED
    BY <2>2, <2>3
<1>7. ASSUME ~ \E c \in Tasks : \/ Start(c) \/ \E g \in Generations : End(c, g) \/ Perish(c, g)
                               \/ \E k \in Stops : Awaited(k, c) \/ Look(k, c)
      PROVE  UNCHANGED <<gen, status, told, condemned>>
  BY <1>7 DEF Next, Hunt, Prompt, LoopEnds, NextBatch, StopLoop, Drop, CancelSession, vars
<1> QED
  BY <1>1, <1>3, <1>4, <1>5, <1>6, <1>7

(* Who waits goes on until the fiber is over, or until he is dropped, and   *)
(* then counts as one who waits.                                            *)
LEMMA WaitsLast ==
  ASSUME TypeOK, HuntsAreTracked, [Next]_vars, NEW k \in Stops, NEW c \in Tasks,
         Waits(k, c), ~Awaited(k, c)
  PROVE  Waits(k, c)' /\ hunt'[k][c] = hunt[k][c]
<1> USE DEF Waits
<1>1. ASSUME NEW j \in Stops, NEW s \in Cancelled, CancelSession(j, s)
      PROVE  Waits(k, c)' /\ hunt'[k][c] = hunt[k][c]
  <2>1. stop[j].step = "new" /\ j # k
    BY <1>1 DEF CancelSession, HuntsAreTracked, Stops
  <2>2. hunt'[k] = hunt[k]
    BY <1>1, <2>1, HuntSpreads DEF CancelSession
  <2>3. stop'[k] = stop[k]
    BY <1>1, <2>1, HuntForms DEF CancelSession
  <2> QED
    BY <2>2, <2>3
<1>2. ASSUME NEW j \in Stops, NEW d \in Tasks, Look(j, d)
      PROVE  Waits(k, c)' /\ hunt'[k][c] = hunt[k][c]
  <2>1. ~(j = k /\ d = c)
    BY <1>2 DEF Look
  <2>2. CASE status[d] = "running"
    <3>1. stop' = stop /\ hunt' = [hunt EXCEPT ![j][d] = [step |-> "wait", gen |-> gen[d]]]
      BY <1>2, <2>2 DEF Look
    <3>2. hunt \in [Stops -> [Tasks -> HuntRecord]]
      BY HuntForms
    <3>3. hunt'[k][c] = hunt[k][c]
      BY <2>1, <3>1, <3>2
    <3> QED
      BY <3>1, <3>3
  <2>3. CASE status[d] # "running"
    <3> HIDE DEF Waits
    <3>0. hunt' = [hunt EXCEPT ![j][d].step = "done"]
      BY <1>2, <2>3 DEF Look
    <3>1. hunt'[k][c] = hunt[k][c]
      BY <2>1, <3>0, HuntEnds
    <3>2. stop'[k].step = stop[k].step
      BY <1>2, <2>3, Knowing DEF Look
    <3> QED
      BY <3>1, <3>2 DEF Waits
  <2> QED
    BY <2>2, <2>3
<1>3. ASSUME NEW j \in Stops, NEW d \in Tasks, Awaited(j, d)
      PROVE  Waits(k, c)' /\ hunt'[k][c] = hunt[k][c]
  <2>1. ~(j = k /\ d = c)
    BY <1>3
  <2>2. hunt'[k][c] = hunt[k][c]
    BY <1>3, <2>1, HuntEnds DEF Awaited
  <2>3. stop'[k].step = stop[k].step
    BY <1>3, Knowing DEF Awaited
  <2> QED
    BY <2>2, <2>3
<1>4. ASSUME NEW j \in Stops, NextBatch(j) PROVE Waits(k, c)' /\ hunt'[k][c] = hunt[k][c]
  <2>1. j # k /\ stop' = stop
    BY <1>4 DEF NextBatch
  <2>2. hunt'[k] = hunt[k]
    BY <1>4, <2>1, HuntSpreads DEF NextBatch
  <2> QED
    BY <2>1, <2>2
<1>5. ASSUME NEW j \in Stops, StopLoop(j) PROVE Waits(k, c)' /\ hunt'[k][c] = hunt[k][c]
  <2>1. j # k
    BY <1>5 DEF StopLoop
  <2> QED
    BY <1>5, <2>1, HuntForms DEF StopLoop
<1>6. ASSUME NEW j \in Stops, Drop(j) PROVE Waits(k, c)' /\ hunt'[k][c] = hunt[k][c]
  <2>1. stop'[k].step \in {stop[k].step, "dropped"}
    BY <1>6, HuntForms DEF Drop, NoStop
  <2> QED
    BY <1>6, <2>1 DEF Drop
<1>7. CASE UNCHANGED <<stop, hunt>>
  BY <1>7
<1> QED
  BY <1>1, <1>2, <1>3, <1>4, <1>5, <1>6, <1>7
  DEF Next, Hunt, Prompt, LoopEnds, Start, End, Perish, vars

LEMMA RunningStep ==
  ASSUME TypeOK, GenerationsFollow, HuntsAreTracked, CondemnedIsAwaited, RunningJobsRun,
         [Next]_vars
  PROVE  CondemnedIsAwaited' /\ RunningJobsRun'
<1> DEFINE Good(c) == status'[c] = "running" =>
                        /\ condemned'[c][gen'[c]] => \E k \in Stops : Waits(k, c)'
                        /\ ~Over(c, gen[c])' \/ \E k \in Stops : Waits(k, c)'
<1> SUFFICES ASSUME NEW c \in Tasks, status'[c] = "running" PROVE Good(c)
  BY DEF CondemnedIsAwaited, RunningJobsRun, Waits
<1>1. gen'[c] \in Generations
  <2>1. TypeOK' /\ GenerationsFollow'
    BY TypeStep, GenerationsStep
  <2>2. gen'[c] \in 1 .. MaxStarts[c]
    BY <2>1, Numbers DEF TypeOK, GenerationsFollow
  <2> QED
    BY <2>2, Numbers
<1>2. ASSUME NEW k \in Stops, NEW d \in Tasks, Awaited(k, d) PROVE d # c
  BY <1>2, Finishing DEF Awaited
<1>3. ASSUME NEW k \in Stops, Waits(k, c) PROVE Good(c)
  BY <1>2, <1>3, WaitsLast
<1>4. CASE Start(c)
  <2>1. gen'[c] = gen[c] + 1 /\ gen[c] \in Nat /\ fiber'[c][gen'[c]] = "runs"
    BY <1>1, <1>4, Starting
  <2>2. ~condemned[c][gen'[c]]
    BY <1>1, <2>1 DEF GenerationsFollow
  <2> QED
    BY <1>4, <2>1, <2>2 DEF Start, Over
<1>5. ASSUME ~Start(c), ~ \E k \in Stops : Waits(k, c)
      PROVE  /\ status[c] = "running" /\ gen'[c] = gen[c]
             /\ ~Over(c, gen[c]) /\ ~condemned[c][gen[c]]
  <2>1. status[c] = "running" /\ gen'[c] = gen[c]
    <3>1. ASSUME NEW d \in Tasks, NEW how \in {"completed", "cancelled"}, Finish(d, how)
          PROVE  status[c] = "running" /\ gen'[c] = gen[c]
      BY <3>1, Finishing
    <3>2. ASSUME NEW d \in Tasks, Start(d) PROVE status[c] = "running" /\ gen'[c] = gen[c]
      BY <1>5, <3>2, Starting
    <3>3. CASE UNCHANGED <<status, gen>>
      BY <3>3
    <3>4. ASSUME NEW d \in Tasks, NEW g \in Generations, End(d, g) \/ Perish(d, g)
          PROVE  UNCHANGED <<status, gen>> \/ \E how \in {"completed", "cancelled"} : Finish(d, how)
      BY <3>4 DEF End, Perish, table
    <3>5. ASSUME NEW k \in Stops, NEW d \in Tasks, Awaited(k, d) PROVE Finish(d, "cancelled")
      BY <3>5 DEF Awaited
    <3>6. ASSUME ~ \E d \in Tasks : \/ Start(d) \/ \E g \in Generations : End(d, g) \/ Perish(d, g)
                                   \/ \E k \in Stops : Awaited(k, d)
          PROVE  UNCHANGED <<status, gen>>
      BY <3>6 DEF Next, Hunt, Prompt, LoopEnds, Look, NextBatch, StopLoop, Drop, CancelSession, vars,
                  table
    <3> QED
      BY <3>1, <3>2, <3>3, <3>4, <3>5, <3>6
  <2> QED
    BY <1>5, <2>1 DEF RunningJobsRun, CondemnedIsAwaited, Waits
<1>6. ASSUME ~Start(c), ~ \E k \in Stops : Waits(k, c) PROVE Good(c)
  <2>1. /\ status[c] = "running" /\ gen'[c] = gen[c] /\ ~Over(c, gen[c]) /\ ~condemned[c][gen[c]]
        /\ gen[c] \in Generations
    BY <1>1, <1>5, <1>6
  <2>2. ASSUME fiber'[c][gen[c]] = fiber[c][gen[c]], condemned'[c][gen[c]] = condemned[c][gen[c]]
        PROVE  Good(c)
    BY <2>1, <2>2 DEF Over
  <2>3. CASE UNCHANGED <<fiber, condemned>>
    BY <2>2, <2>3
  <2>4. ASSUME NEW s \in Sessions, Idle(s), UNCHANGED condemned PROVE Good(c)
    BY <2>1, <2>4, Idling DEF Over
  <2>5. ASSUME NEW d \in Tasks, Start(d) PROVE Good(c)
    BY <1>6, <2>1, <2>2, <2>5, Starting DEF Start
  <2>6. ASSUME NEW d \in Tasks, NEW g \in Generations, End(d, g) PROVE Good(c)
    <3>1. d # c
      BY <2>1, <2>6, Finishing DEF End
    <3>2. fiber' = [fiber EXCEPT ![d][g] = "completed"] /\ condemned' = condemned /\ "completed" \in Lives
      BY <2>6 DEF End, Lives
    <3>3. fiber'[c][gen[c]] = fiber[c][gen[c]]
      BY <2>1, <3>1, <3>2, Moving
    <3> QED
      BY <2>2, <3>2, <3>3
  <2>7. ASSUME NEW d \in Tasks, NEW g \in Generations, Perish(d, g) PROVE Good(c)
    <3>1. ~(d = c /\ g = gen[c])
      BY <2>1, <2>7 DEF Perish
    <3>2. fiber' = [fiber EXCEPT ![d][g] = "cancelled"] /\ condemned' = condemned /\ "cancelled" \in Lives
      BY <2>7 DEF Perish, Lives
    <3>3. fiber'[c][gen[c]] = fiber[c][gen[c]]
      BY <2>1, <3>1, <3>2, Moving
    <3> QED
      BY <2>2, <3>2, <3>3
  <2>8. ASSUME NEW k \in Stops, NEW d \in Tasks, Look(k, d) PROVE Good(c)
    <3>1. UNCHANGED <<loop, table, fiber>>
      BY <2>8 DEF Look
    <3>2. CASE status[d] # "running"
      BY <2>3, <2>8, <3>1, <3>2 DEF Look
    <3>3. CASE status[d] = "running" /\ d # c
      <4>1. condemned' = [condemned EXCEPT ![d][gen[d]] = TRUE]
        BY <2>8, <3>3 DEF Look
      <4>2. condemned'[c] = condemned[c]
        BY <3>3, <4>1 DEF TypeOK
      <4> QED
        BY <2>2, <3>1, <4>2
    <3>4. CASE d = c
      <4>1. /\ hunt' = [hunt EXCEPT ![k][c] = [step |-> "wait", gen |-> gen[c]]]
            /\ stop' = stop /\ stop[k].step = "hunts"
        BY <2>1, <2>8, <3>4 DEF Look
      <4>2. hunt'[k][c] = [step |-> "wait", gen |-> gen[c]]
        BY <4>1, HuntForms
      <4>3. Waits(k, c)'
        BY <4>1, <4>2 DEF Waits
      <4> QED
        BY <4>3
    <3> QED
      BY <3>2, <3>3, <3>4
  <2>9. ASSUME NEW s \in Sessions, LoopEnds(s) PROVE Good(c)
    BY <2>4, <2>9 DEF LoopEnds
  <2>10. ASSUME NEW k \in Stops, StopLoop(k) PROVE Good(c)
    <3>1. stop[k].of \in Sessions
      BY <2>10, HuntForms DEF StopLoop, HuntsAreTracked, StopRecord
    <3> QED
      BY <2>4, <2>10, <3>1 DEF StopLoop
  <2>11. ASSUME NEW k \in Stops, NEW d \in Tasks, Awaited(k, d) PROVE Good(c)
    BY <2>3, <2>11 DEF Awaited
  <2>12. CASE UNCHANGED <<fiber, condemned>>
    BY <2>3, <2>12
  <2> QED
    BY <2>5, <2>6, <2>7, <2>8, <2>9, <2>10, <2>11, <2>12
    DEF Next, Hunt, Prompt, NextBatch, Drop, CancelSession, vars
<1> QED
  BY <1>3, <1>4, <1>6

(* Who waits took the fiber of the generation that was the last one.        *)
LEMMA CurrentStep ==
  ASSUME TypeOK, GenerationsFollow, HuntsAreTracked, HuntsAreCurrent, [Next]_vars
  PROVE  HuntsAreCurrent'
<1> DEFINE Good(k, c) == /\ hunt'[k][c].step = "wait" => hunt'[k][c].gen \in Generations
                         /\ ~overtaken' /\ Hunts(k, c)' => hunt'[k][c].gen = gen'[c]
<1> SUFFICES ASSUME NEW k \in Stops, NEW c \in Tasks, hunt'[k][c].step = "wait" PROVE Good(k, c)
  BY DEF HuntsAreCurrent, Hunts
<1>1. CASE Look(k, c) /\ status[c] = "running"
  <2>1. hunt' = [hunt EXCEPT ![k][c] = [step |-> "wait", gen |-> gen[c]]] /\ gen' = gen
    BY <1>1 DEF Look, table
  <2>2. hunt'[k][c] = [step |-> "wait", gen |-> gen[c]]
    BY <2>1, HuntForms
  <2>3. gen[c] \in 1 .. MaxStarts[c]
    BY <1>1, Numbers DEF TypeOK, GenerationsFollow
  <2> QED
    BY <2>1, <2>2, <2>3, Numbers
<1>2. ASSUME hunt'[k][c] = hunt[k][c], Hunts(k, c)' => Hunts(k, c),
             overtaken => overtaken', gen'[c] = gen[c] \/ overtaken' \/ ~Hunts(k, c)
      PROVE  Good(k, c)
  BY <1>2 DEF HuntsAreCurrent
<1>3. CASE Look(k, c) /\ status[c] # "running"
  <2>1. hunt' = [hunt EXCEPT ![k][c].step = "done"]
    BY <1>3 DEF Look
  <2>2. hunt'[k][c] = [step |-> "done", gen |-> hunt[k][c].gen]
    BY <2>1, HuntEnds
  <2> QED
    BY <2>2
<1>4. ASSUME NEW j \in Stops, NEW d \in Tasks, Look(j, d), ~(j = k /\ d = c) PROVE Good(k, c)
  <2>1. hunt'[k][c] = hunt[k][c]
    <3>1. CASE status[d] = "running"
      <4>1. hunt' = [hunt EXCEPT ![j][d] = [step |-> "wait", gen |-> gen[d]]]
        BY <1>4, <3>1 DEF Look
      <4> QED
        BY <1>4, <4>1, HuntForms
    <3>2. CASE status[d] # "running"
      <4>1. hunt' = [hunt EXCEPT ![j][d].step = "done"]
        BY <1>4, <3>2 DEF Look
      <4> QED
        BY <1>4, <4>1, HuntEnds
    <3> QED
      BY <3>1, <3>2
  <2>2. stop'[k].step = stop[k].step
    BY <1>4, Knowing DEF Look
  <2>3. gen' = gen /\ overtaken' = overtaken
    BY <1>4 DEF Look, table
  <2> QED
    BY <1>2, <2>1, <2>2, <2>3 DEF Hunts
<1>5. ASSUME NEW j \in Stops, NEW d \in Tasks, Awaited(j, d) PROVE Good(k, c)
  <2>1. hunt'[k][c] = hunt[k][c]
    BY <1>5, HuntEnds DEF Awaited
  <2>2. stop'[k].step = stop[k].step
    BY <1>5, Knowing DEF Awaited
  <2>3. gen' = gen /\ overtaken' = overtaken
    BY <1>5, Finishing DEF Awaited
  <2> QED
    BY <1>2, <2>1, <2>2, <2>3 DEF Hunts
<1>6. ASSUME NEW j \in Stops, NEW s \in Cancelled, CancelSession(j, s) PROVE Good(k, c)
  <2>1. hunt'[k][c] = hunt[k][c] /\ gen' = gen /\ overtaken' = overtaken
    BY <1>6, HuntSpreads DEF CancelSession, table
  <2>2. j # k
    BY <1>6, <2>1 DEF CancelSession, HuntsAreTracked, Stops
  <2>3. stop'[k] = stop[k]
    BY <1>6, <2>2, HuntForms DEF CancelSession
  <2> QED
    BY <1>2, <2>1, <2>3 DEF Hunts
<1>7. ASSUME NEW j \in Stops, NextBatch(j) PROVE Good(k, c)
  <2>1. hunt'[k][c] = hunt[k][c]
    BY <1>7, HuntSpreads DEF NextBatch
  <2> QED
    BY <1>2, <1>7, <2>1 DEF NextBatch, Hunts, table
<1>8. ASSUME NEW j \in Stops, StopLoop(j) PROVE Good(k, c)
  <2>1. k # j /\ hunt'[k] = hunt[k]
    BY <1>8, HuntForms DEF StopLoop, NoHunt
  <2>2. stop'[k] = stop[k]
    BY <1>8, <2>1, HuntForms DEF StopLoop
  <2> QED
    BY <1>2, <1>8, <2>1, <2>2 DEF StopLoop, Hunts, table
<1>9. ASSUME NEW j \in Stops, Drop(j) PROVE Good(k, c)
  <2>1. stop'[k].step \in {stop[k].step, "dropped"}
    BY <1>9, HuntForms DEF Drop, NoStop
  <2> QED
    BY <1>2, <1>9, <2>1 DEF Drop, Hunts, table
<1>10. ASSUME NEW d \in Tasks, Start(d) PROVE Good(k, c)
  <2>1. gen'[c] = gen[c] \/ d = c
    BY <1>10, Starting
  <2>2. UNCHANGED <<stop, hunt>> /\ overtaken' = (overtaken \/ \E j \in Stops : Hunts(j, d))
    BY <1>10 DEF Start
  <2> QED
    BY <1>2, <2>1, <2>2 DEF Hunts
<1>11. ASSUME NEW d \in Tasks, NEW g \in Generations, End(d, g) \/ Perish(d, g) PROVE Good(k, c)
  <2>1. gen' = gen
    BY <1>11, Finishing DEF End, Perish, table
  <2> QED
    BY <1>2, <1>11, <2>1 DEF End, Perish, Hunts
<1>12. CASE UNCHANGED <<gen, stop, hunt, overtaken>>
  BY <1>2, <1>12 DEF Hunts
<1> QED
  BY <1>1, <1>3, <1>4, <1>5, <1>6, <1>7, <1>8, <1>9, <1>10, <1>11, <1>12
  DEF Next, Hunt, Prompt, LoopEnds, table, vars

(* A cancellation is through with a task when what it listed of it has been *)
(* told.                                                                    *)
LEMMA TrackedStep ==
  ASSUME TypeOK, GenerationsFollow, HuntsAreTracked, [Next]_vars
  PROVE  HuntsAreTracked'
<1> DEFINE Idles(k) == stop'[k].step \in {"new", "done"} => \A c \in Tasks : hunt'[k][c].step = "none"
           Tracks(k) ==
             stop'[k].step = "hunts" =>
               /\ stop'[k].of \in stop'[k].known
               /\ \A c \in Tasks : hunt'[k][c].step = "done" => c \in stop'[k].known
               /\ \A x \in stop'[k].listed :
                    x[2] <= gen'[x[1]] /\ (hunt'[k][x[1]].step = "done" => told'[x[1]][x[2]] # None)
<1> SUFFICES ASSUME NEW k \in Stops PROVE Idles(k) /\ Tracks(k)
  BY DEF HuntsAreTracked
<1>1. \A x \in stop[k].listed : x[1] \in Tasks /\ x[2] \in Generations
  BY HuntForms DEF StopRecord
<1>2. \A c \in Tasks : /\ gen[c] \in Nat /\ gen'[c] \in Nat /\ gen[c] <= gen'[c]
                       /\ \A g \in Generations : g \in Nat /\ (told[c][g] # None => told'[c][g] # None)
  BY TableGrows, TypeStep, Numbers DEF TypeOK
<1>3. ASSUME stop'[k] = stop[k],
             \A c \in Tasks : hunt'[k][c].step = "done" => hunt[k][c].step = "done",
             \A c \in Tasks : stop[k].step \in {"new", "done"} => hunt'[k][c] = hunt[k][c]
      PROVE  Idles(k) /\ Tracks(k)
  BY <1>1, <1>2, <1>3 DEF HuntsAreTracked
<1>4. ASSUME NEW c \in Tasks, Known(k, c), stop[k].step = "hunts",
             hunt' = [hunt EXCEPT ![k][c].step = "done"],
             \A g \in Generations : g <= gen[c] => told'[c][g] # None
      PROVE  Idles(k) /\ Tracks(k)
  <2>1. /\ hunt'[k][c] = [step |-> "done", gen |-> hunt[k][c].gen]
        /\ \A d \in Tasks : d # c => hunt'[k][d] = hunt[k][d]
    BY <1>4, HuntEnds
  <2>2. /\ stop'[k].step = "hunts" /\ stop'[k].of = stop[k].of
        /\ stop'[k].listed = stop[k].listed /\ stop'[k].known = stop[k].known \cup {c}
    BY <1>4, Knowing
  <2>3. ASSUME NEW x \in stop[k].listed
        PROVE  /\ x[2] <= gen'[x[1]]
               /\ hunt'[k][x[1]].step = "done" => told'[x[1]][x[2]] # None
    <3>1. /\ x[1] \in Tasks /\ x[2] \in Generations /\ x[2] <= gen[x[1]]
          /\ hunt[k][x[1]].step = "done" => told[x[1]][x[2]] # None
      BY <1>1, <1>4 DEF HuntsAreTracked
    <3>2. x[2] <= gen'[x[1]]
      BY <1>2, <3>1
    <3>3. CASE x[1] = c
      BY <1>4, <3>1, <3>2, <3>3
    <3>4. CASE x[1] # c
      BY <1>2, <2>1, <3>1, <3>2, <3>4
    <3> QED
      BY <3>3, <3>4
  <2>4. /\ stop'[k].of \in stop'[k].known
        /\ \A d \in Tasks : hunt'[k][d].step = "done" => d \in stop'[k].known
    BY <1>4, <2>1, <2>2 DEF HuntsAreTracked
  <2> QED
    BY <2>2, <2>3, <2>4
<1>5. ASSUME NEW j \in Stops, NEW c \in Tasks, Look(j, c) PROVE Idles(k) /\ Tracks(k)
  <2>1. CASE status[c] = "running"
    <3>1. /\ hunt' = [hunt EXCEPT ![j][c] = [step |-> "wait", gen |-> gen[c]]]
          /\ stop' = stop /\ stop[j].step = "hunts"
      BY <1>5, <2>1 DEF Look
    <3>2. \A d \in Tasks :
            hunt'[k][d] = IF k = j /\ d = c THEN [step |-> "wait", gen |-> gen[c]] ELSE hunt[k][d]
      <4>1. hunt \in [Stops -> [Tasks -> HuntRecord]]
        BY HuntForms
      <4> QED
        BY <3>1, <4>1
    <3>3. \A d \in Tasks : hunt'[k][d].step = "done" => hunt[k][d].step = "done"
      BY <3>2
    <3>4. \A d \in Tasks : stop[k].step \in {"new", "done"} => hunt'[k][d] = hunt[k][d]
      BY <3>1, <3>2
    <3> QED
      BY <1>3, <3>1, <3>3, <3>4
  <2>2. CASE status[c] # "running"
    <3>1. /\ hunt' = [hunt EXCEPT ![j][c].step = "done"] /\ Known(j, c)
          /\ stop[j].step = "hunts" /\ told' = told
      BY <1>5, <2>2 DEF Look, table
    <3>2. CASE j = k
      <4>1. \A g \in Generations : g <= gen[c] => told[c][g] # None
        <5>1. \A g \in Generations : g <= gen[c] => g < gen[c] \/ g = gen[c]
          BY <1>2
        <5> QED
          BY <2>2, <5>1 DEF TypeOK, GenerationsFollow
      <4> QED
        BY <1>4, <3>1, <3>2, <4>1
    <3>3. CASE j # k
      <4>1. \A d \in Tasks : hunt'[k][d] = hunt[k][d]
        BY <3>1, <3>3, HuntEnds
      <4>2. stop'[k] = stop[k]
        BY <3>1, <3>3, Knowing
      <4> QED
        BY <1>3, <4>1, <4>2
    <3> QED
      BY <3>2, <3>3
  <2> QED
    BY <2>1, <2>2
<1>6. ASSUME NEW j \in Stops, NEW c \in Tasks, Awaited(j, c) PROVE Idles(k) /\ Tracks(k)
  <2>1. /\ hunt' = [hunt EXCEPT ![j][c].step = "done"] /\ Known(j, c)
        /\ stop[j].step = "hunts" /\ Finish(c, "cancelled")
    BY <1>6 DEF Awaited
  <2>2. CASE j = k
    <3>1. ASSUME NEW g \in Generations, g <= gen[c] PROVE told'[c][g] # None
      <4>1. CASE g < gen[c]
        BY <1>2, <4>1 DEF GenerationsFollow
      <4>2. CASE g = gen[c] /\ status[c] = "running"
        BY <2>1, <4>2, Finishing, JobsAssumption
      <4>3. CASE g = gen[c] /\ status[c] # "running"
        BY <1>2, <4>3 DEF TypeOK
      <4> QED
        BY <1>2, <3>1, <4>1, <4>2, <4>3
    <3> QED
      BY <1>4, <2>1, <2>2, <3>1
  <2>3. CASE j # k
    <3>1. \A d \in Tasks : hunt'[k][d] = hunt[k][d]
      BY <2>1, <2>3, HuntEnds
    <3>2. stop'[k] = stop[k]
      BY <2>1, <2>3, Knowing
    <3> QED
      BY <1>3, <3>1, <3>2
  <2> QED
    BY <2>2, <2>3
<1>7. ASSUME NEW j \in Stops, NEW s \in Cancelled, CancelSession(j, s) PROVE Idles(k) /\ Tracks(k)
  <2> DEFINE listed == {c \in Tasks : status[c] = "running"}
             r == [step |-> "hunts", of |-> s, known |-> {s}, listed |-> {<<c, gen[c]>> : c \in listed}]
  <2>1. /\ stop' = [stop EXCEPT ![j] = r] /\ Hunting(j, Concerned(listed, {s}, s))
        /\ gen' = gen /\ stop[j].step = "new"
    BY <1>7 DEF CancelSession, table, Stops
  <2>2. CASE j = k
    <3>1. stop'[k] = r
      BY <2>1, <2>2, HuntForms
    <3>2. \A c \in Tasks : hunt'[k][c].step # "done"
      BY <2>1, <2>2, HuntSpreads DEF HuntsAreTracked
    <3>3. \A x \in r.listed : x[1] \in Tasks /\ x[2] = gen[x[1]]
      OBVIOUS
    <3>4. r.step = "hunts" /\ r.of \in r.known
      OBVIOUS
    <3> HIDE DEF r
    <3> QED
      BY <1>2, <2>1, <3>1, <3>2, <3>3, <3>4
  <2>3. CASE j # k
    <3> HIDE DEF r, listed
    <3>1. hunt'[k] = hunt[k] /\ stop'[k] = stop[k]
      BY <2>1, <2>3, HuntSpreads, HuntForms
    <3> QED
      BY <1>3, <3>1
  <2> QED
    BY <2>2, <2>3
<1>8. ASSUME NEW j \in Stops, NextBatch(j) PROVE Idles(k) /\ Tracks(k)
  <2>1. stop' = stop /\ stop[j].step = "hunts" /\ Hunting(j, Batch(j))
    BY <1>8 DEF NextBatch
  <2>2. /\ \A c \in Tasks : hunt'[k][c].step = "done" => hunt[k][c].step = "done"
        /\ j # k => hunt'[k] = hunt[k]
    BY <2>1, HuntSpreads
  <2> QED
    BY <1>3, <2>1, <2>2
<1>9. ASSUME NEW j \in Stops, StopLoop(j) PROVE Idles(k) /\ Tracks(k)
  <2>1. CASE j = k
    <3>1. stop'[k].step = "done"
      BY <1>9, <2>1, HuntForms DEF StopLoop, NoStop
    <3>2. hunt'[k] = [c \in Tasks |-> NoHunt]
      BY <1>9, <2>1, HuntForms DEF StopLoop
    <3> QED
      BY <3>1, <3>2 DEF NoHunt
  <2>2. CASE j # k
    <3>1. stop'[k] = stop[k] /\ hunt'[k] = hunt[k]
      BY <1>9, <2>2, HuntForms DEF StopLoop
    <3> QED
      BY <1>3, <3>1
  <2> QED
    BY <2>1, <2>2
<1>10. ASSUME NEW j \in Stops, Drop(j) PROVE Idles(k) /\ Tracks(k)
  <2>1. CASE j = k
    <3>1. stop'[k].step = "dropped"
      BY <1>10, <2>1, HuntForms DEF Drop, NoStop
    <3> QED
      BY <3>1
  <2>2. CASE j # k
    <3>1. stop'[k] = stop[k] /\ hunt' = hunt
      BY <1>10, <2>2, HuntForms DEF Drop
    <3> QED
      BY <1>3, <3>1
  <2> QED
    BY <2>1, <2>2
<1>11. CASE UNCHANGED <<stop, hunt>>
  BY <1>3, <1>11
<1> QED
  BY <1>5, <1>6, <1>7, <1>8, <1>9, <1>10, <1>11
  DEF Next, Hunt, Prompt, LoopEnds, Start, End, Perish, vars

(* An end that is told is that of the generation's own fiber.               *)
LEMMA EndsStep ==
  ASSUME TypeOK, GenerationsFollow, HuntsAreTracked, HuntsAreCurrent, EndsAreTheirOwn,
         [Next]_vars
  PROVE  EndsAreTheirOwn'
<1> DEFINE Good(c, g) == /\ g < gen'[c] => Over(c, g)'
                         /\ told'[c][g] # None => Over(c, g)'
                         /\ told'[c][g] = "completed" => fiber'[c][g] = "completed"
<1>1. overtaken => overtaken'
  BY DEF Next, Hunt, Prompt, LoopEnds, Start, End, Perish, Look, Awaited, NextBatch, StopLoop, Drop,
         CancelSession, vars
<1> SUFFICES ASSUME ~overtaken, NEW c \in Tasks, NEW g \in Generations PROVE Good(c, g)
  BY <1>1 DEF EndsAreTheirOwn
<1>2. /\ g \in Nat /\ gen[c] \in Nat
      /\ g < gen[c] => Over(c, g)
      /\ told[c][g] # None => Over(c, g)
      /\ told[c][g] = "completed" => fiber[c][g] = "completed"
  BY Numbers DEF TypeOK, EndsAreTheirOwn
<1>3. ASSUME UNCHANGED <<gen, told>>, Over(c, g) => fiber'[c][g] = fiber[c][g] PROVE Good(c, g)
  BY <1>2, <1>3 DEF Over
<1>4. CASE UNCHANGED <<gen, told, fiber>>
  BY <1>3, <1>4
<1>5. ASSUME NEW s \in Sessions, Idle(s), UNCHANGED <<gen, told>> PROVE Good(c, g)
  <2>1. Over(c, g) => fiber'[c][g] = fiber[c][g]
    BY <1>5, Idling DEF Over
  <2> QED
    BY <1>3, <1>5, <2>1
<1>6. ASSUME NEW d \in Tasks, Start(d) PROVE Good(c, g)
  <2>1. /\ gen'[c] = IF c = d THEN gen[d] + 1 ELSE gen[c]
        /\ fiber'[c][g] = IF c = d /\ g = gen[d] + 1 THEN "runs" ELSE fiber[c][g]
        /\ told' = told /\ status[d] # "running"
    <3>1. gen'[c] = IF c = d THEN gen[d] + 1 ELSE gen[c]
      BY <1>6, Starting
    <3>2. fiber'[c][g] = IF c = d /\ g = gen[d] + 1 THEN "runs" ELSE fiber[c][g]
      BY <1>6, Starting
    <3> QED
      BY <1>6, <3>1, <3>2 DEF Start
  <2>2. CASE c # d
    BY <1>2, <2>1, <2>2 DEF Over
  <2>3. CASE c = d
    <3>1. g = gen[c] => told[c][g] # None
      BY <2>1, <2>3 DEF TypeOK
    <3>2. g = gen[c] + 1 => told[c][g] = None
      BY <1>2 DEF GenerationsFollow
    <3>3. g < gen[c] + 1 => (g < gen[c] \/ g = gen[c]) /\ g # gen[c] + 1
      BY <1>2
    <3> QED
      BY <1>2, <2>1, <2>3, <3>1, <3>2, <3>3, JobsAssumption DEF Over
  <2> QED
    BY <2>2, <2>3
<1>7. ASSUME NEW d \in Tasks, NEW h \in Generations, NEW how \in {"completed", "cancelled"},
             fiber[d][h] \in {"runs", "ends"}, fiber' = [fiber EXCEPT ![d][h] = how],
             Finish(d, how) \/ UNCHANGED table
      PROVE  Good(c, g)
  <2>1. how \in Lives
    BY DEF Lives
  <2>2. fiber'[c][g] = IF c = d /\ g = h THEN how ELSE fiber[c][g]
    BY <1>7, <2>1, Moving
  <2>3. Over(c, g) => fiber'[c][g] = fiber[c][g]
    BY <1>7, <2>2 DEF Over
  <2>4. CASE UNCHANGED table
    BY <1>3, <2>3, <2>4 DEF table
  <2>5. CASE Finish(d, how)
    <3>1. gen' = gen
      BY <2>5, Finishing
    <3>2. CASE told'[c][g] = told[c][g]
      BY <1>2, <2>3, <3>1, <3>2 DEF Over
    <3>3. CASE told'[c][g] # told[c][g]
      <4>1. c = d /\ g = gen[c] /\ told'[c][g] = how
        BY <2>5, <3>3, Finishing
      <4>2. h \in Nat /\ ~(h > gen[c]) /\ ~(h < gen[c])
        BY <1>7, <4>1, Numbers DEF TypeOK, EndsAreTheirOwn, Over
      <4>3. h = g
        BY <1>2, <4>1, <4>2
      <4> QED
        BY <1>2, <2>2, <3>1, <4>1, <4>3 DEF Over
    <3> QED
      BY <3>2, <3>3
  <2> QED
    BY <1>7, <2>4, <2>5
<1>8. ASSUME NEW d \in Tasks, NEW h \in Generations, End(d, h) PROVE Good(c, g)
  BY <1>7, <1>8 DEF End
<1>9. ASSUME NEW d \in Tasks, NEW h \in Generations, Perish(d, h) PROVE Good(c, g)
  BY <1>7, <1>9 DEF Perish
<1>10. ASSUME NEW k \in Stops, NEW d \in Tasks, Awaited(k, d) PROVE Good(c, g)
  <2>1. /\ Finish(d, "cancelled") /\ fiber' = fiber
        /\ Over(d, hunt[k][d].gen) /\ hunt[k][d].gen = gen[d]
    BY <1>10 DEF Awaited, HuntsAreCurrent, Hunts
  <2>2. gen' = gen
    BY <2>1, Finishing
  <2>3. CASE told'[c][g] = told[c][g]
    BY <1>2, <2>1, <2>2, <2>3 DEF Over
  <2>4. CASE told'[c][g] # told[c][g]
    <3>1. c = d /\ g = gen[c] /\ told'[c][g] = "cancelled"
      BY <2>1, <2>4, Finishing
    <3> QED
      BY <1>2, <2>1, <2>2, <3>1 DEF Over
  <2> QED
    BY <2>3, <2>4
<1>11. ASSUME NEW k \in Stops, StopLoop(k) PROVE Good(c, g)
  <2>1. stop[k].of \in Sessions
    BY <1>11, HuntForms DEF StopLoop, HuntsAreTracked, StopRecord
  <2> QED
    BY <1>5, <1>11, <2>1 DEF StopLoop, table
<1>12. ASSUME NEW s \in Sessions, LoopEnds(s) PROVE Good(c, g)
  BY <1>5, <1>12 DEF LoopEnds, table
<1> QED
  BY <1>4, <1>6, <1>8, <1>9, <1>10, <1>11, <1>12
  DEF Next, Hunt, Prompt, Look, NextBatch, Drop, CancelSession, table, vars

LEMMA Invariance == Spec => []IInv
<1>1. IInv /\ [Next]_vars => IInv'
  BY TypeStep, GenerationsStep, RunningStep, CurrentStep, TrackedStep, EndsStep DEF IInv
<1> QED
  BY Initially, <1>1, PTL DEF Spec

-----------------------------------------------------------------------------
(* Loops, jobs, fibers and cancellations are well formed in every reachable *)
(* state: a generation has a fiber from when it is started on, and the last *)
(* one has been told its end exactly when it is not called running.         *)
THEOREM TypeCorrect == Spec => []TypeOK
<1>1. IInv => TypeOK
  BY DEF IInv
<1> QED
  BY Invariance, <1>1, PTL

(* job.ts, start, settle and cancel: a job that is called running runs, or  *)
(* has been interrupted by somebody who waits to end it or was himself      *)
(* interrupted while he did.                                                *)
THEOREM RunningJobsAreAlive == Spec => []RunningJobsRun
<1>1. IInv => RunningJobsRun
  BY DEF IInv
<1> QED
  BY Invariance, <1>1, PTL

(* job.ts, settle: as long as nobody starts a task while a cancellation     *)
(* waits for an earlier fiber of it, a job is told the end of its own       *)
(* fiber, and leaves none behind.                                           *)
THEOREM OwnEnds == Spec => []EndsAreTheirOwn
<1>1. IInv => EndsAreTheirOwn
  BY DEF IInv
<1> QED
  BY Invariance, <1>1, PTL

(* A cancellation that has no more batch knows what is reached from its     *)
(* session, and is done with it.                                            *)
LEMMA ReachedIsTold ==
  ASSUME TypeOK, HuntsAreTracked, NEW k \in Stops, StopLoop(k),
         NEW x \in stop[k].listed, Reached(k, x[1])
  PROVE  told[x[1]][x[2]] # None
<1>1. stop[k].step = "hunts" /\ stop[k].listed \in SUBSET (Tasks \X Generations)
      /\ stop[k].known \in SUBSET Sessions
  BY HuntForms DEF StopLoop, StopRecord
<1>2. ASSUME NEW y \in stop[k].listed, y[1] \in stop[k].known \/ Parent[y[1]] \in stop[k].known
      PROVE  hunt[k][y[1]].step = "done"
  <2>1. y[1] \in Tasks
    BY <1>1
  <2>2. y[1] \notin Batch(k)
    BY DEF StopLoop
  <2>3. hunt[k][y[1]].step # "none"
    BY <1>2, <2>2 DEF Batch, Concerned
  <2> QED
    BY <2>1, <2>3, HuntForms DEF StopLoop, Steps
<1>3. \A d \in {y[1] : y \in stop[k].listed} :
        Parent[d] \in stop[k].known => d \in stop[k].known
  BY <1>1, <1>2 DEF HuntsAreTracked
<1>4. stop[k].of \in stop[k].known
  BY <1>1 DEF HuntsAreTracked
<1>5. x[1] \in stop[k].known
  BY <1>1, <1>3, <1>4 DEF Reached
<1> QED
  BY <1>1, <1>2, <1>5 DEF HuntsAreTracked

(* Only StopLoop ends a cancellation.                                       *)
LEMMA DoneIsStopped ==
  ASSUME TypeOK, [Next]_vars, NEW k \in Stops, stop[k].step = "hunts", stop'[k].step = "done"
  PROVE  StopLoop(k)
<1>1. ASSUME NEW j \in Stops, NEW c \in Tasks, Look(j, c) \/ Awaited(j, c) PROVE FALSE
  <2>1. stop' = stop \/ Known(j, c)
    BY <1>1 DEF Look, Awaited
  <2> QED
    BY <2>1, Knowing
<1>2. ASSUME NEW j \in Stops, Drop(j) PROVE FALSE
  BY <1>2, HuntForms DEF Drop, NoStop
<1>3. ASSUME NEW j \in Stops, NEW s \in Cancelled, CancelSession(j, s) PROVE FALSE
  BY <1>3, HuntForms DEF CancelSession
<1>4. ASSUME NEW j \in Stops, StopLoop(j), j # k PROVE FALSE
  BY <1>4, HuntForms DEF StopLoop
<1>5. stop' # stop
  OBVIOUS
<1> QED
  BY <1>1, <1>2, <1>3, <1>4, <1>5
  DEF Next, Hunt, Prompt, LoopEnds, Start, End, Perish, NextBatch, vars

(* run-state.ts, cancelBackgroundJobs: whatever ends, starts and is         *)
(* cancelled meanwhile, a cancellation that comes to its end leaves no job  *)
(* unended that it listed and that was reached from its session through     *)
(* listed jobs.                                                             *)
THEOREM ListedJobsHaveEnded == Spec => ListedJobsEnd
<1>1. IInv /\ [Next]_vars =>
        [\A k \in Stops : stop[k].step = "hunts" /\ stop'[k].step = "done" =>
           \A x \in stop[k].listed : Reached(k, x[1]) => told[x[1]][x[2]] # None]_vars
  BY ReachedIsTold, DoneIsStopped DEF IInv
<1> QED
  BY <1>1, Invariance, PTL DEF Spec, ListedJobsEnd
-----------------------------------------------------------------------------
(* What those who wait for a cancelled job get their answer from.           *)

(* A fiber only goes forward.                                               *)
Moves(p, q) ==
  \/ p = q
  \/ p = "none" /\ q = "runs"
  \/ p = "runs" /\ q \in {"ends", "cancelled"}
  \/ p = "ends" /\ q \in {"completed", "cancelled"}

NothingIsUndone ==
  \A c \in Tasks, g \in Generations :
    /\ told[c][g] # None => told'[c][g] = told[c][g]
    /\ condemned[c][g] => condemned'[c][g]
    /\ Moves(fiber[c][g], fiber'[c][g])

(* An interrupted fiber that is not over: it may perish.                    *)
Perishing(c, g) == condemned[c][g] /\ fiber[c][g] \in {"runs", "ends"}

(* A job that is being cancelled and has not been told so is hunted by a    *)
(* cancellation under way, which can go on, or whose fiber can perish,      *)
(* unless a cancellation was interrupted.                                   *)
CondemnedAreHunted ==
  \A c \in Tasks, g \in Generations : condemned[c][g] =>
    \/ told[c][g] # None \/ drops > 0
    \/ \E k \in Stops :
         Hunts(k, c) /\ (Over(c, hunt[k][c].gen) \/ Perishing(c, hunt[k][c].gen))

(* What is waited for was interrupted; who was interrupted was counted.     *)
WaitedIsCondemned ==
  \A k \in Stops, c \in Tasks : Hunts(k, c) => condemned[c][hunt[k][c].gen]

DropsAreCounted == \A k \in Stops : stop[k].step = "dropped" => drops > 0

HuntInv == IInv /\ WaitedIsCondemned /\ DropsAreCounted

LEMMA RunningHasGeneration ==
  ASSUME TypeOK, GenerationsFollow, NEW c \in Tasks, status[c] = "running"
  PROVE  gen[c] \in Generations
<1>1. gen[c] \in 1 .. MaxStarts[c]
  BY Numbers DEF TypeOK, GenerationsFollow
<1> QED
  BY <1>1, Numbers

LEMMA CondemnedStay ==
  ASSUME TypeOK, GenerationsFollow, [Next]_vars, NEW c \in Tasks, NEW g \in Generations,
         condemned[c][g]
  PROVE  condemned'[c][g]
<1>1. ASSUME NEW k \in Stops, NEW d \in Tasks, Look(k, d), status[d] = "running"
      PROVE  condemned'[c][g]
  <2>1. gen[d] \in Generations
    BY <1>1, RunningHasGeneration
  <2>2. condemned' = [condemned EXCEPT ![d][gen[d]] = TRUE]
    BY <1>1 DEF Look
  <2>3. condemned'[c][g] = IF c = d /\ g = gen[d] THEN TRUE ELSE condemned[c][g]
    BY <2>1, <2>2, Condemning
  <2> QED
    BY <2>3
<1>2. CASE condemned' = condemned
  BY <1>2
<1> QED
  BY <1>1, <1>2 DEF Next, Hunt, Prompt, LoopEnds, Start, End, Perish, Look, Awaited, NextBatch,
     StopLoop, Drop, CancelSession, vars

LEMMA FibersMove ==
  ASSUME TypeOK, HuntsAreTracked, [Next]_vars, NEW c \in Tasks, NEW g \in Generations
  PROVE  Moves(fiber[c][g], fiber'[c][g])
<1> USE DEF Moves
<1>1. ASSUME NEW d \in Tasks, Start(d) PROVE Moves(fiber[c][g], fiber'[c][g])
  <2>1. gen[d] \in Nat /\ gen[d] + 1 \in Generations
    BY <1>1, Starting
  <2>2. fiber[d][gen[d] + 1] = "none"
    BY <2>1 DEF TypeOK
  <2> QED
    BY <1>1, <2>2, Starting
<1>2. ASSUME NEW d \in Tasks, NEW h \in Generations, End(d, h)
      PROVE  Moves(fiber[c][g], fiber'[c][g])
  BY <1>2, Moving DEF End, Lives
<1>3. ASSUME NEW d \in Tasks, NEW h \in Generations, Perish(d, h)
      PROVE  Moves(fiber[c][g], fiber'[c][g])
  BY <1>3, Moving DEF Perish, Lives
<1>4. ASSUME NEW s \in Sessions, Idle(s) PROVE Moves(fiber[c][g], fiber'[c][g])
  BY <1>4, Idling
<1>5. ASSUME NEW k \in Stops, StopLoop(k) PROVE Moves(fiber[c][g], fiber'[c][g])
  <2>1. stop[k].of \in Sessions
    BY <1>5, HuntForms DEF StopLoop, HuntsAreTracked, StopRecord
  <2> QED
    BY <1>4, <1>5, <2>1 DEF StopLoop
<1>6. CASE fiber' = fiber
  BY <1>6
<1> QED
  BY <1>1, <1>2, <1>3, <1>4, <1>5, <1>6 DEF Next, Hunt, Prompt, LoopEnds, Look, Awaited, NextBatch,
     Drop, CancelSession, vars

LEMMA UndoneStep ==
  ASSUME TypeOK, GenerationsFollow, HuntsAreTracked, [Next]_vars
  PROVE  NothingIsUndone
BY TableGrows, CondemnedStay, FibersMove DEF NothingIsUndone

(* Who waits, waited already, or has just interrupted.                      *)
LEMMA HuntsBegin ==
  ASSUME TypeOK, HuntsAreTracked, [Next]_vars, NEW k \in Stops, NEW c \in Tasks, Hunts(k, c)'
  PROVE  \/ Look(k, c) /\ status[c] = "running"
         \/ Hunts(k, c) /\ hunt'[k][c] = hunt[k][c]
<1> SUFFICES ASSUME ~(Look(k, c) /\ status[c] = "running")
    PROVE  Hunts(k, c) /\ hunt'[k][c] = hunt[k][c]
  OBVIOUS
<1> USE DEF Hunts
<1>1. ASSUME hunt'[k][c] = hunt[k][c], stop'[k].step = stop[k].step
      PROVE  Hunts(k, c) /\ hunt'[k][c] = hunt[k][c]
  BY <1>1
<1>2. ASSUME NEW d \in Tasks, NEW j \in Stops, Look(j, d)
      PROVE  Hunts(k, c) /\ hunt'[k][c] = hunt[k][c]
  <2>1. CASE status[d] = "running"
    <3>1. hunt' = [hunt EXCEPT ![j][d] = [step |-> "wait", gen |-> gen[d]]] /\ stop' = stop
      BY <1>2, <2>1 DEF Look
    <3>2. ~(j = k /\ d = c)
      BY <1>2, <2>1
    <3>3. hunt'[k][c] = hunt[k][c]
      BY <3>1, <3>2, HuntForms
    <3> QED
      BY <1>1, <3>1, <3>3
  <2>2. CASE status[d] # "running"
    <3>1. hunt' = [hunt EXCEPT ![j][d].step = "done"] /\ Known(j, d)
      BY <1>2, <2>2 DEF Look
    <3>2. hunt'[k][c] = hunt[k][c]
      BY <3>1, HuntEnds
    <3>3. stop'[k].step = stop[k].step
      BY <3>1, Knowing
    <3> QED
      BY <1>1, <3>2, <3>3
  <2> QED
    BY <2>1, <2>2
<1>3. ASSUME NEW d \in Tasks, NEW j \in Stops, Awaited(j, d)
      PROVE  Hunts(k, c) /\ hunt'[k][c] = hunt[k][c]
  <2>1. hunt'[k][c] = hunt[k][c]
    BY <1>3, HuntEnds DEF Awaited
  <2>2. stop'[k].step = stop[k].step
    BY <1>3, Knowing DEF Awaited
  <2> QED
    BY <1>1, <2>1, <2>2
<1>4. ASSUME NEW j \in Stops, NEW s \in Cancelled, CancelSession(j, s)
      PROVE  Hunts(k, c) /\ hunt'[k][c] = hunt[k][c]
  <2>1. hunt'[k][c] = hunt[k][c]
    BY <1>4, HuntSpreads DEF CancelSession
  <2>2. j # k
    BY <1>4, <2>1 DEF CancelSession, HuntsAreTracked, Stops
  <2>3. stop'[k] = stop[k]
    BY <1>4, <2>2, HuntForms DEF CancelSession
  <2> QED
    BY <1>1, <2>1, <2>3
<1>5. ASSUME NEW j \in Stops, NextBatch(j) PROVE Hunts(k, c) /\ hunt'[k][c] = hunt[k][c]
  <2>1. hunt'[k][c] = hunt[k][c]
    BY <1>5, HuntSpreads DEF NextBatch
  <2> QED
    BY <1>1, <1>5, <2>1 DEF NextBatch
<1>6. ASSUME NEW j \in Stops, StopLoop(j) PROVE Hunts(k, c) /\ hunt'[k][c] = hunt[k][c]
  <2>1. k # j /\ hunt'[k] = hunt[k]
    BY <1>6, HuntForms DEF StopLoop, NoHunt
  <2>2. stop'[k] = stop[k]
    BY <1>6, <2>1, HuntForms DEF StopLoop
  <2> QED
    BY <1>1, <2>1, <2>2
<1>7. ASSUME NEW j \in Stops, Drop(j) PROVE Hunts(k, c) /\ hunt'[k][c] = hunt[k][c]
  <2>1. k # j
    BY <1>7, HuntForms DEF Drop, NoStop
  <2>2. stop'[k] = stop[k]
    BY <1>7, <2>1, HuntForms DEF Drop
  <2> QED
    BY <1>1, <1>7, <2>2 DEF Drop
<1>8. CASE UNCHANGED <<stop, hunt>>
  BY <1>1, <1>8
<1> QED
  BY <1>2, <1>3, <1>4, <1>5, <1>6, <1>7, <1>8
  DEF Next, Hunt, Prompt, LoopEnds, Start, End, Perish, vars

LEMMA WaitedStep ==
  ASSUME IInv, WaitedIsCondemned, [Next]_vars
  PROVE  WaitedIsCondemned'
<1> SUFFICES ASSUME NEW k \in Stops, NEW c \in Tasks, Hunts(k, c)'
    PROVE  condemned'[c][hunt'[k][c].gen]
  BY DEF WaitedIsCondemned
<1>1. TypeOK /\ GenerationsFollow /\ HuntsAreTracked /\ HuntsAreCurrent
  BY DEF IInv
<1>2. CASE Look(k, c) /\ status[c] = "running"
  <2>1. gen[c] \in Generations
    BY <1>1, <1>2, RunningHasGeneration
  <2>2. condemned'[c][gen[c]]
    BY <1>1, <1>2, <2>1, Condemning DEF Look
  <2>3. hunt' = [hunt EXCEPT ![k][c] = [step |-> "wait", gen |-> gen[c]]]
    BY <1>2 DEF Look
  <2>4. hunt'[k][c].gen = gen[c]
    BY <1>1, <2>3, HuntForms
  <2> QED
    BY <2>2, <2>4
<1>3. CASE Hunts(k, c) /\ hunt'[k][c] = hunt[k][c]
  <2>1. condemned[c][hunt[k][c].gen] /\ hunt[k][c].gen \in Generations
    BY <1>1, <1>3 DEF WaitedIsCondemned, HuntsAreCurrent, Hunts
  <2> QED
    BY <1>1, <1>3, <2>1, CondemnedStay
<1> QED
  BY <1>1, <1>2, <1>3, HuntsBegin

LEMMA DropsStep ==
  ASSUME IInv, DropsAreCounted, [Next]_vars
  PROVE  DropsAreCounted'
<1> SUFFICES ASSUME NEW k \in Stops, stop'[k].step = "dropped" PROVE drops' > 0
  BY DEF DropsAreCounted
<1>1. TypeOK /\ drops \in Nat
  BY JobsAssumption DEF IInv, TypeOK
<1>2. ASSUME NEW j \in Stops, Drop(j) PROVE drops' > 0
  BY <1>1, <1>2 DEF Drop
<1>3. ASSUME stop'[k].step = stop[k].step, drops' = drops PROVE drops' > 0
  BY <1>3 DEF DropsAreCounted
<1>4. ASSUME NEW j \in Stops, NEW c \in Tasks, Look(j, c) \/ Awaited(j, c) PROVE drops' > 0
  <2>1. (stop' = stop \/ Known(j, c)) /\ drops' = drops
    BY <1>4 DEF Look, Awaited
  <2>2. stop'[k].step = stop[k].step
    BY <1>1, <2>1, Knowing
  <2> QED
    BY <1>3, <2>1, <2>2
<1>5. ASSUME NEW j \in Stops, NEW s \in Cancelled, CancelSession(j, s) PROVE drops' > 0
  <2>1. j # k
    BY <1>1, <1>5, HuntForms DEF CancelSession
  <2>2. stop'[k] = stop[k]
    BY <1>1, <1>5, <2>1, HuntForms DEF CancelSession
  <2> QED
    BY <1>3, <1>5, <2>2 DEF CancelSession
<1>6. ASSUME NEW j \in Stops, StopLoop(j) PROVE drops' > 0
  <2>1. j # k
    BY <1>1, <1>6, HuntForms DEF StopLoop, NoStop
  <2>2. stop'[k] = stop[k]
    BY <1>1, <1>6, <2>1, HuntForms DEF StopLoop
  <2> QED
    BY <1>3, <1>6, <2>2 DEF StopLoop
<1>7. CASE UNCHANGED <<stop, drops>>
  BY <1>3, <1>7
<1> QED
  BY <1>2, <1>4, <1>5, <1>6, <1>7
  DEF Next, Hunt, Prompt, LoopEnds, Start, End, Perish, NextBatch, vars

LEMMA HuntInvariance == Spec => []HuntInv
<1>1. Init => WaitedIsCondemned /\ DropsAreCounted
  BY DEF Init, NoHunt, NoStop, WaitedIsCondemned, DropsAreCounted, Hunts
<1>2. IInv /\ WaitedIsCondemned /\ DropsAreCounted /\ [Next]_vars =>
        WaitedIsCondemned' /\ DropsAreCounted'
  BY WaitedStep, DropsStep
<1>3. HuntInv <=> IInv /\ WaitedIsCondemned /\ DropsAreCounted
  BY DEF HuntInv
<1> QED
  BY <1>1, <1>2, <1>3, Invariance, PTL DEF Spec

(* What CancelledAreTold rests on, short of fairness: unless a cancellation *)
(* was interrupted, a job that is being cancelled has been told, or there   *)
(* is a cancellation that waits for it and can go on, or whose fiber can    *)
(* perish; and no step takes anything back, neither what was told, nor an   *)
(* interruption, nor a phase of a fiber, of which there are finitely many.  *)
THEOREM CondemnedAreSeenTo == Spec => []CondemnedAreHunted /\ [][NothingIsUndone]_vars
<1>1. ASSUME HuntInv PROVE CondemnedAreHunted
  <2> SUFFICES ASSUME NEW c \in Tasks, NEW g \in Generations, condemned[c][g],
                      told[c][g] = None, ~(drops > 0)
      PROVE  \E k \in Stops :
               Hunts(k, c) /\ (Over(c, hunt[k][c].gen) \/ Perishing(c, hunt[k][c].gen))
    BY DEF CondemnedAreHunted
  <2>1. TypeOK /\ GenerationsFollow /\ CondemnedIsAwaited /\ HuntsAreCurrent
    BY <1>1 DEF HuntInv, IInv
  <2>2. g = gen[c]
    <3>1. g \in Nat /\ gen[c] \in Nat /\ g <= gen[c] /\ ~(g < gen[c])
      BY <2>1, Numbers DEF TypeOK, GenerationsFollow
    <3> QED
      BY <3>1
  <2>3. status[c] = "running"
    BY <2>1, <2>2 DEF TypeOK
  <2>4. PICK k \in Stops : Waits(k, c)
    BY <2>1, <2>2, <2>3 DEF CondemnedIsAwaited
  <2>5. Hunts(k, c)
    BY <1>1, <2>4 DEF Waits, Hunts, HuntInv, DropsAreCounted
  <2> DEFINE h == hunt[k][c].gen
  <2>6. h \in Generations /\ condemned[c][h]
    BY <1>1, <2>1, <2>5 DEF HuntInv, WaitedIsCondemned, HuntsAreCurrent, Hunts
  <2>7. h <= gen[c] /\ h \in Nat /\ gen[c] \in Nat
    BY <2>1, <2>6, Numbers DEF GenerationsFollow, TypeOK
  <2>8. fiber[c][h] # "none"
    BY <2>1, <2>6, <2>7 DEF TypeOK
  <2> QED
    BY <2>5, <2>6, <2>8 DEF Over, Perishing
<1>2. HuntInv => CondemnedAreHunted
  BY <1>1
<1>3. HuntInv /\ [Next]_vars => [NothingIsUndone]_vars
  BY UndoneStep DEF HuntInv, IInv
<1> QED
  BY <1>2, <1>3, HuntInvariance, PTL DEF Spec
=============================================================================
