-------------------------------- MODULE Flock --------------------------------
(***************************************************************************)
(* A lock between processes: packages/core/src/util/flock.ts.  (The same    *)
(* steps are taken by effect-flock.ts.)                                     *)
(*                                                                          *)
(* Who makes the lock's directory owns it, puts a heartbeat and his token   *)
(* into it, and touches the heartbeat while he holds the lock.  A lock that *)
(* was not touched for a while is taken for that of a dead process: a       *)
(* second directory, the breaker, says who may remove it and make it anew.  *)
(* A breaker can grow old too.                                              *)
(*                                                                          *)
(* One lock.  Every caller is a call of acquire, in a process of its own,   *)
(* which may die between any two file operations: a directory is removed    *)
(* file by file, and its age is asked of one file after the other.  Time is *)
(* the age of what is there: old is what was not touched for staleMs.       *)
(***************************************************************************)
EXTENDS Naturals, FiniteSets

CONSTANTS
  Callers,
  MaxDeaths,  \* how many processes may die
  MaxNaps,    \* how often a living one may sleep for longer than staleMs
  None        \* no directory, no token

ASSUME FlockAssumption == None \notin Callers /\ MaxDeaths \in Nat /\ MaxNaps \in Nat

VARIABLES
  pc,        \* the next file operation of each caller
  stat,      \* in stale(): the file it looks at next
  now,       \* in stale(): what was old when it began
  made,      \* it has made the directory anew, under the breaker
  then,      \* where the removal of the directory leads
  maker,     \* who made the lock's directory that is there, or None
  heartbeat, \* the directory holds a heartbeat
  meta,      \* the token in it, or None
  old,       \* what was not touched for staleMs: of these two and the directory
  breaker,   \* who made the breaker that is there, or None
  breakerOld,
  deaths, naps,
  disturbed  \* a breaker has found a living caller's lock stale, or has grown old

look  == <<stat, now>>
lock  == <<maker, heartbeat, meta, old>>
claim == <<breaker, breakerOld>>
time  == <<deaths, naps, disturbed>>
vars  == <<pc, look, made, then, lock, claim, time>>

Init ==
  /\ pc = [c \in Callers |-> "idle"]
  /\ stat = [c \in Callers |-> "heartbeat"] /\ now = [c \in Callers |-> {}]
  /\ made = [c \in Callers |-> FALSE]
  /\ then = [c \in Callers |-> "remake"]
  /\ maker = None /\ heartbeat = FALSE /\ meta = None /\ old = {}
  /\ breaker = None /\ breakerOld = FALSE
  /\ deaths = 0 /\ naps = 0 /\ disturbed = FALSE

(* Who has no process that uses the lock. *)
Gone == {"idle", "done", "failed", "dead"}

Goto(c, from, to) == pc[c] = from /\ pc' = [pc EXCEPT ![c] = to]

-----------------------------------------------------------------------------
(* tryAcquireLockDir.                                                       *)

Call(c) == Goto(c, "idle", "try") /\ UNCHANGED <<look, made, then, lock, claim, time>>

MakeLock(c) ==
  /\ maker' = c /\ heartbeat' = FALSE /\ meta' = None /\ old' = {}

(* Mutant of Try: a directory that is there already counts as made. *)
TryRecursive(c) ==
  /\ Goto(c, "try", "beat") /\ MakeLock(c)
  /\ UNCHANGED <<look, made, then, claim, time>>

(* mkdir of the lock's directory *)
Try(c) ==
  /\ IF maker = None
       THEN Goto(c, "try", "beat") /\ MakeLock(c)
       ELSE Goto(c, "try", "judge") /\ UNCHANGED lock
  /\ UNCHANGED <<look, made, then, claim, time>>

(* stale(): the heartbeat's age; without one the age of meta.json, which    *)
(* nothing refreshes; without either the directory's.  The time is taken    *)
(* first: what grows old while it looks is not stale yet.                   *)
There(f) ==
  /\ maker # None
  /\ f = "heartbeat" => heartbeat
  /\ f = "meta" => meta # None

LookOn(c) ==
  /\ pc[c] \in {"judge", "recheck"} /\ stat[c] # "dir" /\ ~There(stat[c])
  /\ IF stat[c] = "heartbeat"
       THEN stat' = [stat EXCEPT ![c] = "meta"] /\ now' = [now EXCEPT ![c] = old]
       ELSE stat' = [stat EXCEPT ![c] = "dir"] /\ UNCHANGED now
  /\ UNCHANGED <<pc, made, then, lock, claim, time>>

Stale(c) ==
  /\ There(stat[c]) /\ stat[c] \in old
  /\ stat[c] = "heartbeat" \/ stat[c] \in now[c]

Answer(c) ==
  /\ There(stat[c]) \/ stat[c] = "dir"
  /\ stat' = [stat EXCEPT ![c] = "heartbeat"] /\ now' = [now EXCEPT ![c] = {}]

Judge(c) ==
  /\ Goto(c, "judge", IF Stale(c) THEN "claim" ELSE "wait") /\ Answer(c)
  /\ UNCHANGED <<made, then, lock, claim, time>>

(* mkdir of the breaker *)
Claim(c) ==
  /\ IF breaker = None
       THEN Goto(c, "claim", "recheck") /\ breaker' = c /\ breakerOld' = FALSE
       ELSE Goto(c, "claim", "look") /\ UNCHANGED claim
  /\ UNCHANGED <<look, made, then, lock, time>>

(* Mutant of Look: a breaker is never too old. *)
LookAway(c) ==
  /\ Goto(c, "look", "wait")
  /\ UNCHANGED <<look, made, then, lock, claim, time>>

(* Somebody has the breaker: is that breaker old?                           *)
Look(c) ==
  /\ Goto(c, "look", IF breaker # None /\ breakerOld THEN "unbreak" ELSE "wait")
  /\ UNCHANGED <<look, made, then, lock, claim, time>>

DropBreaker == breaker' = None /\ breakerOld' = FALSE

Unbreak(c) ==
  /\ Goto(c, "unbreak", "wait") /\ DropBreaker
  /\ UNCHANGED <<look, made, then, lock, time>>

(* The breaker is ours: look again, for the lock may have been remade.      *)
Recheck(c) ==
  /\ Answer(c) /\ made' = [made EXCEPT ![c] = FALSE]
  /\ IF Stale(c)
       THEN /\ Goto(c, "recheck", "rm") /\ then' = [then EXCEPT ![c] = "remake"]
            /\ disturbed' = (disturbed \/ pc[maker] \notin Gone)
       ELSE Goto(c, "recheck", "unclaim") /\ UNCHANGED <<then, disturbed>>
  /\ UNCHANGED <<lock, claim, deaths, naps>>

(* rm of the lock's directory: one file after the other, in any order and   *)
(* whoever wrote it, which touches the directory; and when it is empty, the *)
(* directory.                                                               *)
Unlink(c, f) ==
  /\ pc[c] = "rm" /\ There(f) /\ old' = old \ {f, "dir"}
  /\ heartbeat' = (heartbeat /\ f # "heartbeat")
  /\ meta' = IF f = "meta" THEN None ELSE meta
  /\ UNCHANGED <<pc, look, made, then, maker, claim, time>>

Rmdir(c) ==
  /\ ~heartbeat /\ meta = None /\ Goto(c, "rm", then[c])
  /\ maker' = None /\ old' = {}
  /\ UNCHANGED <<look, made, then, heartbeat, meta, claim, time>>

(* Mutant of Remake: somebody else may have made the directory first. *)
RemakeAnyway(c) ==
  /\ Goto(c, "remake", "unclaim")
  /\ made' = [made EXCEPT ![c] = TRUE]
  /\ IF maker = None THEN MakeLock(c) ELSE UNCHANGED lock
  /\ UNCHANGED <<look, then, claim, time>>

Remake(c) ==
  /\ Goto(c, "remake", "unclaim")
  /\ IF maker = None
       THEN MakeLock(c) /\ made' = [made EXCEPT ![c] = TRUE]
       ELSE UNCHANGED <<lock, made>>
  /\ UNCHANGED <<look, then, claim, time>>

(* The breaker goes, whoever made it. *)
Unclaim(c) ==
  /\ Goto(c, "unclaim", IF made[c] THEN "beat" ELSE "wait") /\ DropBreaker
  /\ UNCHANGED <<look, made, then, lock, time>>

(* The exclusive writes fail if the file, or no directory, is there; the    *)
(* directory is then removed and the call fails.                            *)
Compromised(c) ==
  /\ pc' = [pc EXCEPT ![c] = "rm"] /\ then' = [then EXCEPT ![c] = "failed"]
  /\ UNCHANGED lock

WriteHeartbeat(c) ==
  /\ pc[c] = "beat"
  /\ IF maker # None /\ ~heartbeat
       THEN /\ Goto(c, "beat", "meta") /\ heartbeat' = TRUE /\ old' = {}
            /\ UNCHANGED <<then, maker, meta>>
       ELSE Compromised(c)
  /\ UNCHANGED <<look, made, claim, time>>

WriteMeta(c) ==
  /\ pc[c] = "meta"
  /\ IF maker # None /\ meta = None
       THEN /\ Goto(c, "meta", "held") /\ meta' = c
            /\ old' = old \ {"dir"} /\ UNCHANGED <<then, maker, heartbeat>>
       ELSE Compromised(c)
  /\ UNCHANGED <<look, made, claim, time>>

-----------------------------------------------------------------------------
(* acquireLockDir, and the life of a lease.                                 *)

Retry(c) == Goto(c, "wait", "try") /\ UNCHANGED <<look, made, then, lock, claim, time>>

(* The time is up, or the signal aborts. *)
GiveUp(c) == Goto(c, "wait", "failed") /\ UNCHANGED <<look, made, then, lock, claim, time>>

(* The heartbeat is touched, whoever wrote it, until the release. *)
Beat(c) ==
  /\ pc[c] = "held" /\ heartbeat /\ "heartbeat" \in old
  /\ old' = old \ {"heartbeat"}
  /\ UNCHANGED <<pc, look, made, then, maker, heartbeat, meta, claim, time>>

Release(c) == Goto(c, "held", "readmeta") /\ UNCHANGED <<look, made, then, lock, claim, time>>

(* Only one's own token lets one remove the lock. *)
CheckToken(c) ==
  /\ IF meta = c
       THEN Goto(c, "readmeta", "rm") /\ then' = [then EXCEPT ![c] = "done"]
       ELSE Goto(c, "readmeta", "failed") /\ UNCHANGED then
  /\ UNCHANGED <<look, made, lock, claim, time>>

-----------------------------------------------------------------------------
(* Death and time.                                                          *)

Die(c) ==
  /\ deaths < MaxDeaths /\ pc[c] \notin Gone
  /\ pc' = [pc EXCEPT ![c] = "dead"] /\ deaths' = deaths + 1
  /\ UNCHANGED <<look, made, then, lock, claim, naps, disturbed>>

(* staleMs pass.  A living caller's heartbeat, and a directory he has put   *)
(* nothing into, grow old only if he sleeps; his meta.json does in any case.*)
(* Nobody asks for the age of a directory that is not empty.                *)
GrowsOld(f) ==
  /\ There(f) /\ f \notin old /\ old' = old \cup {f}
  /\ f = "dir" => ~heartbeat /\ meta = None
  /\ IF pc[maker] \in Gone \/ f = "meta"
       THEN UNCHANGED naps ELSE naps < MaxNaps /\ naps' = naps + 1
  /\ UNCHANGED <<pc, look, made, then, maker, heartbeat, meta, claim, deaths, disturbed>>

BreakerGrowsOld ==
  /\ breaker # None /\ ~breakerOld /\ breakerOld' = TRUE
  /\ IF pc[breaker] \in Gone
       THEN UNCHANGED naps ELSE naps < MaxNaps /\ naps' = naps + 1
  /\ disturbed' = TRUE
  /\ UNCHANGED <<pc, look, made, then, lock, breaker, deaths>>

Work(c) ==
  \/ Try(c) \/ LookOn(c) \/ Judge(c) \/ Claim(c) \/ Look(c) \/ Unbreak(c) \/ Recheck(c)
  \/ (\E f \in {"heartbeat", "meta"} : Unlink(c, f)) \/ Rmdir(c) \/ Remake(c) \/ Unclaim(c)
  \/ WriteHeartbeat(c) \/ WriteMeta(c) \/ CheckToken(c) \/ Release(c) \/ Retry(c)

Next ==
  \/ \E c \in Callers : Work(c) \/ Call(c) \/ Beat(c) \/ GiveUp(c) \/ Die(c)
  \/ (\E f \in {"heartbeat", "meta", "dir"} : GrowsOld(f)) \/ BreakerGrowsOld

Spec == Init /\ [][Next]_vars

(* File operations end, sleeping callers wake up and try again, who holds   *)
(* the lock releases it some day, and what nobody touches grows old.        *)
FairSpec ==
  /\ Spec
  /\ \A c \in Callers : WF_vars(Work(c))
  /\ \A f \in {"heartbeat", "meta", "dir"} : WF_vars(GrowsOld(f) /\ pc[maker] \in Gone)
  /\ WF_vars(BreakerGrowsOld /\ pc[breaker] \in Gone)

-----------------------------------------------------------------------------
TypeOK ==
  /\ pc \in [Callers -> Gone \cup
                {"try", "judge", "claim", "look", "unbreak", "recheck", "rm", "remake",
                 "unclaim", "beat", "meta", "held", "readmeta", "wait"}]
  /\ stat \in [Callers -> {"heartbeat", "meta", "dir"}]
  /\ now \in [Callers -> SUBSET {"heartbeat", "meta", "dir"}]
  /\ made \in [Callers -> BOOLEAN]
  /\ then \in [Callers -> {"remake", "done", "failed"}]
  /\ maker \in Callers \cup {None} /\ meta \in Callers \cup {None}
  /\ heartbeat \in BOOLEAN /\ old \subseteq {"heartbeat", "meta", "dir"}
  /\ maker = None => ~heartbeat /\ meta = None
  /\ \A f \in old : There(f)
  /\ breaker \in Callers \cup {None} /\ breakerOld \in BOOLEAN
  /\ deaths \in 0..MaxDeaths /\ naps \in 0..MaxNaps /\ disturbed \in BOOLEAN

Held == {c \in Callers : pc[c] = "held"}

(* Between making the breaker and removing it. *)
Breaking(c) ==
  \/ pc[c] \in {"recheck", "remake", "unclaim"}
  \/ pc[c] = "rm" /\ then[c] = "remake"

(* Unless whoever has the breaker has found a living caller's lock stale,   *)
(* who slept or was removing it, or the breaker grew old, the lock has one  *)
(* holder at most: deaths, at any file operation, and races for a dead      *)
(* caller's lock, also over directories half removed, do not make two.      *)
MutualExclusion == ~disturbed => \A c, d \in Held : c = d

(* And the directory of who holds the lock is whole and his own until he    *)
(* removes it, so that his release is never refused.                        *)
ReleaseWillSucceed ==
  ~disturbed => \A c \in Callers : pc[c] \in {"held", "readmeta"} =>
    maker = c /\ heartbeat /\ meta = c

(* The lock is a lock. *)
Promise == INSTANCE Lock WITH holders <- Held, broken <- disturbed
IsALock == Promise!Spec

(* Whatever callers die, and wherever, and whoever oversleeps: a call ends. *)
EveryCallEnds == \A c \in Callers : pc[c] = "try" ~> pc[c] \in Gone \cup {"held"}
=============================================================================
