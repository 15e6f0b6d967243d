----------------------------- MODULE FlockProofs -----------------------------
(* For any number of callers and deaths: unless who had the breaker found a *)
(* living caller's lock stale, or a breaker grew old, the lock has one      *)
(* holder.                                                                  *)
EXTENDS Flock, TLAPS

(* Who makes a directory is at work, or was.                                *)
MakersHaveCalled == maker # None => pc[maker] # "idle"

(* Undisturbed, no breaker is old, nobody removes one that is not his, and  *)
(* no exclusive write fails.                                                *)
BreakersAreOwn ==
  ~disturbed =>
    /\ ~breakerOld
    /\ \A c \in Callers :
         /\ pc[c] # "unbreak"
         /\ Breaking(c) => breaker = c
         /\ pc[c] = "rm" => then[c] # "failed"

(* A breaker removes only what a dead caller has left.                      *)
RemovalIsOfTheDead ==
  ~disturbed => \A c \in Callers : pc[c] = "rm" /\ then[c] = "remake" =>
    maker # None /\ pc[maker] \in Gone

Owns(c) ==
  \/ pc[c] \in {"beat", "meta", "held", "readmeta"}
  \/ pc[c] = "rm" /\ then[c] = "done"
  \/ pc[c] = "unclaim" /\ made[c]

(* Who owns the lock made its directory, which holds what he has written.   *)
OwnersMadeIt ==
  ~disturbed => \A c \in Callers : Owns(c) =>
    /\ maker = c
    /\ pc[c] \in {"unclaim", "beat"} => ~heartbeat /\ meta = None
    /\ pc[c] = "meta" => heartbeat /\ meta = None
    /\ pc[c] \in {"held", "readmeta"} => heartbeat /\ meta = c

(* What says that the directory was remade is reset before it is.           *)
RemakersHaveNotMade ==
  \A c \in Callers :
    pc[c] = "remake" \/ (pc[c] = "rm" /\ then[c] = "remake") => ~made[c]

IInv ==
  /\ TypeOK /\ MakersHaveCalled /\ BreakersAreOwn /\ RemakersHaveNotMade
  /\ RemovalIsOfTheDead /\ OwnersMadeIt

LEMMA Initially == Init => IInv
<1> SUFFICES ASSUME Init PROVE IInv
  OBVIOUS
<1>1. TypeOK
  <2>0. /\ stat \in [Callers -> {"heartbeat", "meta", "dir"}]
        /\ now \in [Callers -> SUBSET {"heartbeat", "meta", "dir"}]
    BY DEF Init
  <2>1. pc \in [Callers -> Gone] /\ made \in [Callers -> BOOLEAN]
    BY DEF Init, Gone
  <2>2. then \in [Callers -> {"remake", "done", "failed"}]
    BY DEF Init
  <2>3. deaths \in 0..MaxDeaths /\ naps \in 0..MaxNaps
    BY FlockAssumption DEF Init, FlockAssumption
  <2>4. disturbed \in BOOLEAN /\ heartbeat \in BOOLEAN /\ old = {}
    BY DEF Init
  <2> QED
    BY <2>0, <2>1, <2>2, <2>3, <2>4 DEF Init, TypeOK
<1> QED
  BY <1>1 DEF Init, IInv, MakersHaveCalled, BreakersAreOwn, RemakersHaveNotMade,
     RemovalIsOfTheDead, OwnersMadeIt, Owns, Breaking

(* Every step keeps the types. *)
LEMMA TypeStep ==
  TypeOK /\ [Next]_vars => TypeOK'
<1> USE FlockAssumption DEF FlockAssumption
<1> SUFFICES ASSUME TypeOK, [Next]_vars PROVE TypeOK'
  OBVIOUS
<1>1. ASSUME NEW c \in Callers, Try(c) PROVE TypeOK'
  BY <1>1
     DEF Try, Goto, MakeLock, look, lock, claim, time, TypeOK, There, Gone
<1>2. ASSUME NEW c \in Callers, LookOn(c) PROVE TypeOK'
  <2>1. stat' \in [Callers -> {"heartbeat", "meta", "dir"}]
    BY <1>2 DEF LookOn, TypeOK
  <2>2. now' \in [Callers -> SUBSET {"heartbeat", "meta", "dir"}]
    BY <1>2 DEF LookOn, TypeOK
  <2> QED
    BY <1>2, <2>1, <2>2 DEF LookOn, lock, claim, time, TypeOK, There
<1>3. ASSUME NEW c \in Callers, Judge(c) PROVE TypeOK'
  BY <1>3
     DEF Judge, Goto, Answer, look, lock, claim, time, TypeOK, There, Gone
<1>4. ASSUME NEW c \in Callers, Claim(c) PROVE TypeOK'
  BY <1>4
     DEF Claim, Goto, look, lock, claim, time, TypeOK, There, Gone
<1>5. ASSUME NEW c \in Callers, Look(c) PROVE TypeOK'
  BY <1>5
     DEF Look, Goto, look, lock, claim, time, TypeOK, There, Gone
<1>6. ASSUME NEW c \in Callers, Unbreak(c) PROVE TypeOK'
  BY <1>6
     DEF Unbreak, Goto, DropBreaker, look, lock, claim, time, TypeOK, There,
         Gone
<1>7. ASSUME NEW c \in Callers, Recheck(c) PROVE TypeOK'
  BY <1>7
     DEF Recheck, Goto, Answer, Stale, look, lock, claim, time, TypeOK, There,
         Gone
<1>8. ASSUME NEW c \in Callers, NEW f \in {"heartbeat", "meta"}, Unlink(c, f)
      PROVE  TypeOK'
  BY <1>8
     DEF Unlink, look, lock, claim, time, TypeOK, There, Gone
<1>9. ASSUME NEW c \in Callers, Rmdir(c) PROVE TypeOK'
  BY <1>9
     DEF Rmdir, Goto, look, lock, claim, time, TypeOK, There, Gone
<1>10. ASSUME NEW c \in Callers, Remake(c) PROVE TypeOK'
  BY <1>10
     DEF Remake, Goto, MakeLock, look, lock, claim, time, TypeOK, There, Gone
<1>11. ASSUME NEW c \in Callers, Unclaim(c) PROVE TypeOK'
  BY <1>11
     DEF Unclaim, Goto, DropBreaker, look, lock, claim, time, TypeOK, There,
         Gone
<1>12. ASSUME NEW c \in Callers, WriteHeartbeat(c) PROVE TypeOK'
  BY <1>12
     DEF WriteHeartbeat, Goto, Compromised, look, lock, claim, time, TypeOK,
         There, Gone
<1>13. ASSUME NEW c \in Callers, WriteMeta(c) PROVE TypeOK'
  BY <1>13
     DEF WriteMeta, Goto, Compromised, look, lock, claim, time, TypeOK, There,
         Gone
<1>14. ASSUME NEW c \in Callers, CheckToken(c) PROVE TypeOK'
  BY <1>14
     DEF CheckToken, Goto, look, lock, claim, time, TypeOK, There, Gone
<1>15. ASSUME NEW c \in Callers, Release(c) PROVE TypeOK'
  BY <1>15
     DEF Release, Goto, look, lock, claim, time, TypeOK, There, Gone
<1>16. ASSUME NEW c \in Callers, Retry(c) PROVE TypeOK'
  BY <1>16
     DEF Retry, Goto, look, lock, claim, time, TypeOK, There, Gone
<1>17. ASSUME NEW c \in Callers, Call(c) PROVE TypeOK'
  BY <1>17
     DEF Call, Goto, look, lock, claim, time, TypeOK, There, Gone
<1>18. ASSUME NEW c \in Callers, Beat(c) PROVE TypeOK'
  BY <1>18
     DEF Beat, look, lock, claim, time, TypeOK, There, Gone
<1>19. ASSUME NEW c \in Callers, GiveUp(c) PROVE TypeOK'
  BY <1>19
     DEF GiveUp, Goto, look, lock, claim, time, TypeOK, There, Gone
<1>20. ASSUME NEW c \in Callers, Die(c) PROVE TypeOK'
  BY <1>20
     DEF Die, look, lock, claim, time, TypeOK, There, Gone
<1>21. ASSUME NEW f \in {"heartbeat", "meta", "dir"}, GrowsOld(f)
      PROVE  TypeOK'
  BY <1>21
     DEF GrowsOld, look, lock, claim, time, TypeOK, There, Gone
<1>22. CASE BreakerGrowsOld
  BY <1>22
     DEF BreakerGrowsOld, look, lock, claim, time, TypeOK, There, Gone
<1>23. CASE UNCHANGED vars
  BY <1>23
     DEF vars, look, lock, claim, time, TypeOK, There, Gone
<1> QED
  BY <1>1, <1>2, <1>3, <1>4, <1>5, <1>6, <1>7, <1>8, <1>9, <1>10, <1>11,
     <1>12, <1>13, <1>14, <1>15, <1>16, <1>17, <1>18, <1>19, <1>20, <1>21,
     <1>22, <1>23
  DEF Next, Work

(* A maker stays one who has called. *)
LEMMA MakersStep ==
  IInv /\ [Next]_vars => MakersHaveCalled'
<1> USE FlockAssumption DEF FlockAssumption
<1> SUFFICES ASSUME IInv, [Next]_vars PROVE MakersHaveCalled'
  OBVIOUS
<1>1. ASSUME NEW c \in Callers, Try(c) PROVE MakersHaveCalled'
  BY <1>1
     DEF Try, Goto, MakeLock, look, lock, claim, time, IInv, TypeOK, There,
         Gone, MakersHaveCalled
<1>2. ASSUME NEW c \in Callers, LookOn(c) PROVE MakersHaveCalled'
  BY <1>2
     DEF LookOn, look, lock, claim, time, IInv, TypeOK, There, Gone,
         MakersHaveCalled
<1>3. ASSUME NEW c \in Callers, Judge(c) PROVE MakersHaveCalled'
  BY <1>3
     DEF Judge, Goto, Answer, look, lock, claim, time, IInv, TypeOK, There,
         Gone, MakersHaveCalled
<1>4. ASSUME NEW c \in Callers, Claim(c) PROVE MakersHaveCalled'
  BY <1>4
     DEF Claim, Goto, look, lock, claim, time, IInv, TypeOK, There, Gone,
         MakersHaveCalled
<1>5. ASSUME NEW c \in Callers, Look(c) PROVE MakersHaveCalled'
  BY <1>5
     DEF Look, Goto, look, lock, claim, time, IInv, TypeOK, There, Gone,
         MakersHaveCalled
<1>6. ASSUME NEW c \in Callers, Unbreak(c) PROVE MakersHaveCalled'
  BY <1>6
     DEF Unbreak, Goto, DropBreaker, look, lock, claim, time, IInv, TypeOK,
         There, Gone, MakersHaveCalled
<1>7. ASSUME NEW c \in Callers, Recheck(c) PROVE MakersHaveCalled'
  BY <1>7
     DEF Recheck, Goto, Answer, Stale, look, lock, claim, time, IInv, TypeOK,
         There, Gone, MakersHaveCalled
<1>8. ASSUME NEW c \in Callers, NEW f \in {"heartbeat", "meta"}, Unlink(c, f)
      PROVE  MakersHaveCalled'
  BY <1>8
     DEF Unlink, look, lock, claim, time, IInv, TypeOK, There, Gone,
         MakersHaveCalled
<1>9. ASSUME NEW c \in Callers, Rmdir(c) PROVE MakersHaveCalled'
  BY <1>9
     DEF Rmdir, Goto, look, lock, claim, time, IInv, TypeOK, There, Gone,
         MakersHaveCalled
<1>10. ASSUME NEW c \in Callers, Remake(c) PROVE MakersHaveCalled'
  BY <1>10
     DEF Remake, Goto, MakeLock, look, lock, claim, time, IInv, TypeOK, There,
         Gone, MakersHaveCalled
<1>11. ASSUME NEW c \in Callers, Unclaim(c) PROVE MakersHaveCalled'
  BY <1>11
     DEF Unclaim, Goto, DropBreaker, look, lock, claim, time, IInv, TypeOK,
         There, Gone, MakersHaveCalled
<1>12. ASSUME NEW c \in Callers, WriteHeartbeat(c) PROVE MakersHaveCalled'
  BY <1>12
     DEF WriteHeartbeat, Goto, Compromised, look, lock, claim, time, IInv,
         TypeOK, There, Gone, MakersHaveCalled
<1>13. ASSUME NEW c \in Callers, WriteMeta(c) PROVE MakersHaveCalled'
  BY <1>13
     DEF WriteMeta, Goto, Compromised, look, lock, claim, time, IInv, TypeOK,
         There, Gone, MakersHaveCalled
<1>14. ASSUME NEW c \in Callers, CheckToken(c) PROVE MakersHaveCalled'
  BY <1>14
     DEF CheckToken, Goto, look, lock, claim, time, IInv, TypeOK, There, Gone,
         MakersHaveCalled
<1>15. ASSUME NEW c \in Callers, Release(c) PROVE MakersHaveCalled'
  BY <1>15
     DEF Release, Goto, look, lock, claim, time, IInv, TypeOK, There, Gone,
         MakersHaveCalled
<1>16. ASSUME NEW c \in Callers, Retry(c) PROVE MakersHaveCalled'
  BY <1>16
     DEF Retry, Goto, look, lock, claim, time, IInv, TypeOK, There, Gone,
         MakersHaveCalled
<1>17. ASSUME NEW c \in Callers, Call(c) PROVE MakersHaveCalled'
  BY <1>17
     DEF Call, Goto, look, lock, claim, time, IInv, TypeOK, There, Gone,
         MakersHaveCalled
<1>18. ASSUME NEW c \in Callers, Beat(c) PROVE MakersHaveCalled'
  BY <1>18
     DEF Beat, look, lock, claim, time, IInv, TypeOK, There, Gone,
         MakersHaveCalled
<1>19. ASSUME NEW c \in Callers, GiveUp(c) PROVE MakersHaveCalled'
  BY <1>19
     DEF GiveUp, Goto, look, lock, claim, time, IInv, TypeOK, There, Gone,
         MakersHaveCalled
<1>20. ASSUME NEW c \in Callers, Die(c) PROVE MakersHaveCalled'
  BY <1>20
     DEF Die, look, lock, claim, time, IInv, TypeOK, There, Gone,
         MakersHaveCalled
<1>21. ASSUME NEW f \in {"heartbeat", "meta", "dir"}, GrowsOld(f)
      PROVE  MakersHaveCalled'
  BY <1>21
     DEF GrowsOld, look, lock, claim, time, IInv, TypeOK, There, Gone,
         MakersHaveCalled
<1>22. CASE BreakerGrowsOld
  BY <1>22
     DEF BreakerGrowsOld, look, lock, claim, time, IInv, TypeOK, There, Gone,
         MakersHaveCalled
<1>23. CASE UNCHANGED vars
  BY <1>23
     DEF vars, look, lock, claim, time, IInv, TypeOK, There, Gone,
         MakersHaveCalled
<1> QED
  BY <1>1, <1>2, <1>3, <1>4, <1>5, <1>6, <1>7, <1>8, <1>9, <1>10, <1>11,
     <1>12, <1>13, <1>14, <1>15, <1>16, <1>17, <1>18, <1>19, <1>20, <1>21,
     <1>22, <1>23
  DEF Next, Work

(* Breakers stay with their makers. *)
LEMMA BreakersStep ==
  IInv /\ [Next]_vars => BreakersAreOwn'
<1> USE FlockAssumption DEF FlockAssumption
<1> SUFFICES ASSUME IInv, [Next]_vars PROVE BreakersAreOwn'
  OBVIOUS
<1>1. ASSUME NEW c \in Callers, Try(c) PROVE BreakersAreOwn'
  BY <1>1
     DEF Try, Goto, MakeLock, look, lock, claim, time, IInv, TypeOK, Gone,
         BreakersAreOwn, OwnersMadeIt, Owns, Breaking
<1>2. ASSUME NEW c \in Callers, LookOn(c) PROVE BreakersAreOwn'
  BY <1>2
     DEF LookOn, look, lock, claim, time, IInv, TypeOK, Gone, BreakersAreOwn,
         OwnersMadeIt, Owns, Breaking
<1>3. ASSUME NEW c \in Callers, Judge(c) PROVE BreakersAreOwn'
  BY <1>3
     DEF Judge, Goto, Answer, look, lock, claim, time, IInv, TypeOK, Gone,
         BreakersAreOwn, OwnersMadeIt, Owns, Breaking
<1>4. ASSUME NEW c \in Callers, Claim(c) PROVE BreakersAreOwn'
  BY <1>4
     DEF Claim, Goto, look, lock, claim, time, IInv, TypeOK, Gone,
         BreakersAreOwn, OwnersMadeIt, Owns, Breaking
<1>5. ASSUME NEW c \in Callers, Look(c) PROVE BreakersAreOwn'
  BY <1>5
     DEF Look, Goto, look, lock, claim, time, IInv, TypeOK, Gone,
         BreakersAreOwn, OwnersMadeIt, Owns, Breaking
<1>6. ASSUME NEW c \in Callers, Unbreak(c) PROVE BreakersAreOwn'
  BY <1>6
     DEF Unbreak, Goto, DropBreaker, look, lock, claim, time, IInv, TypeOK,
         Gone, BreakersAreOwn, OwnersMadeIt, Owns, Breaking
<1>7. ASSUME NEW c \in Callers, Recheck(c) PROVE BreakersAreOwn'
  BY <1>7
     DEF Recheck, Goto, Answer, Stale, look, lock, claim, time, IInv, TypeOK,
         Gone, BreakersAreOwn, OwnersMadeIt, Owns, Breaking
<1>8. ASSUME NEW c \in Callers, NEW f \in {"heartbeat", "meta"}, Unlink(c, f)
      PROVE  BreakersAreOwn'
  BY <1>8
     DEF Unlink, look, lock, claim, time, IInv, TypeOK, Gone, BreakersAreOwn,
         OwnersMadeIt, Owns, Breaking
<1>9. ASSUME NEW c \in Callers, Rmdir(c) PROVE BreakersAreOwn'
  BY <1>9
     DEF Rmdir, Goto, look, lock, claim, time, IInv, TypeOK, Gone,
         BreakersAreOwn, OwnersMadeIt, Owns, Breaking
<1>10. ASSUME NEW c \in Callers, Remake(c) PROVE BreakersAreOwn'
  BY <1>10
     DEF Remake, Goto, MakeLock, look, lock, claim, time, IInv, TypeOK, Gone,
         BreakersAreOwn, OwnersMadeIt, Owns, Breaking
<1>11. ASSUME NEW c \in Callers, Unclaim(c) PROVE BreakersAreOwn'
  BY <1>11
     DEF Unclaim, Goto, DropBreaker, look, lock, claim, time, IInv, TypeOK,
         Gone, BreakersAreOwn, OwnersMadeIt, Owns, Breaking
<1>12. ASSUME NEW c \in Callers, WriteHeartbeat(c) PROVE BreakersAreOwn'
  BY <1>12
     DEF WriteHeartbeat, Goto, Compromised, look, lock, claim, time, IInv,
         TypeOK, Gone, BreakersAreOwn, OwnersMadeIt, Owns, Breaking
<1>13. ASSUME NEW c \in Callers, WriteMeta(c) PROVE BreakersAreOwn'
  BY <1>13
     DEF WriteMeta, Goto, Compromised, look, lock, claim, time, IInv, TypeOK,
         Gone, BreakersAreOwn, OwnersMadeIt, Owns, Breaking
<1>14. ASSUME NEW c \in Callers, CheckToken(c) PROVE BreakersAreOwn'
  BY <1>14
     DEF CheckToken, Goto, look, lock, claim, time, IInv, TypeOK, Gone,
         BreakersAreOwn, OwnersMadeIt, Owns, Breaking
<1>15. ASSUME NEW c \in Callers, Release(c) PROVE BreakersAreOwn'
  BY <1>15
     DEF Release, Goto, look, lock, claim, time, IInv, TypeOK, Gone,
         BreakersAreOwn, OwnersMadeIt, Owns, Breaking
<1>16. ASSUME NEW c \in Callers, Retry(c) PROVE BreakersAreOwn'
  BY <1>16
     DEF Retry, Goto, look, lock, claim, time, IInv, TypeOK, Gone,
         BreakersAreOwn, OwnersMadeIt, Owns, Breaking
<1>17. ASSUME NEW c \in Callers, Call(c) PROVE BreakersAreOwn'
  BY <1>17
     DEF Call, Goto, look, lock, claim, time, IInv, TypeOK, Gone,
         BreakersAreOwn, OwnersMadeIt, Owns, Breaking
<1>18. ASSUME NEW c \in Callers, Beat(c) PROVE BreakersAreOwn'
  BY <1>18
     DEF Beat, look, lock, claim, time, IInv, TypeOK, Gone, BreakersAreOwn,
         OwnersMadeIt, Owns, Breaking
<1>19. ASSUME NEW c \in Callers, GiveUp(c) PROVE BreakersAreOwn'
  BY <1>19
     DEF GiveUp, Goto, look, lock, claim, time, IInv, TypeOK, Gone,
         BreakersAreOwn, OwnersMadeIt, Owns, Breaking
<1>20. ASSUME NEW c \in Callers, Die(c) PROVE BreakersAreOwn'
  BY <1>20
     DEF Die, look, lock, claim, time, IInv, TypeOK, Gone, BreakersAreOwn,
         OwnersMadeIt, Owns, Breaking
<1>21. ASSUME NEW f \in {"heartbeat", "meta", "dir"}, GrowsOld(f)
      PROVE  BreakersAreOwn'
  BY <1>21
     DEF GrowsOld, look, lock, claim, time, IInv, TypeOK, Gone,
         BreakersAreOwn, OwnersMadeIt, Owns, Breaking
<1>22. CASE BreakerGrowsOld
  BY <1>22
     DEF BreakerGrowsOld, look, lock, claim, time, IInv, TypeOK, Gone,
         BreakersAreOwn, OwnersMadeIt, Owns, Breaking
<1>23. CASE UNCHANGED vars
  BY <1>23
     DEF vars, look, lock, claim, time, IInv, TypeOK, Gone, BreakersAreOwn,
         OwnersMadeIt, Owns, Breaking
<1> QED
  BY <1>1, <1>2, <1>3, <1>4, <1>5, <1>6, <1>7, <1>8, <1>9, <1>10, <1>11,
     <1>12, <1>13, <1>14, <1>15, <1>16, <1>17, <1>18, <1>19, <1>20, <1>21,
     <1>22, <1>23
  DEF Next, Work

(* Who remakes has not made. *)
LEMMA FreshStep ==
  IInv /\ [Next]_vars => RemakersHaveNotMade'
<1> USE FlockAssumption DEF FlockAssumption
<1> SUFFICES ASSUME IInv, [Next]_vars PROVE RemakersHaveNotMade'
  OBVIOUS
<1>1. ASSUME NEW c \in Callers, Try(c) PROVE RemakersHaveNotMade'
  BY <1>1
     DEF Try, Goto, MakeLock, look, lock, claim, time, IInv, TypeOK,
         RemakersHaveNotMade
<1>2. ASSUME NEW c \in Callers, LookOn(c) PROVE RemakersHaveNotMade'
  BY <1>2
     DEF LookOn, look, lock, claim, time, IInv, TypeOK, RemakersHaveNotMade
<1>3. ASSUME NEW c \in Callers, Judge(c) PROVE RemakersHaveNotMade'
  BY <1>3
     DEF Judge, Goto, Answer, look, lock, claim, time, IInv, TypeOK,
         RemakersHaveNotMade
<1>4. ASSUME NEW c \in Callers, Claim(c) PROVE RemakersHaveNotMade'
  BY <1>4
     DEF Claim, Goto, look, lock, claim, time, IInv, TypeOK,
         RemakersHaveNotMade
<1>5. ASSUME NEW c \in Callers, Look(c) PROVE RemakersHaveNotMade'
  BY <1>5
     DEF Look, Goto, look, lock, claim, time, IInv, TypeOK,
         RemakersHaveNotMade
<1>6. ASSUME NEW c \in Callers, Unbreak(c) PROVE RemakersHaveNotMade'
  BY <1>6
     DEF Unbreak, Goto, DropBreaker, look, lock, claim, time, IInv, TypeOK,
         RemakersHaveNotMade
<1>7. ASSUME NEW c \in Callers, Recheck(c) PROVE RemakersHaveNotMade'
  BY <1>7
     DEF Recheck, Goto, Answer, Stale, look, lock, claim, time, IInv, TypeOK,
         RemakersHaveNotMade
<1>8. ASSUME NEW c \in Callers, NEW f \in {"heartbeat", "meta"}, Unlink(c, f)
      PROVE  RemakersHaveNotMade'
  BY <1>8
     DEF Unlink, look, lock, claim, time, IInv, TypeOK, RemakersHaveNotMade
<1>9. ASSUME NEW c \in Callers, Rmdir(c) PROVE RemakersHaveNotMade'
  BY <1>9
     DEF Rmdir, Goto, look, lock, claim, time, IInv, TypeOK,
         RemakersHaveNotMade
<1>10. ASSUME NEW c \in Callers, Remake(c) PROVE RemakersHaveNotMade'
  BY <1>10
     DEF Remake, Goto, MakeLock, look, lock, claim, time, IInv, TypeOK,
         RemakersHaveNotMade
<1>11. ASSUME NEW c \in Callers, Unclaim(c) PROVE RemakersHaveNotMade'
  BY <1>11
     DEF Unclaim, Goto, DropBreaker, look, lock, claim, time, IInv, TypeOK,
         RemakersHaveNotMade
<1>12. ASSUME NEW c \in Callers, WriteHeartbeat(c) PROVE RemakersHaveNotMade'
  BY <1>12
     DEF WriteHeartbeat, Goto, Compromised, look, lock, claim, time, IInv,
         TypeOK, RemakersHaveNotMade
<1>13. ASSUME NEW c \in Callers, WriteMeta(c) PROVE RemakersHaveNotMade'
  BY <1>13
     DEF WriteMeta, Goto, Compromised, look, lock, claim, time, IInv, TypeOK,
         RemakersHaveNotMade
<1>14. ASSUME NEW c \in Callers, CheckToken(c) PROVE RemakersHaveNotMade'
  BY <1>14
     DEF CheckToken, Goto, look, lock, claim, time, IInv, TypeOK,
         RemakersHaveNotMade
<1>15. ASSUME NEW c \in Callers, Release(c) PROVE RemakersHaveNotMade'
  BY <1>15
     DEF Release, Goto, look, lock, claim, time, IInv, TypeOK,
         RemakersHaveNotMade
<1>16. ASSUME NEW c \in Callers, Retry(c) PROVE RemakersHaveNotMade'
  BY <1>16
     DEF Retry, Goto, look, lock, claim, time, IInv, TypeOK,
         RemakersHaveNotMade
<1>17. ASSUME NEW c \in Callers, Call(c) PROVE RemakersHaveNotMade'
  BY <1>17
     DEF Call, Goto, look, lock, claim, time, IInv, TypeOK,
         RemakersHaveNotMade
<1>18. ASSUME NEW c \in Callers, Beat(c) PROVE RemakersHaveNotMade'
  BY <1>18
     DEF Beat, look, lock, claim, time, IInv, TypeOK, RemakersHaveNotMade
<1>19. ASSUME NEW c \in Callers, GiveUp(c) PROVE RemakersHaveNotMade'
  BY <1>19
     DEF GiveUp, Goto, look, lock, claim, time, IInv, TypeOK,
         RemakersHaveNotMade
<1>20. ASSUME NEW c \in Callers, Die(c) PROVE RemakersHaveNotMade'
  BY <1>20
     DEF Die, look, lock, claim, time, IInv, TypeOK, RemakersHaveNotMade
<1>21. ASSUME NEW f \in {"heartbeat", "meta", "dir"}, GrowsOld(f)
      PROVE  RemakersHaveNotMade'
  BY <1>21
     DEF GrowsOld, look, lock, claim, time, IInv, TypeOK, RemakersHaveNotMade
<1>22. CASE BreakerGrowsOld
  BY <1>22
     DEF BreakerGrowsOld, look, lock, claim, time, IInv, TypeOK,
         RemakersHaveNotMade
<1>23. CASE UNCHANGED vars
  BY <1>23
     DEF vars, look, lock, claim, time, IInv, TypeOK, RemakersHaveNotMade
<1> QED
  BY <1>1, <1>2, <1>3, <1>4, <1>5, <1>6, <1>7, <1>8, <1>9, <1>10, <1>11,
     <1>12, <1>13, <1>14, <1>15, <1>16, <1>17, <1>18, <1>19, <1>20, <1>21,
     <1>22, <1>23
  DEF Next, Work

(* What breakers remove stays a dead caller's. *)
LEMMA RemovalStep ==
  IInv /\ [Next]_vars => RemovalIsOfTheDead'
<1> USE FlockAssumption DEF FlockAssumption
<1> SUFFICES ASSUME IInv, [Next]_vars PROVE RemovalIsOfTheDead'
  OBVIOUS
<1>1. ASSUME NEW c \in Callers, Try(c) PROVE RemovalIsOfTheDead'
  BY <1>1
     DEF Try, Goto, MakeLock, look, lock, claim, time, IInv, TypeOK, There,
         Gone, MakersHaveCalled, BreakersAreOwn, RemovalIsOfTheDead,
         OwnersMadeIt, Owns, Breaking
<1>2. ASSUME NEW c \in Callers, LookOn(c) PROVE RemovalIsOfTheDead'
  BY <1>2
     DEF LookOn, look, lock, claim, time, IInv, TypeOK, There, Gone,
         MakersHaveCalled, BreakersAreOwn, RemovalIsOfTheDead, OwnersMadeIt,
         Owns, Breaking
<1>3. ASSUME NEW c \in Callers, Judge(c) PROVE RemovalIsOfTheDead'
  BY <1>3
     DEF Judge, Goto, Answer, look, lock, claim, time, IInv, TypeOK, There,
         Gone, MakersHaveCalled, BreakersAreOwn, RemovalIsOfTheDead,
         OwnersMadeIt, Owns, Breaking
<1>4. ASSUME NEW c \in Callers, Claim(c) PROVE RemovalIsOfTheDead'
  BY <1>4
     DEF Claim, Goto, look, lock, claim, time, IInv, TypeOK, There, Gone,
         MakersHaveCalled, BreakersAreOwn, RemovalIsOfTheDead, OwnersMadeIt,
         Owns, Breaking
<1>5. ASSUME NEW c \in Callers, Look(c) PROVE RemovalIsOfTheDead'
  BY <1>5
     DEF Look, Goto, look, lock, claim, time, IInv, TypeOK, There, Gone,
         MakersHaveCalled, BreakersAreOwn, RemovalIsOfTheDead, OwnersMadeIt,
         Owns, Breaking
<1>6. ASSUME NEW c \in Callers, Unbreak(c) PROVE RemovalIsOfTheDead'
  BY <1>6
     DEF Unbreak, Goto, DropBreaker, look, lock, claim, time, IInv, TypeOK,
         There, Gone, MakersHaveCalled, BreakersAreOwn, RemovalIsOfTheDead,
         OwnersMadeIt, Owns, Breaking
<1>7. ASSUME NEW c \in Callers, Recheck(c) PROVE RemovalIsOfTheDead'
  BY <1>7
     DEF Recheck, Goto, Answer, Stale, look, lock, claim, time, IInv, TypeOK,
         There, Gone, MakersHaveCalled, BreakersAreOwn, RemovalIsOfTheDead,
         OwnersMadeIt, Owns, Breaking
<1>8. ASSUME NEW c \in Callers, NEW f \in {"heartbeat", "meta"}, Unlink(c, f)
      PROVE  RemovalIsOfTheDead'
  BY <1>8
     DEF Unlink, look, lock, claim, time, IInv, TypeOK, There, Gone,
         MakersHaveCalled, BreakersAreOwn, RemovalIsOfTheDead, OwnersMadeIt,
         Owns, Breaking
<1>9. ASSUME NEW c \in Callers, Rmdir(c) PROVE RemovalIsOfTheDead'
  BY <1>9
     DEF Rmdir, Goto, look, lock, claim, time, IInv, TypeOK, There, Gone,
         MakersHaveCalled, BreakersAreOwn, RemovalIsOfTheDead, OwnersMadeIt,
         Owns, Breaking
<1>10. ASSUME NEW c \in Callers, Remake(c) PROVE RemovalIsOfTheDead'
  BY <1>10
     DEF Remake, Goto, MakeLock, look, lock, claim, time, IInv, TypeOK, There,
         Gone, MakersHaveCalled, BreakersAreOwn, RemovalIsOfTheDead,
         OwnersMadeIt, Owns, Breaking
<1>11. ASSUME NEW c \in Callers, Unclaim(c) PROVE RemovalIsOfTheDead'
  BY <1>11
     DEF Unclaim, Goto, DropBreaker, look, lock, claim, time, IInv, TypeOK,
         There, Gone, MakersHaveCalled, BreakersAreOwn, RemovalIsOfTheDead,
         OwnersMadeIt, Owns, Breaking
<1>12. ASSUME NEW c \in Callers, WriteHeartbeat(c) PROVE RemovalIsOfTheDead'
  BY <1>12
     DEF WriteHeartbeat, Goto, Compromised, look, lock, claim, time, IInv,
         TypeOK, There, Gone, MakersHaveCalled, BreakersAreOwn,
         RemovalIsOfTheDead, OwnersMadeIt, Owns, Breaking
<1>13. ASSUME NEW c \in Callers, WriteMeta(c) PROVE RemovalIsOfTheDead'
  BY <1>13
     DEF WriteMeta, Goto, Compromised, look, lock, claim, time, IInv, TypeOK,
         There, Gone, MakersHaveCalled, BreakersAreOwn, RemovalIsOfTheDead,
         OwnersMadeIt, Owns, Breaking
<1>14. ASSUME NEW c \in Callers, CheckToken(c) PROVE RemovalIsOfTheDead'
  BY <1>14
     DEF CheckToken, Goto, look, lock, claim, time, IInv, TypeOK, There, Gone,
         MakersHaveCalled, BreakersAreOwn, RemovalIsOfTheDead, OwnersMadeIt,
         Owns, Breaking
<1>15. ASSUME NEW c \in Callers, Release(c) PROVE RemovalIsOfTheDead'
  BY <1>15
     DEF Release, Goto, look, lock, claim, time, IInv, TypeOK, There, Gone,
         MakersHaveCalled, BreakersAreOwn, RemovalIsOfTheDead, OwnersMadeIt,
         Owns, Breaking
<1>16. ASSUME NEW c \in Callers, Retry(c) PROVE RemovalIsOfTheDead'
  BY <1>16
     DEF Retry, Goto, look, lock, claim, time, IInv, TypeOK, There, Gone,
         MakersHaveCalled, BreakersAreOwn, RemovalIsOfTheDead, OwnersMadeIt,
         Owns, Breaking
<1>17. ASSUME NEW c \in Callers, Call(c) PROVE RemovalIsOfTheDead'
  BY <1>17
     DEF Call, Goto, look, lock, claim, time, IInv, TypeOK, There, Gone,
         MakersHaveCalled, BreakersAreOwn, RemovalIsOfTheDead, OwnersMadeIt,
         Owns, Breaking
<1>18. ASSUME NEW c \in Callers, Beat(c) PROVE RemovalIsOfTheDead'
  BY <1>18
     DEF Beat, look, lock, claim, time, IInv, TypeOK, There, Gone,
         MakersHaveCalled, BreakersAreOwn, RemovalIsOfTheDead, OwnersMadeIt,
         Owns, Breaking
<1>19. ASSUME NEW c \in Callers, GiveUp(c) PROVE RemovalIsOfTheDead'
  BY <1>19
     DEF GiveUp, Goto, look, lock, claim, time, IInv, TypeOK, There, Gone,
         MakersHaveCalled, BreakersAreOwn, RemovalIsOfTheDead, OwnersMadeIt,
         Owns, Breaking
<1>20. ASSUME NEW c \in Callers, Die(c) PROVE RemovalIsOfTheDead'
  BY <1>20
     DEF Die, look, lock, claim, time, IInv, TypeOK, There, Gone,
         MakersHaveCalled, BreakersAreOwn, RemovalIsOfTheDead, OwnersMadeIt,
         Owns, Breaking
<1>21. ASSUME NEW f \in {"heartbeat", "meta", "dir"}, GrowsOld(f)
      PROVE  RemovalIsOfTheDead'
  BY <1>21
     DEF GrowsOld, look, lock, claim, time, IInv, TypeOK, There, Gone,
         MakersHaveCalled, BreakersAreOwn, RemovalIsOfTheDead, OwnersMadeIt,
         Owns, Breaking
<1>22. CASE BreakerGrowsOld
  BY <1>22
     DEF BreakerGrowsOld, look, lock, claim, time, IInv, TypeOK, There, Gone,
         MakersHaveCalled, BreakersAreOwn, RemovalIsOfTheDead, OwnersMadeIt,
         Owns, Breaking
<1>23. CASE UNCHANGED vars
  BY <1>23
     DEF vars, look, lock, claim, time, IInv, TypeOK, There, Gone,
         MakersHaveCalled, BreakersAreOwn, RemovalIsOfTheDead, OwnersMadeIt,
         Owns, Breaking
<1> QED
  BY <1>1, <1>2, <1>3, <1>4, <1>5, <1>6, <1>7, <1>8, <1>9, <1>10, <1>11,
     <1>12, <1>13, <1>14, <1>15, <1>16, <1>17, <1>18, <1>19, <1>20, <1>21,
     <1>22, <1>23
  DEF Next, Work

(* Owners keep what they made. *)
LEMMA OwnersStep ==
  IInv /\ [Next]_vars => OwnersMadeIt'
<1> USE FlockAssumption DEF FlockAssumption
<1> SUFFICES ASSUME IInv, [Next]_vars PROVE OwnersMadeIt'
  OBVIOUS
<1>1. ASSUME NEW c \in Callers, Try(c) PROVE OwnersMadeIt'
  BY <1>1
     DEF Try, Goto, MakeLock, look, lock, claim, time, IInv, TypeOK, There,
         Gone, MakersHaveCalled, BreakersAreOwn, RemakersHaveNotMade,
         RemovalIsOfTheDead, OwnersMadeIt, Owns, Breaking
<1>2. ASSUME NEW c \in Callers, LookOn(c) PROVE OwnersMadeIt'
  BY <1>2
     DEF LookOn, look, lock, claim, time, IInv, TypeOK, There, Gone,
         MakersHaveCalled, BreakersAreOwn, RemakersHaveNotMade,
         RemovalIsOfTheDead, OwnersMadeIt, Owns, Breaking
<1>3. ASSUME NEW c \in Callers, Judge(c) PROVE OwnersMadeIt'
  BY <1>3
     DEF Judge, Goto, Answer, look, lock, claim, time, IInv, TypeOK, There,
         Gone, MakersHaveCalled, BreakersAreOwn, RemakersHaveNotMade,
         RemovalIsOfTheDead, OwnersMadeIt, Owns, Breaking
<1>4. ASSUME NEW c \in Callers, Claim(c) PROVE OwnersMadeIt'
  BY <1>4
     DEF Claim, Goto, look, lock, claim, time, IInv, TypeOK, There, Gone,
         MakersHaveCalled, BreakersAreOwn, RemakersHaveNotMade,
         RemovalIsOfTheDead, OwnersMadeIt, Owns, Breaking
<1>5. ASSUME NEW c \in Callers, Look(c) PROVE OwnersMadeIt'
  BY <1>5
     DEF Look, Goto, look, lock, claim, time, IInv, TypeOK, There, Gone,
         MakersHaveCalled, BreakersAreOwn, RemakersHaveNotMade,
         RemovalIsOfTheDead, OwnersMadeIt, Owns, Breaking
<1>6. ASSUME NEW c \in Callers, Unbreak(c) PROVE OwnersMadeIt'
  BY <1>6
     DEF Unbreak, Goto, DropBreaker, look, lock, claim, time, IInv, TypeOK,
         There, Gone, MakersHaveCalled, BreakersAreOwn, RemakersHaveNotMade,
         RemovalIsOfTheDead, OwnersMadeIt, Owns, Breaking
<1>7. ASSUME NEW c \in Callers, Recheck(c) PROVE OwnersMadeIt'
  BY <1>7
     DEF Recheck, Goto, Answer, Stale, look, lock, claim, time, IInv, TypeOK,
         There, Gone, MakersHaveCalled, BreakersAreOwn, RemakersHaveNotMade,
         RemovalIsOfTheDead, OwnersMadeIt, Owns, Breaking
<1>8. ASSUME NEW c \in Callers, NEW f \in {"heartbeat", "meta"}, Unlink(c, f)
      PROVE  OwnersMadeIt'
  BY <1>8
     DEF Unlink, look, lock, claim, time, IInv, TypeOK, There, Gone,
         MakersHaveCalled, BreakersAreOwn, RemakersHaveNotMade,
         RemovalIsOfTheDead, OwnersMadeIt, Owns, Breaking
<1>9. ASSUME NEW c \in Callers, Rmdir(c) PROVE OwnersMadeIt'
  BY <1>9
     DEF Rmdir, Goto, look, lock, claim, time, IInv, TypeOK, There, Gone,
         MakersHaveCalled, BreakersAreOwn, RemakersHaveNotMade,
         RemovalIsOfTheDead, OwnersMadeIt, Owns, Breaking
<1>10. ASSUME NEW c \in Callers, Remake(c) PROVE OwnersMadeIt'
  <2>1. SUFFICES ASSUME ~disturbed PROVE OwnersMadeIt'
    BY <1>10 DEF Remake, time, OwnersMadeIt
  <2>2. CASE maker = None
    <3>1. \A d \in Callers : ~Owns(d)
      BY <2>1, <2>2 DEF IInv, OwnersMadeIt
    <3>2. \A d \in Callers : d # c => ~Owns(d)'
      BY <1>10, <2>2, <3>1 DEF Remake, Goto, Owns, IInv, TypeOK
    <3>3. pc'[c] = "unclaim" /\ maker' = c /\ ~heartbeat' /\ meta' = None
      BY <1>10, <2>2 DEF Remake, Goto, MakeLock, IInv, TypeOK
    <3> QED
      BY <3>2, <3>3 DEF OwnersMadeIt
  <2>3. CASE maker # None
    <3>0. ~made[c]
      BY <1>10 DEF Remake, Goto, IInv, RemakersHaveNotMade
    <3>1. /\ made' = made /\ then' = then /\ UNCHANGED lock
          /\ pc' = [pc EXCEPT ![c] = "unclaim"]
      BY <1>10, <2>3 DEF Remake, Goto
    <3>2. ~Owns(c)'
      BY <3>0, <3>1 DEF Owns, IInv, TypeOK
    <3>3. \A d \in Callers : d # c => pc'[d] = pc[d]
      BY <3>1 DEF IInv, TypeOK
    <3> QED
      BY <2>1, <3>1, <3>2, <3>3 DEF IInv, OwnersMadeIt, Owns, lock
  <2> QED
    BY <2>2, <2>3
<1>11. ASSUME NEW c \in Callers, Unclaim(c) PROVE OwnersMadeIt'
  BY <1>11
     DEF Unclaim, Goto, DropBreaker, look, lock, claim, time, IInv, TypeOK,
         There, Gone, MakersHaveCalled, BreakersAreOwn, RemakersHaveNotMade,
         RemovalIsOfTheDead, OwnersMadeIt, Owns, Breaking
<1>12. ASSUME NEW c \in Callers, WriteHeartbeat(c) PROVE OwnersMadeIt'
  BY <1>12
     DEF WriteHeartbeat, Goto, Compromised, look, lock, claim, time, IInv,
         TypeOK, There, Gone, MakersHaveCalled, BreakersAreOwn,
         RemakersHaveNotMade, RemovalIsOfTheDead, OwnersMadeIt, Owns, Breaking
<1>13. ASSUME NEW c \in Callers, WriteMeta(c) PROVE OwnersMadeIt'
  BY <1>13
     DEF WriteMeta, Goto, Compromised, look, lock, claim, time, IInv, TypeOK,
         There, Gone, MakersHaveCalled, BreakersAreOwn, RemakersHaveNotMade,
         RemovalIsOfTheDead, OwnersMadeIt, Owns, Breaking
<1>14. ASSUME NEW c \in Callers, CheckToken(c) PROVE OwnersMadeIt'
  BY <1>14
     DEF CheckToken, Goto, look, lock, claim, time, IInv, TypeOK, There, Gone,
         MakersHaveCalled, BreakersAreOwn, RemakersHaveNotMade,
         RemovalIsOfTheDead, OwnersMadeIt, Owns, Breaking
<1>15. ASSUME NEW c \in Callers, Release(c) PROVE OwnersMadeIt'
  BY <1>15
     DEF Release, Goto, look, lock, claim, time, IInv, TypeOK, There, Gone,
         MakersHaveCalled, BreakersAreOwn, RemakersHaveNotMade,
         RemovalIsOfTheDead, OwnersMadeIt, Owns, Breaking
<1>16. ASSUME NEW c \in Callers, Retry(c) PROVE OwnersMadeIt'
  BY <1>16
     DEF Retry, Goto, look, lock, claim, time, IInv, TypeOK, There, Gone,
         MakersHaveCalled, BreakersAreOwn, RemakersHaveNotMade,
         RemovalIsOfTheDead, OwnersMadeIt, Owns, Breaking
<1>17. ASSUME NEW c \in Callers, Call(c) PROVE OwnersMadeIt'
  BY <1>17
     DEF Call, Goto, look, lock, claim, time, IInv, TypeOK, There, Gone,
         MakersHaveCalled, BreakersAreOwn, RemakersHaveNotMade,
         RemovalIsOfTheDead, OwnersMadeIt, Owns, Breaking
<1>18. ASSUME NEW c \in Callers, Beat(c) PROVE OwnersMadeIt'
  BY <1>18
     DEF Beat, look, lock, claim, time, IInv, TypeOK, There, Gone,
         MakersHaveCalled, BreakersAreOwn, RemakersHaveNotMade,
         RemovalIsOfTheDead, OwnersMadeIt, Owns, Breaking
<1>19. ASSUME NEW c \in Callers, GiveUp(c) PROVE OwnersMadeIt'
  BY <1>19
     DEF GiveUp, Goto, look, lock, claim, time, IInv, TypeOK, There, Gone,
         MakersHaveCalled, BreakersAreOwn, RemakersHaveNotMade,
         RemovalIsOfTheDead, OwnersMadeIt, Owns, Breaking
<1>20. ASSUME NEW c \in Callers, Die(c) PROVE OwnersMadeIt'
  BY <1>20
     DEF Die, look, lock, claim, time, IInv, TypeOK, There, Gone,
         MakersHaveCalled, BreakersAreOwn, RemakersHaveNotMade,
         RemovalIsOfTheDead, OwnersMadeIt, Owns, Breaking
<1>21. ASSUME NEW f \in {"heartbeat", "meta", "dir"}, GrowsOld(f)
      PROVE  OwnersMadeIt'
  BY <1>21
     DEF GrowsOld, look, lock, claim, time, IInv, TypeOK, There, Gone,
         MakersHaveCalled, BreakersAreOwn, RemakersHaveNotMade,
         RemovalIsOfTheDead, OwnersMadeIt, Owns, Breaking
<1>22. CASE BreakerGrowsOld
  BY <1>22
     DEF BreakerGrowsOld, look, lock, claim, time, IInv, TypeOK, There, Gone,
         MakersHaveCalled, BreakersAreOwn, RemakersHaveNotMade,
         RemovalIsOfTheDead, OwnersMadeIt, Owns, Breaking
<1>23. CASE UNCHANGED vars
  BY <1>23
     DEF vars, look, lock, claim, time, IInv, TypeOK, There, Gone,
         MakersHaveCalled, BreakersAreOwn, RemakersHaveNotMade,
         RemovalIsOfTheDead, OwnersMadeIt, Owns, Breaking
<1> QED
  BY <1>1, <1>2, <1>3, <1>4, <1>5, <1>6, <1>7, <1>8, <1>9, <1>10, <1>11,
     <1>12, <1>13, <1>14, <1>15, <1>16, <1>17, <1>18, <1>19, <1>20, <1>21,
     <1>22, <1>23
  DEF Next, Work

LEMMA Inductive == IInv /\ [Next]_vars => IInv'
BY TypeStep, MakersStep, BreakersStep, FreshStep, RemovalStep, OwnersStep DEF IInv

THEOREM Invariance == Spec => []IInv
<1> QED
  BY Initially, Inductive, PTL DEF Spec

(* Callers, the lock's directory and the breaker are well formed.           *)
THEOREM TypeCorrect == Spec => []TypeOK
<1>1. IInv => TypeOK
  BY DEF IInv
<1> QED
  BY <1>1, Invariance, PTL

(* Undisturbed, the lock has one holder.                                    *)
THEOREM OneHolder == Spec => []MutualExclusion
<1>1. IInv => MutualExclusion
  BY DEF IInv, OwnersMadeIt, Owns, MutualExclusion, Held
<1> QED
  BY <1>1, Invariance, PTL

(* Undisturbed, no release is refused.                                      *)
THEOREM ReleasesSucceed == Spec => []ReleaseWillSucceed
<1>1. IInv => ReleaseWillSucceed
  BY DEF IInv, OwnersMadeIt, Owns, ReleaseWillSucceed
<1> QED
  BY <1>1, Invariance, PTL

(* The protocol of directories implements the abstract lock: whoever comes  *)
(* to hold it comes to a free one, unless somebody was disturbed.           *)
THEOREM Implements == Spec => IsALock
<1>1. Init => Promise!Init
  BY DEF Init, Promise!Init, Held
<1>2. IInv /\ [Next]_vars => [Promise!Next]_<<Held, disturbed>>
  <2> SUFFICES ASSUME IInv, [Next]_vars PROVE [Promise!Next]_<<Held, disturbed>>
    OBVIOUS
  <2> USE FlockAssumption DEF FlockAssumption, IInv, TypeOK
  <2>1. ASSUME NEW c \in Callers, WriteMeta(c)
        PROVE  \/ UNCHANGED <<Held, disturbed>>
               \/ Promise!Acquire(c)
    <3>1. disturbed' = disturbed /\ pc[c] = "meta"
      BY <2>1 DEF WriteMeta, time, Goto
    <3>2. CASE pc' = [pc EXCEPT ![c] = "held"]
      <4>1. Held' = Held \cup {c} /\ c \notin Held
        BY <3>1, <3>2 DEF Held
      <4>2. ~disturbed => Held = {}
        BY <3>1 DEF OwnersMadeIt, Owns, Held
      <4> QED
        BY <3>1, <4>1, <4>2 DEF Promise!Acquire
    <3>3. CASE pc' = [pc EXCEPT ![c] = "rm"]
      BY <3>1, <3>3 DEF Held
    <3> QED
      BY <2>1, <3>2, <3>3 DEF WriteMeta, Goto, Compromised
  <2>2. ASSUME NEW c \in Callers, Release(c) \/ Die(c)
        PROVE  UNCHANGED <<Held, disturbed>> \/ Promise!Leave(c)
    <3>1. disturbed' = disturbed
      BY <2>2 DEF Release, Die, time
    <3>2. Held' = Held \ {c}
      BY <2>2 DEF Release, Die, Goto, Held
    <3> QED
      BY <3>1, <3>2 DEF Promise!Leave
  <2>3. ASSUME NEW c \in Callers,
               \/ Try(c) \/ LookOn(c) \/ Judge(c) \/ Claim(c) \/ Look(c) \/ Unbreak(c)
               \/ (\E f \in {"heartbeat", "meta"} : Unlink(c, f)) \/ Rmdir(c) \/ Remake(c) \/ Unclaim(c) \/ WriteHeartbeat(c)
               \/ CheckToken(c) \/ Retry(c) \/ Call(c) \/ Beat(c) \/ GiveUp(c)
        PROVE  UNCHANGED <<Held, disturbed>>
    <3>1. disturbed' = disturbed
      BY <2>3
         DEF Try, LookOn, Judge, Claim, Look, Unbreak, Unlink, Rmdir, Remake, Unclaim,
         WriteHeartbeat, CheckToken, Retry, Call, Beat, GiveUp, time
    <3>2. \/ pc' = pc
          \/ pc[c] # "held" /\ \E to : to # "held" /\ pc' = [pc EXCEPT ![c] = to]
      BY <2>3
         DEF Try, LookOn, Judge, Claim, Look, Unbreak, Unlink, Rmdir, Remake, Unclaim,
         WriteHeartbeat, CheckToken, Retry, Call, Beat, GiveUp, Goto, Compromised
    <3> QED
      BY <3>1, <3>2 DEF Held
  <2>4. ASSUME NEW c \in Callers, Recheck(c)
        PROVE  UNCHANGED <<Held, disturbed>> \/ Promise!Break
    <3>1. Held' = Held
      BY <2>4 DEF Recheck, Goto, Held
    <3>2. disturbed' = disturbed \/ disturbed' = TRUE
      BY <2>4 DEF Recheck
    <3> QED
      BY <3>1, <3>2 DEF Promise!Break
  <2>6. ASSUME NEW f \in {"heartbeat", "meta", "dir"}, GrowsOld(f)
        PROVE  UNCHANGED <<Held, disturbed>>
    BY <2>6 DEF GrowsOld, Held
  <2>7. CASE BreakerGrowsOld
    BY <2>7 DEF BreakerGrowsOld, Held, Promise!Next, Promise!Break
  <2>5. CASE UNCHANGED vars
    BY <2>5 DEF vars, time, Held
  <2> QED
    BY <2>1, <2>2, <2>3, <2>4, <2>5, <2>6, <2>7 DEF Next, Work, Promise!Next
<1> QED
  BY <1>1, <1>2, Invariance, PTL DEF Spec, IsALock, Promise!Spec
=============================================================================
