---------------------------- MODULE PendingProofs ----------------------------
(* For any number of requests, replies, sessions, patterns and              *)
(* interruptions: nobody is forgotten, answers have a cause, and cascades   *)
(* leave nobody behind.                                                     *)
EXTENDS Pending, TLAPS

(* A reply that was found has in its hands what is out of the map.          *)
InHand(k) == reply[k].step \in {"telling", "cut"}

RepliesAreSound ==
  \A k \in Replies :
    /\ InHand(k) \/ reply[k].step = "done" =>
         /\ reply[k].verdict \in Verdicts
         /\ reply[k].to \in 1 .. asked /\ reply[k].to \notin pending
         /\ reply[k].verdict = "always" => info[reply[k].to].kind = "permission"
         /\ reply[k].at \in 0 .. asked
    /\ InHand(k) => reply[k].item \in 1 .. asked
    /\ InHand(k) /\ reply[k].item = reply[k].to => reply[k].at = 0

(* Nothing that a rule denies waits.                                        *)
Undenied(r) == \A p \in info[r].patterns : info[r].rule[p] # "deny" \/ p \in approved

NothingDeniedWaits ==
  /\ \A r \in Requests : answer[r] # None => r <= asked
  /\ \A r \in pending : r <= asked /\ Undenied(r)
  /\ \A k \in Replies : InHand(k) => Undenied(reply[k].item)

(* What a cascade has in its hands, it has for a reason.                    *)
CascadesHaveCause ==
  \A k \in Replies :
    InHand(k) /\ reply[k].item # reply[k].to =>
      /\ SameSession(reply[k].to, reply[k].item)
      /\ Yes(k) => reply[k].verdict = "always" /\ info[reply[k].item].patterns \subseteq approved

(* What a carried reply gives for always is approved.                       *)
GivenIsApproved ==
  \A k \in Replies :
    Carried(k) /\ reply[k].verdict = "always" => info[reply[k].to].always \subseteq approved

(* A walk that rejects has left nothing of its session behind it.           *)
WalksAreThorough ==
  \A k \in Replies : reply[k].step = "telling" /\ ~Yes(k) =>
    \A r \in pending : SameSession(reply[k].to, r) => r > reply[k].at

IInv ==
  /\ TypeOK /\ RepliesAreSound /\ NothingDeniedWaits /\ CascadesHaveCause
  /\ GivenIsApproved /\ WalksAreThorough
  /\ AnswersHaveCause /\ NobodyIsForgotten /\ CascadesAreComplete

-----------------------------------------------------------------------------
(* What the steps do to requests, without EXCEPT.                           *)

LEMMA Known ==
  ASSUME TypeOK, NEW r \in 1 .. asked
  PROVE  r \in Requests /\ info[r] \in Inputs /\ info[r] \in Input /\ asker[r] # "new"
BY PendingAssumption DEF PendingAssumption, TypeOK, Requests

LEMMA AskDoes ==
  ASSUME TypeOK, NEW r \in Requests, NEW i \in Inputs, Ask(r, i)
  PROVE  /\ r = asked + 1 /\ asked' = r /\ info'[r] = i
         /\ \A s \in 1 .. asked : info'[s] = info[s] /\ asker'[s] = asker[s]
         /\ \A s \in Requests : s > r => info'[s] = None /\ asker'[s] = "new"
         /\ \/ pending' = pending /\ asker'[r] \in {"denied", "allowed"}
            \/ /\ pending' = pending \cup {r} /\ asker'[r] = "waiting"
               /\ i.kind = "question" \/ Pends(i)
         /\ UNCHANGED <<answer, approved, reply, disposed, interrupts>>
<1> USE PendingAssumption DEF PendingAssumption
<1>1. r = asked + 1 /\ asked' = r /\ info' = [info EXCEPT ![r] = i]
      /\ UNCHANGED <<answer, approved, reply, disposed, interrupts>>
  BY DEF Ask
<1>2. PICK x \in {"denied", "allowed", "waiting"} :
        /\ asker' = [asker EXCEPT ![r] = x]
        /\ \/ pending' = pending /\ x # "waiting"
           \/ pending' = pending \cup {r} /\ x = "waiting" /\ (i.kind = "question" \/ Pends(i))
  BY DEF Ask, Decided
<1>3. \A s \in 1 .. asked : s \in Requests /\ s # r
  BY <1>1 DEF TypeOK, Requests
<1>4. \A s \in 1 .. asked : info'[s] = info[s] /\ asker'[s] = asker[s]
  BY <1>1, <1>2, <1>3 DEF TypeOK
<1>5. \A s \in Requests : s > r => info'[s] = None /\ asker'[s] = "new"
  BY <1>1, <1>2 DEF TypeOK, Requests
<1>6. info'[r] = i /\ asker'[r] = x
  BY <1>1, <1>2 DEF TypeOK
<1> QED
  BY <1>1, <1>2, <1>4, <1>5, <1>6

(* Both steps of a walk.                                                    *)
Tells(k) ==
  /\ reply[k].step = "telling" /\ Complete(k) /\ approved' = Approved(k)
  /\ UNCHANGED <<info, asker, asked, interrupts, disposed>>

LEMMA TellDoes ==
  ASSUME TypeOK, RepliesAreSound, NEW k \in Replies, Tells(k)
  PROVE  LET x == reply[k].item
         IN  /\ x \in 1 .. asked /\ x \in Requests
             /\ answer'[x] # None
             /\ answer[x] = None => answer'[x] = IF Yes(k) THEN "granted" ELSE "rejected"
             /\ \A r \in Requests : r # x \/ answer[r] # None => answer'[r] = answer[r]
             /\ answer' \in [Requests -> {None, "granted", "rejected"}]
<1> DEFINE x == reply[k].item
<1>1. x \in 1 .. asked /\ x \in Requests
  BY DEF Tells, RepliesAreSound, InHand, TypeOK, Requests
<1>2. "granted" # None /\ "rejected" # None
  BY PendingAssumption DEF PendingAssumption
<1> QED
  BY <1>1, <1>2 DEF Tells, Complete, TypeOK

(* What all properties have in common: requests that are known stay so.     *)
LEMMA Growth ==
  ASSUME TypeOK, RepliesAreSound, [Next]_vars
  PROVE  /\ asked' \in {asked, asked + 1} /\ asked' \in Nat /\ asked \in Nat
         /\ \A r \in 1 .. asked : info'[r] = info[r] /\ r \in 1 .. asked'
         /\ approved \subseteq approved' /\ disposed \subseteq disposed'
         /\ \A r \in Requests : answer[r] # None => answer'[r] = answer[r]
<1>0. asked \in Nat /\ asked + 1 \in Nat /\ \A r \in 1 .. asked : r \in 1 .. asked + 1
  BY DEF TypeOK
<1>1. ASSUME NEW r \in Requests, NEW i \in Inputs, Ask(r, i) PROVE
        /\ asked' = asked + 1 /\ \A s \in 1 .. asked : info'[s] = info[s]
        /\ approved' = approved /\ disposed' = disposed /\ answer' = answer
  BY <1>1, AskDoes
<1>2. ASSUME NEW r \in Requests, Interrupt(r) PROVE
        UNCHANGED <<asked, info, approved, disposed, answer>>
  BY <1>2 DEF Interrupt
<1>3. ASSUME NEW k \in Replies, NEW r \in Requests, NEW v \in Verdicts, Reply(k, r, v) PROVE
        UNCHANGED <<asked, info, approved, disposed, answer>>
  BY <1>3 DEF Reply
<1>4. ASSUME NEW k \in Replies, Tells(k) PROVE
        /\ UNCHANGED <<asked, info, disposed>> /\ approved \subseteq approved'
        /\ \A r \in Requests : answer[r] # None => answer'[r] = answer[r]
  BY <1>4, TellDoes DEF Tells, Approved
<1>5. ASSUME NEW k \in Replies, Cut(k) PROVE
        UNCHANGED <<asked, info, approved, disposed, answer>>
  BY <1>5 DEF Cut
<1>6. ASSUME NEW kind \in Kinds, Dispose(kind) PROVE
        /\ UNCHANGED <<asked, info, approved>> /\ disposed \subseteq disposed'
        /\ \A r \in Requests : answer[r] # None => answer'[r] = answer[r]
  BY <1>6 DEF Dispose
<1>7. ASSUME UNCHANGED vars PROVE UNCHANGED <<asked, info, approved, disposed, answer>>
  BY <1>7 DEF vars
<1>8. ASSUME NEW k \in Replies, TellLast(k) \/ \E y \in Requests : TellNext(k, y) PROVE Tells(k)
  BY <1>8 DEF TellLast, TellNext, Tells
<1> QED
  BY <1>0, <1>1, <1>2, <1>3, <1>4, <1>5, <1>6, <1>7, <1>8 DEF Next

ReplyRecord ==
  [step : {"new", "unknown", "telling", "done", "cut"}, verdict : Verdicts \cup {None},
   to : 0 .. Calls, item : 0 .. Calls, at : 0 .. Calls]

LEMMA ReplyRecords ==
  ASSUME NEW x \in ReplyRecord, NEW a \in 0 .. Calls, NEW b \in 0 .. Calls
  PROVE  /\ [x EXCEPT !.item = a, !.at = b] \in ReplyRecord
         /\ [x EXCEPT !.step = "done", !.item = a, !.at = b] \in ReplyRecord
         /\ [x EXCEPT !.step = "cut"] \in ReplyRecord
BY DEF ReplyRecord

(* Types.                                                                   *)
LEMMA TypeStep ==
  ASSUME TypeOK, RepliesAreSound, [Next]_vars
  PROVE  TypeOK'
<1> USE PendingAssumption DEF PendingAssumption
<1>1. ASSUME NEW r \in Requests, NEW i \in Inputs, Ask(r, i) PROVE TypeOK'
  <2>1. info' \in [Requests -> Inputs \cup {None}]
        /\ asker' \in [Requests -> {"new", "denied", "allowed", "waiting", "interrupted"}]
    BY <1>1 DEF Ask, Decided, TypeOK
  <2>2. \A s \in Requests : s \in 1 .. asked \/ s = r \/ s > r
    BY <1>1, AskDoes DEF TypeOK, Requests
  <2>3. \A s \in Requests :
          /\ asker'[s] = "new" <=> s > asked'
          /\ info'[s] = None <=> s > asked'
          /\ s \in pending' => asker'[s] \in {"waiting", "interrupted"}
    <3> SUFFICES ASSUME NEW s \in Requests
                 PROVE  /\ asker'[s] = "new" <=> s > asked'
                        /\ info'[s] = None <=> s > asked'
                        /\ s \in pending' => asker'[s] \in {"waiting", "interrupted"}
      OBVIOUS
    <3>1. CASE s \in 1 .. asked
      BY <3>1, <1>1, AskDoes DEF TypeOK
    <3>2. CASE s = r
      <4>1. s \in Nat /\ asked' = s /\ ~(s > asked')
        BY <3>2, <1>1, AskDoes DEF Requests
      <4>2. info'[s] # None /\ asker'[s] # "new"
        BY <3>2, <1>1, AskDoes
      <4>3. s \in pending' => asker'[s] \in {"waiting", "interrupted"}
        <5>1. s > asked
          BY <3>2, <1>1, AskDoes DEF TypeOK
        <5>2. s \notin pending
          BY <5>1 DEF TypeOK
        <5> QED
          BY <5>2, <3>2, <1>1, AskDoes
      <4> QED
        BY <4>1, <4>2, <4>3
    <3>3. CASE s > r
      <4>1. s > asked' /\ s > asked /\ s # r
        BY <3>3, <1>1, AskDoes DEF TypeOK, Requests
      <4>2. info'[s] = None /\ asker'[s] = "new"
        BY <3>3, <1>1, AskDoes
      <4>3. s \notin pending
        BY <4>1 DEF TypeOK
      <4>4. s \notin pending'
        BY <4>1, <4>3, <1>1, AskDoes
      <4> QED
        BY <4>1, <4>2, <4>4
    <3>4. s \in 1 .. asked \/ s = r \/ s > r
      BY <2>2
    <3> QED
      BY <3>1, <3>2, <3>3, <3>4
  <2>4. asked' \in 0 .. Calls
    BY <1>1, AskDoes DEF Requests
  <2>5. pending' \subseteq Requests
    BY <1>1, AskDoes DEF TypeOK
  <2> QED
    BY <1>1, <2>1, <2>3, <2>4, <2>5, AskDoes DEF TypeOK
<1>2. ASSUME NEW r \in Requests, Interrupt(r) PROVE TypeOK'
  <2>1. asker' \in [Requests -> {"new", "denied", "allowed", "waiting", "interrupted"}]
        /\ pending' \subseteq pending /\ interrupts' \in 0 .. MaxInterrupts
    BY <1>2 DEF Interrupt, TypeOK
  <2>2. asker[r] = "waiting" /\ asker'[r] = "interrupted"
        /\ \A s \in Requests \ {r} : asker'[s] = asker[s]
    BY <1>2 DEF Interrupt, Waiting, TypeOK
  <2>3. ASSUME NEW s \in Requests
        PROVE  /\ asker'[s] = "new" <=> s > asked
               /\ info[s] = None <=> s > asked
               /\ s \in pending' => asker'[s] \in {"waiting", "interrupted"}
    <3>1. /\ asker[s] = "new" <=> s > asked
          /\ info[s] = None <=> s > asked
          /\ s \in pending => asker[s] \in {"waiting", "interrupted"}
      BY DEF TypeOK
    <3>2. CASE s = r
      BY <2>2, <3>1, <3>2
    <3>3. CASE s # r
      BY <2>1, <2>2, <3>1, <3>3
    <3> QED
      BY <3>2, <3>3
  <2>4. UNCHANGED <<info, answer, asked, approved, reply, disposed>>
    BY <1>2 DEF Interrupt
  <2>5. /\ info \in [Requests -> Inputs \cup {None}]
        /\ answer \in [Requests -> {None, "granted", "rejected"}]
        /\ pending \subseteq Requests /\ asked \in 0 .. Calls
        /\ approved \subseteq Patterns /\ reply \in [Replies -> ReplyRecord]
        /\ disposed \subseteq Kinds
    BY DEF TypeOK, ReplyRecord
  <2> QED
    BY <2>1, <2>3, <2>4, <2>5 DEF TypeOK, ReplyRecord
<1>3. ASSUME NEW k \in Replies, NEW r \in Requests, NEW v \in Verdicts, Reply(k, r, v)
      PROVE  TypeOK'
  BY <1>3 DEF Reply, NoReply, TypeOK, Requests
<1>4. ASSUME NEW k \in Replies, Tells(k) PROVE
        answer' \in [Requests -> {None, "granted", "rejected"}] /\ approved' \subseteq Patterns
  <2>1. answer' \in [Requests -> {None, "granted", "rejected"}]
    BY <1>4, TellDoes
  <2>2. reply[k].to \in 1 .. asked
    BY <1>4 DEF Tells, RepliesAreSound, InHand
  <2>3. info[reply[k].to].always \subseteq Patterns
    BY <2>2, Known DEF Input
  <2> QED
    BY <1>4, <2>1, <2>3 DEF Tells, Approved, TypeOK
<1>5. ASSUME NEW k \in Replies, NEW y \in Requests, TellNext(k, y) PROVE TypeOK'
  <2>1. Tells(k)
    BY <1>5 DEF TellNext, Tells
  <2>2. reply' \in [Replies -> ReplyRecord]
    <3>1. reply \in [Replies -> ReplyRecord]
      BY DEF TypeOK, ReplyRecord
    <3>2. [reply[k] EXCEPT !.item = y, !.at = y] \in ReplyRecord
      <4>1. y \in 0 .. Calls
        BY <1>5 DEF Requests
      <4> QED
        BY <3>1, <4>1, ReplyRecords
    <3>3. reply' = [reply EXCEPT ![k] = [reply[k] EXCEPT !.item = y, !.at = y]]
      BY <1>5 DEF TellNext
    <3> QED
      BY <3>1, <3>2, <3>3
  <2> QED
    BY <1>5, <1>4, <2>1, <2>2 DEF TellNext, TypeOK, ReplyRecord
<1>6. ASSUME NEW k \in Replies, TellLast(k) PROVE TypeOK'
  <2>1. Tells(k)
    BY <1>6 DEF TellLast, Tells
  <2>2. reply' \in [Replies -> ReplyRecord]
    <3>1. reply \in [Replies -> ReplyRecord]
      BY DEF TypeOK, ReplyRecord
    <3>2. [reply[k] EXCEPT !.step = "done", !.item = 0, !.at = asked] \in ReplyRecord
      <4>1. asked \in 0 .. Calls /\ 0 \in 0 .. Calls
        BY DEF TypeOK
      <4> QED
        BY <3>1, <4>1, ReplyRecords
    <3>3. reply' = [reply EXCEPT ![k] = [reply[k] EXCEPT !.step = "done", !.item = 0, !.at = asked]]
      BY <1>6 DEF TellLast
    <3> QED
      BY <3>1, <3>2, <3>3
  <2> QED
    BY <1>6, <1>4, <2>1, <2>2 DEF TellLast, TypeOK, ReplyRecord
<1>7. ASSUME NEW k \in Replies, Cut(k) PROVE TypeOK'
  BY <1>7 DEF Cut, TypeOK
<1>8. ASSUME NEW kind \in Kinds, Dispose(kind) PROVE TypeOK'
  BY <1>8 DEF Dispose, TypeOK
<1>9. ASSUME UNCHANGED vars PROVE TypeOK'
  BY <1>9 DEF vars, TypeOK
<1> QED
  BY <1>1, <1>2, <1>3, <1>5, <1>6, <1>7, <1>8, <1>9 DEF Next

-----------------------------------------------------------------------------
(* What the steps do to replies.                                            *)

LEMMA ReplyDoes ==
  ASSUME TypeOK, NEW k \in Replies, NEW r \in Requests, NEW v \in Verdicts, Reply(k, r, v)
  PROVE  /\ \A j \in Replies \ {k} : reply'[j] = reply[j]
         /\ reply[k].step = "new" /\ r \in 1 .. asked
         /\ v = "always" => info[r].kind = "permission"
         /\ \/ reply'[k].step = "unknown" /\ pending' = pending
            \/ /\ r \in pending /\ pending' = pending \ {r}
               /\ reply'[k] = [step |-> "telling", verdict |-> v, to |-> r, item |-> r, at |-> 0]
         /\ UNCHANGED <<info, asker, answer, asked, approved, disposed>>
<1>1. r \in 1 .. asked
  BY DEF Reply, Requests, TypeOK
<1>2. reply[k].step = "new"
  BY DEF Reply, Replies
<1>3. CASE r \in pending
  BY <1>1, <1>2, <1>3 DEF Reply, TypeOK
<1>4. CASE r \notin pending
  BY <1>1, <1>2, <1>4 DEF Reply, NoReply, TypeOK
<1> QED
  BY <1>3, <1>4

LEMMA NextDoes ==
  ASSUME TypeOK, NEW k \in Replies, NEW y \in Requests, TellNext(k, y)
  PROVE  /\ Tells(k) /\ y \in pending /\ pending' = pending \ {y}
         /\ \A j \in Replies \ {k} : reply'[j] = reply[j]
         /\ reply'[k].step = "telling" /\ reply'[k].item = y /\ reply'[k].at = y
         /\ reply'[k].verdict = reply[k].verdict /\ reply'[k].to = reply[k].to
BY DEF TellNext, Tells, TypeOK, Along

LEMMA LastDoes ==
  ASSUME TypeOK, NEW k \in Replies, TellLast(k)
  PROVE  /\ Tells(k) /\ pending' = pending
         /\ \A j \in Replies \ {k} : reply'[j] = reply[j]
         /\ reply'[k].step = "done" /\ reply'[k].at = asked
         /\ reply'[k].verdict = reply[k].verdict /\ reply'[k].to = reply[k].to
BY DEF TellLast, Tells, TypeOK

LEMMA CutDoes ==
  ASSUME TypeOK, NEW k \in Replies, Cut(k)
  PROVE  /\ \A j \in Replies \ {k} : reply'[j] = reply[j]
         /\ reply[k].step = "telling" /\ reply'[k].step = "cut"
         /\ reply'[k].item = reply[k].item /\ reply'[k].at = reply[k].at
         /\ reply'[k].verdict = reply[k].verdict /\ reply'[k].to = reply[k].to
         /\ UNCHANGED <<info, asker, answer, pending, asked, approved, disposed>>
BY DEF Cut, TypeOK

Sound(k) ==
  /\ InHand(k) \/ reply[k].step = "done" =>
       /\ reply[k].verdict \in Verdicts
       /\ reply[k].to \in 1 .. asked /\ reply[k].to \notin pending
       /\ reply[k].verdict = "always" => info[reply[k].to].kind = "permission"
       /\ reply[k].at \in 0 .. asked
  /\ InHand(k) => reply[k].item \in 1 .. asked
  /\ InHand(k) /\ reply[k].item = reply[k].to => reply[k].at = 0

(* Requests enter the map with a number of their own.                       *)
LEMMA PendingStep ==
  ASSUME TypeOK, RepliesAreSound, [Next]_vars
  PROVE  \A r \in 1 .. asked : r \notin pending => r \notin pending'
<1> SUFFICES ASSUME NEW q \in 1 .. asked, q \notin pending PROVE q \notin pending'
  OBVIOUS
<1>0. q <= asked /\ q # asked + 1
  BY DEF TypeOK
<1>1. ASSUME NEW r \in Requests, NEW i \in Inputs, Ask(r, i) PROVE q \notin pending'
  BY <1>0, <1>1, AskDoes
<1>2. ASSUME NEW r \in Requests, Interrupt(r) PROVE q \notin pending'
  BY <1>2 DEF Interrupt
<1>3. ASSUME NEW k \in Replies, NEW r \in Requests, NEW v \in Verdicts, Reply(k, r, v)
      PROVE  q \notin pending'
  BY <1>3 DEF Reply
<1>4. ASSUME NEW k \in Replies, TellLast(k) \/ Cut(k) \/ \E y \in Requests : TellNext(k, y)
      PROVE  q \notin pending'
  BY <1>4 DEF TellLast, TellNext, Cut
<1>5. ASSUME NEW kind \in Kinds, Dispose(kind) PROVE q \notin pending'
  BY <1>5 DEF Dispose
<1>6. ASSUME UNCHANGED vars PROVE q \notin pending'
  BY <1>6 DEF vars
<1> QED
  BY <1>1, <1>2, <1>3, <1>4, <1>5, <1>6 DEF Next

LEMMA SoundStep ==
  ASSUME TypeOK, RepliesAreSound, [Next]_vars
  PROVE  RepliesAreSound'
<1>0. /\ \A r \in 1 .. asked : info'[r] = info[r] /\ r \in 1 .. asked'
      /\ \A n \in 0 .. asked : n \in 0 .. asked'
      /\ \A r \in 1 .. asked : r \notin pending => r \notin pending'
  BY Growth, PendingStep
<1>1. ASSUME NEW j \in Replies, reply'[j] = reply[j] PROVE Sound(j)'
  BY <1>0, <1>1 DEF RepliesAreSound, Sound, InHand
<1>2. ASSUME UNCHANGED reply PROVE RepliesAreSound'
  BY <1>2, <1>1 DEF RepliesAreSound, Sound, InHand
<1>3. ASSUME NEW k \in Replies, \A j \in Replies \ {k} : reply'[j] = reply[j], Sound(k)'
      PROVE  RepliesAreSound'
  BY <1>3, <1>1 DEF RepliesAreSound, Sound, InHand
<1>4. ASSUME NEW k \in Replies, NEW r \in Requests, NEW v \in Verdicts, Reply(k, r, v)
      PROVE  RepliesAreSound'
  <2>1. Sound(k)'
    <3>1. CASE reply'[k].step = "unknown"
      BY <3>1 DEF Sound, InHand
    <3>2. CASE r \in pending /\ pending' = pending \ {r}
               /\ reply'[k] = [step |-> "telling", verdict |-> v, to |-> r, item |-> r, at |-> 0]
      <4>1. 0 \in 0 .. asked'
        BY Growth
      <4> QED
        BY <3>2, <4>1, <1>4, ReplyDoes DEF Sound, InHand
    <3> QED
      BY <1>4, <3>1, <3>2, ReplyDoes
  <2> QED
    BY <2>1, <1>3, <1>4, ReplyDoes
<1>5. ASSUME NEW k \in Replies, NEW y \in Requests, TellNext(k, y) PROVE RepliesAreSound'
  <2>1. y \in 1 .. asked /\ y \in 0 .. asked /\ asked' = asked /\ info' = info
    BY <1>5, NextDoes DEF TypeOK, Requests, Tells
  <2>2. reply[k].step = "telling" /\ reply[k].to \notin pending /\ y # reply[k].to
    BY <1>5, NextDoes DEF RepliesAreSound, InHand, Tells
  <2>3. Sound(k)'
    BY <1>0, <1>5, <2>1, <2>2, NextDoes DEF RepliesAreSound, Sound, InHand
  <2> QED
    BY <2>3, <1>3, <1>5, NextDoes
<1>6. ASSUME NEW k \in Replies, TellLast(k) PROVE RepliesAreSound'
  <2>1. asked \in 0 .. asked /\ asked' = asked /\ info' = info /\ reply[k].step = "telling"
    BY <1>6, LastDoes DEF TypeOK, Tells
  <2>2. Sound(k)'
    BY <1>6, <2>1, LastDoes DEF RepliesAreSound, Sound, InHand
  <2> QED
    BY <2>2, <1>3, <1>6, LastDoes
<1>7. ASSUME NEW k \in Replies, Cut(k) PROVE RepliesAreSound'
  <2>1. Sound(k)'
    BY <1>7, CutDoes DEF RepliesAreSound, Sound, InHand
  <2> QED
    BY <2>1, <1>3, <1>7, CutDoes
<1>8. ASSUME NEW r \in Requests, NEW i \in Inputs, Ask(r, i) \/ Interrupt(r) PROVE UNCHANGED reply
  BY <1>8 DEF Ask, Interrupt
<1>9. ASSUME NEW kind \in Kinds, Dispose(kind) PROVE UNCHANGED reply
  BY <1>9 DEF Dispose
<1>10. ASSUME NEW r \in Requests, Interrupt(r) PROVE UNCHANGED reply
  BY <1>10 DEF Interrupt
<1>11. ASSUME UNCHANGED vars PROVE UNCHANGED reply
  BY <1>11 DEF vars
<1> QED
  BY <1>2, <1>4, <1>5, <1>6, <1>7, <1>8, <1>9, <1>10, <1>11 DEF Next

-----------------------------------------------------------------------------
(* Nobody is forgotten.                                                     *)

Reachable(r) == r \in pending \/ \E k \in Replies : InHand(k) /\ reply[k].item = r

LEMMA ReachStep ==
  ASSUME TypeOK, RepliesAreSound, [Next]_vars, NEW q \in Requests,
         Waiting(q) => Reachable(q), Waiting(q)'
  PROVE  Reachable(q)'
<1>1. ASSUME NEW r \in Requests, NEW i \in Inputs, Ask(r, i) PROVE Reachable(q)'
  <2>1. CASE q = r
    BY <2>1, <1>1, AskDoes DEF Reachable, Waiting
  <2>2. CASE q # r
    <3>1. PICK x \in {"denied", "allowed", "waiting"} : asker' = [asker EXCEPT ![r] = x]
      BY <1>1 DEF Ask, Decided
    <3>2. Waiting(q)
      BY <2>2, <3>1, <1>1, AskDoes DEF Waiting, TypeOK
    <3>3. pending \subseteq pending' /\ reply' = reply
      BY <1>1, AskDoes
    <3> QED
      BY <3>2, <3>3 DEF Reachable, InHand
  <2> QED
    BY <2>1, <2>2
<1>2. ASSUME NEW r \in Requests, Interrupt(r) PROVE Reachable(q)'
  <2>1. q # r
    BY <1>2 DEF Interrupt, Waiting, TypeOK
  <2>2. Waiting(q)
    BY <1>2, <2>1 DEF Interrupt, Waiting, TypeOK
  <2> QED
    BY <1>2, <2>1, <2>2 DEF Interrupt, Reachable, InHand
<1>3. ASSUME NEW k \in Replies, NEW r \in Requests, NEW v \in Verdicts, Reply(k, r, v)
      PROVE  Reachable(q)'
  <2>1. Waiting(q)
    BY <1>3 DEF Reply, Waiting
  <2>2. CASE q \in pending
    <3>1. CASE pending' = pending
      BY <2>2, <3>1 DEF Reachable
    <3>2. CASE /\ r \in pending /\ pending' = pending \ {r}
               /\ reply'[k] = [step |-> "telling", verdict |-> v, to |-> r, item |-> r, at |-> 0]
      BY <2>2, <3>2 DEF Reachable, InHand
    <3> QED
      BY <3>1, <3>2, <1>3, ReplyDoes
  <2>3. ASSUME NEW j \in Replies, InHand(j), reply[j].item = q PROVE Reachable(q)'
    BY <2>3, <1>3, ReplyDoes DEF Reachable, InHand
  <2> QED
    BY <2>1, <2>2, <2>3 DEF Reachable
<1>4. ASSUME NEW k \in Replies, Tells(k) PROVE Waiting(q) /\ reply[k].item # q
  BY <1>4, TellDoes DEF Tells, Waiting
<1>5. ASSUME NEW k \in Replies, NEW y \in Requests, TellNext(k, y) PROVE Reachable(q)'
  <2>1. Waiting(q) /\ reply[k].item # q
    BY <1>4, <1>5, NextDoes
  <2>2. CASE q \in pending
    BY <2>2, <1>5, NextDoes DEF Reachable, InHand
  <2>3. ASSUME NEW j \in Replies, InHand(j), reply[j].item = q PROVE Reachable(q)'
    BY <2>1, <2>3, <1>5, NextDoes DEF Reachable, InHand
  <2> QED
    BY <2>1, <2>2, <2>3 DEF Reachable
<1>6. ASSUME NEW k \in Replies, TellLast(k) PROVE Reachable(q)'
  <2>1. Waiting(q) /\ reply[k].item # q
    BY <1>4, <1>6, LastDoes
  <2> QED
    BY <2>1, <1>6, LastDoes DEF Reachable, InHand
<1>7. ASSUME NEW k \in Replies, Cut(k) PROVE Reachable(q)'
  <2>1. Waiting(q)
    BY <1>7 DEF Cut, Waiting
  <2> QED
    BY <2>1, <1>7, CutDoes DEF Reachable, InHand
<1>8. ASSUME NEW kind \in Kinds, Dispose(kind) PROVE Reachable(q)'
  <2>1. Waiting(q) /\ q \notin InMap(kind)
    BY <1>8, PendingAssumption DEF Dispose, Waiting, PendingAssumption
  <2> QED
    BY <2>1, <1>8 DEF Dispose, Reachable, InHand
<1>9. ASSUME UNCHANGED vars PROVE Reachable(q)'
  BY <1>9 DEF vars, Reachable, InHand, Waiting
<1> QED
  BY <1>1, <1>2, <1>3, <1>5, <1>6, <1>7, <1>8, <1>9 DEF Next

-----------------------------------------------------------------------------
(* Causes.                                                                  *)

(* What a step does to one reply.                                           *)
LEMMA OneReply ==
  ASSUME TypeOK, RepliesAreSound, [Next]_vars, NEW k \in Replies
  PROVE  \/ reply'[k] = reply[k]
         \/ /\ reply[k].step = "new" /\ approved' = approved
            /\ \/ reply'[k].step = "unknown"
               \/ \E r \in pending : /\ r \in 1 .. asked /\ reply'[k].step = "telling"
                                     /\ reply'[k].to = r /\ reply'[k].item = r /\ reply'[k].at = 0
         \/ TellLast(k) \/ Cut(k)
         \/ \E y \in Requests : TellNext(k, y)
<1> DEFINE P == \/ reply'[k] = reply[k]
                \/ /\ reply[k].step = "new" /\ approved' = approved
                   /\ \/ reply'[k].step = "unknown"
                      \/ \E r \in pending : /\ r \in 1 .. asked /\ reply'[k].step = "telling"
                                            /\ reply'[k].to = r /\ reply'[k].item = r /\ reply'[k].at = 0
                \/ TellLast(k) \/ Cut(k)
                \/ \E y \in Requests : TellNext(k, y)
<1>1. ASSUME NEW j \in Replies, NEW r \in Requests, NEW v \in Verdicts, Reply(j, r, v) PROVE P
  <2>1. CASE j # k
    BY <2>1, <1>1, ReplyDoes
  <2>2. CASE j = k
    <3>1. r \in 1 .. asked /\ reply[k].step = "new" /\ approved' = approved
      BY <2>2, <1>1, ReplyDoes
    <3>2. \/ reply'[k].step = "unknown"
          \/ /\ r \in pending
             /\ reply'[k] = [step |-> "telling", verdict |-> v, to |-> r, item |-> r, at |-> 0]
      BY <2>2, <1>1, ReplyDoes
    <3> QED
      BY <3>1, <3>2
  <2> QED
    BY <2>1, <2>2
<1>2. ASSUME NEW j \in Replies, j # k,
             TellLast(j) \/ Cut(j) \/ \E y \in Requests : TellNext(j, y)
      PROVE  P
  BY <1>2, NextDoes, LastDoes, CutDoes
<1>3. ASSUME NEW r \in Requests, (\E i \in Inputs : Ask(r, i)) \/ Interrupt(r) PROVE reply' = reply
  BY <1>3 DEF Ask, Interrupt
<1>4. ASSUME NEW kind \in Kinds, Dispose(kind) PROVE reply' = reply
  BY <1>4 DEF Dispose
<1>5. ASSUME UNCHANGED vars PROVE reply' = reply
  BY <1>5 DEF vars
<1> QED
  BY <1>1, <1>2, <1>3, <1>4, <1>5 DEF Next

LEMMA CarriedStep ==
  ASSUME TypeOK, RepliesAreSound, [Next]_vars, NEW k \in Replies, Carried(k)
  PROVE  Carried(k)' /\ reply'[k].to = reply[k].to /\ reply'[k].verdict = reply[k].verdict
         /\ reply[k].to \in 1 .. asked
<1>0. reply[k].to \in 1 .. asked /\ reply[k].to \notin pending /\ reply[k].step # "new"
  BY DEF Carried, RepliesAreSound, InHand
<1>1. CASE reply'[k] = reply[k]
  BY <1>0, <1>1 DEF Carried
<1>2. ASSUME NEW y \in Requests, TellNext(k, y)
      PROVE  Carried(k)' /\ reply'[k].to = reply[k].to /\ reply'[k].verdict = reply[k].verdict
  BY <1>0, <1>2, NextDoes DEF Carried
<1>3. ASSUME TellLast(k)
      PROVE  Carried(k)' /\ reply'[k].to = reply[k].to /\ reply'[k].verdict = reply[k].verdict
  BY <1>3, LastDoes DEF Carried
<1>4. ASSUME Cut(k)
      PROVE  Carried(k)' /\ reply'[k].to = reply[k].to /\ reply'[k].verdict = reply[k].verdict
  BY <1>4, CutDoes DEF Carried
<1> QED
  BY <1>0, <1>1, <1>2, <1>3, <1>4, OneReply

(* What a step that tells has now carried out, and nothing else has.        *)
LEMMA NowCarried ==
  ASSUME TypeOK, RepliesAreSound, NEW k \in Replies,
         TellLast(k) \/ \E y \in Requests : TellNext(k, y)
  PROVE  Carried(k)' /\ Tells(k)
         /\ reply'[k].to = reply[k].to /\ reply'[k].verdict = reply[k].verdict
         /\ reply[k].to \in 1 .. asked /\ reply[k].verdict \in Verdicts
<1>1. ASSUME NEW y \in Requests, TellNext(k, y) PROVE y # reply[k].to
  BY <1>1, NextDoes DEF RepliesAreSound, InHand, Tells
<1>2. Tells(k) /\ InHand(k)
  BY NextDoes, LastDoes DEF Tells, InHand
<1>3. reply[k].to \in 1 .. asked /\ reply[k].verdict \in Verdicts
  BY <1>2 DEF RepliesAreSound
<1> QED
  BY <1>1, <1>2, <1>3, NextDoes, LastDoes DEF Carried

LEMMA OnlyTelling ==
  ASSUME TypeOK, RepliesAreSound, [Next]_vars, NEW k \in Replies, Carried(k)', ~Carried(k)
  PROVE  TellLast(k) \/ \E y \in Requests : TellNext(k, y)
<1>1. CASE reply'[k] = reply[k]
  BY <1>1 DEF Carried
<1>2. CASE Cut(k)
  BY <1>2, CutDoes DEF Carried
<1>3. ASSUME NEW r \in pending, reply'[k].step = "telling", reply'[k].to = r, reply'[k].item = r
      PROVE  FALSE
  BY <1>3 DEF Carried
<1>4. CASE reply'[k].step = "unknown"
  BY <1>4 DEF Carried
<1> QED
  BY <1>1, <1>2, <1>3, <1>4, OneReply

LEMMA ToInfo ==
  ASSUME TypeOK, RepliesAreSound, [Next]_vars, NEW k \in Replies, NEW r \in 1 .. asked,
         reply[k].to \in 1 .. asked, reply'[k].to = reply[k].to
  PROVE  SameSession(reply[k].to, r)' <=> SameSession(reply[k].to, r)
<1>1. info'[r] = info[r] /\ info'[reply[k].to] = info[reply[k].to]
  BY Growth
<1> QED
  BY <1>1 DEF SameSession
-----------------------------------------------------------------------------
(* Causes.                                                                  *)

LEMMA UndeniedStep ==
  ASSUME TypeOK, RepliesAreSound, [Next]_vars, NEW r \in 1 .. asked, Undenied(r)
  PROVE  Undenied(r)'
BY Growth DEF Undenied

LEMMA NothingDeniedStep ==
  ASSUME TypeOK, RepliesAreSound, NothingDeniedWaits, [Next]_vars
  PROVE  NothingDeniedWaits'
<1>1. ASSUME NEW r \in Requests, answer'[r] # None PROVE r <= asked'
  <2>1. r <= asked => r <= asked'
    BY Growth DEF Requests
  <2>2. CASE answer[r] # None
    BY <2>1, <2>2 DEF NothingDeniedWaits
  <2>3. CASE answer' = answer
    BY <1>1, <2>2, <2>3
  <2>4. ASSUME NEW k \in Replies, TellLast(k) \/ \E y \in Requests : TellNext(k, y)
        PROVE  answer[r] # None \/ r <= asked
    <3>1. Tells(k)
      BY <2>4, NowCarried
    <3>2. r = reply[k].item => r <= asked
      BY <3>1, TellDoes DEF TypeOK
    <3> QED
      BY <1>1, <3>1, <3>2, TellDoes
  <2>5. ASSUME NEW kind \in Kinds, Dispose(kind) PROVE answer[r] # None \/ r <= asked
    BY <1>1, <2>5 DEF Dispose, InMap, NothingDeniedWaits
  <2>6. \/ answer' = answer
        \/ \E k \in Replies : TellLast(k) \/ \E y \in Requests : TellNext(k, y)
        \/ \E kind \in Kinds : Dispose(kind)
    BY DEF Next, Ask, Interrupt, Reply, Cut, vars
  <2> QED
    BY <2>1, <2>2, <2>3, <2>4, <2>5, <2>6
<1>2. ASSUME NEW r \in pending' PROVE r <= asked' /\ Undenied(r)'
  <2>1. CASE r \in pending
    <3>1. r \in 1 .. asked
      BY <2>1 DEF NothingDeniedWaits, TypeOK, Requests
    <3>2. r <= asked'
      BY <3>1, Growth
    <3> QED
      BY <2>1, <3>1, <3>2, UndeniedStep DEF NothingDeniedWaits
  <2>2. ASSUME NEW i \in Inputs, Ask(r, i), r \in Requests, r \notin pending
        PROVE  r <= asked' /\ Undenied(r)'
    <3>1. r = asked' /\ info'[r] = i /\ approved' = approved
          /\ (i.kind = "question" \/ Pends(i))
      BY <1>2, <2>2, AskDoes
    <3>2. \A p \in i.patterns : i.rule[p] # "deny" \/ p \in approved
      BY <3>1, PendingAssumption DEF PendingAssumption, Pends, Evaluate
    <3> QED
      BY <2>2, <3>1, <3>2 DEF Undenied, Requests
  <2>3. r \in pending \/ (r \in Requests /\ \E i \in Inputs : Ask(r, i))
    <3>1. ASSUME NEW s \in Requests, NEW i \in Inputs, Ask(s, i)
          PROVE  r \in pending \/ (r = s /\ r \in Requests /\ Ask(r, i))
      <4>1. r \in pending \/ r = s
        BY <1>2, <3>1, AskDoes
      <4> QED
        BY <3>1, <4>1
    <3>2. ASSUME NEW s \in Requests, Interrupt(s) PROVE r \in pending
      BY <1>2, <3>2 DEF Interrupt
    <3>3. ASSUME NEW k \in Replies, NEW s \in Requests, NEW v \in Verdicts, Reply(k, s, v)
          PROVE  r \in pending
      BY <1>2, <3>3 DEF Reply
    <3>4. ASSUME NEW k \in Replies, TellLast(k) \/ Cut(k) \/ \E y \in Requests : TellNext(k, y)
          PROVE  r \in pending
      BY <1>2, <3>4 DEF TellLast, TellNext, Cut
    <3>5. ASSUME NEW kind \in Kinds, Dispose(kind) PROVE r \in pending
      BY <1>2, <3>5 DEF Dispose
    <3>6. ASSUME UNCHANGED vars PROVE r \in pending
      BY <1>2, <3>6 DEF vars
    <3> QED
      BY <3>1, <3>2, <3>3, <3>4, <3>5, <3>6 DEF Next
  <2> QED
    BY <2>1, <2>2, <2>3
<1>3. ASSUME NEW k \in Replies, InHand(k)' PROVE Undenied(reply[k].item)'
  <2>0. ASSUME NEW r, r \in pending \/ (InHand(k) /\ r = reply[k].item) PROVE Undenied(r)'
    <3>1. r \in 1 .. asked /\ Undenied(r)
      <4>1. CASE r \in pending
        BY <4>1 DEF NothingDeniedWaits, TypeOK, Requests
      <4>2. CASE InHand(k) /\ r = reply[k].item
        BY <4>2 DEF NothingDeniedWaits, RepliesAreSound
      <4> QED
        BY <2>0, <4>1, <4>2
    <3> QED
      BY <3>1, UndeniedStep
  <2>1. CASE reply'[k] = reply[k]
    <3>1. InHand(k) /\ reply'[k].item = reply[k].item
      BY <1>3, <2>1 DEF InHand
    <3> QED
      BY <2>0, <3>1 DEF Undenied
  <2>2. CASE Cut(k)
    <3>1. InHand(k) /\ reply'[k].item = reply[k].item
      BY <2>2, CutDoes DEF InHand
    <3> QED
      BY <2>0, <3>1 DEF Undenied
  <2>3. ASSUME NEW y \in Requests, TellNext(k, y) PROVE Undenied(reply[k].item)'
    <3>1. y \in pending /\ reply'[k].item = y
      BY <2>3, NextDoes
    <3> QED
      BY <2>0, <3>1 DEF Undenied
  <2>4. CASE TellLast(k)
    BY <1>3, <2>4, LastDoes DEF InHand
  <2>5. ASSUME NEW r \in pending, reply'[k].item = r PROVE Undenied(reply[k].item)'
    BY <2>0, <2>5 DEF Undenied
  <2>6. CASE reply'[k].step = "unknown"
    BY <1>3, <2>6 DEF InHand
  <2> QED
    BY <2>1, <2>2, <2>3, <2>4, <2>5, <2>6, OneReply
<1> QED
  BY <1>1, <1>2, <1>3 DEF NothingDeniedWaits

(* What has a cause keeps it.                                               *)
GrantCause(r) ==
  /\ Undenied(r)
  /\ \/ \E k \in Replies : Carried(k) /\ reply[k].to = r /\ Yes(k)
     \/ info[r].kind = "permission" /\ info[r].patterns \subseteq approved

RejectCause(r) ==
  \/ info[r].kind \in disposed
  \/ \E k \in Replies : /\ Carried(k) /\ ~Yes(k)
                        /\ reply[k].to = r \/ SameSession(reply[k].to, r)

ApproveCause(p) ==
  \E k \in Replies : Carried(k) /\ reply[k].verdict = "always" /\ p \in info[reply[k].to].always

LEMMA GrantStays ==
  ASSUME TypeOK, RepliesAreSound, [Next]_vars, NEW r \in 1 .. asked, GrantCause(r)
  PROVE  GrantCause(r)'
<1>1. Undenied(r)'
  BY UndeniedStep DEF GrantCause
<1>2. ASSUME NEW k \in Replies, Carried(k), reply[k].to = r, Yes(k) PROVE GrantCause(r)'
  BY <1>1, <1>2, CarriedStep DEF GrantCause, Yes
<1>3. CASE info[r].kind = "permission" /\ info[r].patterns \subseteq approved
  BY <1>1, <1>3, Growth DEF GrantCause
<1> QED
  BY <1>2, <1>3 DEF GrantCause

LEMMA RejectStays ==
  ASSUME TypeOK, RepliesAreSound, [Next]_vars, NEW r \in 1 .. asked, RejectCause(r)
  PROVE  RejectCause(r)'
<1>1. CASE info[r].kind \in disposed
  BY <1>1, Growth DEF RejectCause
<1>2. ASSUME NEW k \in Replies, Carried(k), ~Yes(k),
             reply[k].to = r \/ SameSession(reply[k].to, r)
      PROVE  RejectCause(r)'
  <2>1. /\ Carried(k)' /\ reply'[k].to = reply[k].to /\ reply'[k].verdict = reply[k].verdict
        /\ reply[k].to \in 1 .. asked
    BY <1>2, CarriedStep
  <2>2. info'[r] = info[r] /\ info'[reply[k].to] = info[reply[k].to]
    BY <2>1, Growth
  <2> QED
    BY <1>2, <2>1, <2>2 DEF RejectCause, Yes, SameSession
<1> QED
  BY <1>1, <1>2 DEF RejectCause

LEMMA ApproveStays ==
  ASSUME TypeOK, RepliesAreSound, [Next]_vars, AnswersHaveCause
  PROVE  \A p \in approved : ApproveCause(p)'
BY CarriedStep, Growth DEF ApproveCause, AnswersHaveCause, TypeOK

LEMMA AnswersKept ==
  ASSUME TypeOK, RepliesAreSound, NothingDeniedWaits, AnswersHaveCause, [Next]_vars
  PROVE  \A r \in Requests : answer'[r] = answer[r] =>
           /\ answer'[r] = "granted" => GrantCause(r)'
           /\ answer'[r] = "rejected" => RejectCause(r)'
<1> SUFFICES ASSUME NEW r \in Requests, answer'[r] = answer[r]
             PROVE  /\ answer'[r] = "granted" => GrantCause(r)'
                    /\ answer'[r] = "rejected" => RejectCause(r)'
  OBVIOUS
<1>1. CASE answer[r] = None
  BY <1>1, PendingAssumption DEF PendingAssumption
<1>2. CASE answer[r] # None
  <2>1. r \in 1 .. asked
    BY <1>2 DEF NothingDeniedWaits, TypeOK, Requests
  <2>2. CASE answer[r] = "granted"
    <3>1. GrantCause(r)
      BY <2>2 DEF AnswersHaveCause, GrantCause, Undenied
    <3> QED
      BY <2>1, <2>2, <3>1, GrantStays
  <2>3. CASE answer[r] = "rejected"
    <3>1. RejectCause(r)
      BY <2>3 DEF AnswersHaveCause, RejectCause
    <3> QED
      BY <2>1, <2>3, <3>1, RejectStays
  <2> QED
    BY <2>2, <2>3
<1> QED
  BY <1>1, <1>2

LEMMA AnswersStep ==
  ASSUME TypeOK, RepliesAreSound, NothingDeniedWaits, CascadesHaveCause, AnswersHaveCause,
         [Next]_vars
  PROVE  AnswersHaveCause'
<1> DEFINE Fine(r) == /\ answer'[r] = "granted" => GrantCause(r)'
                      /\ answer'[r] = "rejected" => RejectCause(r)'
           FineRules == \A p \in approved' : ApproveCause(p)'
<1>1. ASSUME NEW r \in Requests, answer'[r] = answer[r] PROVE Fine(r)
  BY <1>1, AnswersKept
<1>2. ASSUME approved' = approved PROVE FineRules
  BY <1>2, ApproveStays
<1>3. ASSUME NEW k \in Replies, TellLast(k) \/ \E y \in Requests : TellNext(k, y)
      PROVE  FineRules /\ \A r \in Requests : Fine(r)
  <2>0. PICK x, t : x = reply[k].item /\ t = reply[k].to
    OBVIOUS
  <2>1. /\ Carried(k)' /\ Tells(k) /\ reply'[k].to = t /\ Yes(k)' = Yes(k)
        /\ reply'[k].verdict = reply[k].verdict /\ t \in 1 .. asked
    BY <2>0, <1>3, NowCarried DEF Yes
  <2>2. InHand(k) /\ x \in 1 .. asked /\ x \in Requests
    BY <2>0, <2>1, TellDoes DEF Tells, InHand
  <2>3. info'[t] = info[t] /\ info'[x] = info[x] /\ info' = info
    BY <2>1 DEF Tells
  <2>4. FineRules
    <3>1. ASSUME NEW p \in approved', p \notin approved PROVE ApproveCause(p)'
      BY <2>0, <2>1, <2>3, <3>1 DEF ApproveCause, Tells, Approved
    <3>2. ASSUME NEW p \in approved PROVE ApproveCause(p)'
      BY <3>2, ApproveStays
    <3> QED
      BY <3>1, <3>2
  <2>5. CASE answer[x] # None
    BY <2>0, <1>1, <2>1, <2>4, <2>5, TellDoes
  <2>6. CASE answer[x] = None
    <3>1. Yes(k) => GrantCause(x)'
      <4>1. Undenied(x)'
        BY <2>0, <2>2, UndeniedStep DEF NothingDeniedWaits
      <4>2. CASE x = t
        BY <2>1, <4>1, <4>2 DEF GrantCause
      <4>3. CASE x # t
        BY <2>0, <2>2, <2>3, <4>1, <4>3, Growth DEF GrantCause, CascadesHaveCause, SameSession
      <4> QED
        BY <4>2, <4>3
    <3>2. ~Yes(k) => RejectCause(x)'
      <4>1. x = t \/ SameSession(t, x)'
        BY <2>0, <2>2, <2>3 DEF CascadesHaveCause, SameSession
      <4> QED
        BY <2>1, <4>1 DEF RejectCause
    <3>3. answer'[x] = IF Yes(k) THEN "granted" ELSE "rejected"
      BY <2>0, <2>1, <2>6, TellDoes
    <3>4. \A r \in Requests : r # x => answer'[r] = answer[r]
      BY <2>0, <2>1, TellDoes
    <3> QED
      BY <1>1, <2>4, <3>1, <3>2, <3>3, <3>4
  <2> QED
    BY <2>5, <2>6
<1>4. ASSUME NEW kind \in Kinds, Dispose(kind) PROVE FineRules /\ \A r \in Requests : Fine(r)
  <2>1. approved' = approved /\ info' = info
    BY <1>4 DEF Dispose
  <2>2. ASSUME NEW r \in Requests, answer'[r] # answer[r] PROVE Fine(r)
    <3>1. answer'[r] = "rejected" /\ info[r].kind = kind /\ kind \in disposed'
      BY <1>4, <2>2 DEF Dispose, InMap
    <3> QED
      BY <2>1, <3>1 DEF RejectCause
  <2> QED
    BY <1>1, <1>2, <2>1, <2>2
<1>5. \/ answer' = answer /\ approved' = approved
      \/ \E k \in Replies : TellLast(k) \/ \E y \in Requests : TellNext(k, y)
      \/ \E kind \in Kinds : Dispose(kind)
  BY DEF Next, Ask, Interrupt, Reply, Cut, vars
<1>6. FineRules /\ \A r \in Requests : Fine(r)
  BY <1>1, <1>2, <1>3, <1>4, <1>5
<1> QED
  BY <1>6 DEF AnswersHaveCause, GrantCause, RejectCause, ApproveCause, Undenied

LEMMA CascadeCauseStep ==
  ASSUME TypeOK, RepliesAreSound, CascadesHaveCause, [Next]_vars
  PROVE  CascadesHaveCause'
<1> DEFINE Cause(k) ==
      InHand(k) /\ reply[k].item # reply[k].to =>
        /\ SameSession(reply[k].to, reply[k].item)
        /\ Yes(k) => reply[k].verdict = "always" /\ info[reply[k].item].patterns \subseteq approved
<1> SUFFICES ASSUME NEW k \in Replies PROVE Cause(k)'
  BY DEF CascadesHaveCause
<1>1. ASSUME InHand(k), reply'[k].item = reply[k].item, reply'[k].to = reply[k].to,
             reply'[k].verdict = reply[k].verdict
      PROVE  Cause(k)'
  <2>1. PICK x, t : x = reply[k].item /\ t = reply[k].to
    OBVIOUS
  <2>2. x \in 1 .. asked /\ t \in 1 .. asked
    BY <1>1, <2>1 DEF RepliesAreSound
  <2>3. info'[x] = info[x] /\ info'[t] = info[t] /\ approved \subseteq approved'
    BY <2>2, Growth
  <2> QED
    BY <1>1, <2>1, <2>3 DEF CascadesHaveCause, SameSession, Yes
<1>2. CASE reply'[k] = reply[k]
  BY <1>1, <1>2 DEF InHand
<1>3. CASE Cut(k)
  BY <1>1, <1>3, CutDoes DEF InHand
<1>4. ASSUME NEW y \in Requests, TellNext(k, y) PROVE Cause(k)'
  <2>1. PICK t : t = reply[k].to
    OBVIOUS
  <2>2. /\ reply'[k].to = t /\ reply'[k].item = y /\ reply'[k].verdict = reply[k].verdict
        /\ approved' = Approved(k) /\ info' = info /\ reply[k].verdict \in Verdicts
    BY <1>4, <2>1, NextDoes, NowCarried DEF Tells
  <2>3. /\ SameSession(t, y) /\ reply[k].verdict # "once"
        /\ Yes(k) => info[y].patterns \subseteq Approved(k)
    BY <1>4, <2>1 DEF TellNext, Walks, Along, SameSession
  <2> QED
    BY <2>2, <2>3 DEF SameSession, Yes, Verdicts
<1>5. CASE TellLast(k)
  BY <1>5, LastDoes DEF InHand
<1>6. ASSUME NEW r \in pending, reply'[k].to = r, reply'[k].item = r PROVE Cause(k)'
  BY <1>6
<1>7. CASE reply'[k].step = "unknown"
  BY <1>7 DEF InHand
<1> QED
  BY <1>2, <1>3, <1>4, <1>5, <1>6, <1>7, OneReply

LEMMA GivenStep ==
  ASSUME TypeOK, RepliesAreSound, GivenIsApproved, [Next]_vars
  PROVE  GivenIsApproved'
<1> SUFFICES ASSUME NEW k \in Replies, Carried(k)', reply'[k].verdict = "always"
             PROVE  info'[reply'[k].to].always \subseteq approved'
  BY DEF GivenIsApproved
<1>1. CASE Carried(k)
  BY <1>1, CarriedStep, Growth DEF GivenIsApproved
<1>2. CASE ~Carried(k)
  <2>1. TellLast(k) \/ \E y \in Requests : TellNext(k, y)
    BY <1>2, OnlyTelling
  <2> QED
    BY <2>1, NowCarried DEF Tells, Approved
<1> QED
  BY <1>1, <1>2

-----------------------------------------------------------------------------
(* Cascades.                                                                *)

LEMMA NewRequests ==
  ASSUME TypeOK, RepliesAreSound, NothingDeniedWaits, [Next]_vars, NEW r \in pending'
  PROVE  \/ r \in pending /\ r \in 1 .. asked
         \/ r = asked + 1 /\ r \in Requests /\ \E i \in Inputs : Ask(r, i)
<1>1. r \in pending => r \in 1 .. asked
  BY DEF NothingDeniedWaits, TypeOK, Requests
<1>2. ASSUME NEW s \in Requests, NEW i \in Inputs, Ask(s, i)
      PROVE  r \in pending \/ (r = s /\ r = asked + 1 /\ Ask(r, i))
  <2>1. (r \in pending \/ r = s) /\ s = asked + 1
    BY <1>2, AskDoes
  <2> QED
    BY <1>2, <2>1
<1>3. ASSUME NEW s \in Requests, Interrupt(s) PROVE r \in pending
  BY <1>3 DEF Interrupt
<1>4. ASSUME NEW k \in Replies, NEW s \in Requests, NEW v \in Verdicts, Reply(k, s, v)
      PROVE  r \in pending
  BY <1>4 DEF Reply
<1>5. ASSUME NEW k \in Replies, TellLast(k) \/ Cut(k) \/ \E y \in Requests : TellNext(k, y)
      PROVE  r \in pending
  BY <1>5 DEF TellLast, TellNext, Cut
<1>6. ASSUME NEW kind \in Kinds, Dispose(kind) PROVE r \in pending
  BY <1>6 DEF Dispose
<1>7. ASSUME UNCHANGED vars PROVE r \in pending
  BY <1>7 DEF vars
<1> QED
  BY <1>1, <1>2, <1>3, <1>4, <1>5, <1>6, <1>7 DEF Next

(* A walk does not pass by what its verdict takes along.                    *)
LEMMA WalkTakes ==
  ASSUME TypeOK, RepliesAreSound, NEW k \in Replies, NEW r \in pending, r \in pending',
         SameSession(reply[k].to, r), reply[k].at < r, reply[k].verdict # "once",
         Yes(k) => info[r].patterns \subseteq Approved(k)
  PROVE  /\ ~TellLast(k)
         /\ \A y \in Requests : TellNext(k, y) => reply'[k].at < r
<1>1. r \in Along(k) /\ Walks(k) /\ r \in Nat
  BY DEF Along, Walks, SameSession, TypeOK, Requests
<1>2. ~TellLast(k)
  BY <1>1 DEF TellLast
<1>3. ASSUME NEW y \in Requests, TellNext(k, y) PROVE reply'[k].at < r
  <2>1. y <= r /\ y \in Nat
    BY <1>1, <1>3 DEF TellNext, Requests
  <2>2. r # y /\ reply'[k].at = y
    BY <1>3, NextDoes
  <2> QED
    BY <1>1, <2>1, <2>2
<1> QED
  BY <1>2, <1>3
LEMMA ThoroughStep ==
  ASSUME TypeOK, RepliesAreSound, NothingDeniedWaits, WalksAreThorough, [Next]_vars
  PROVE  WalksAreThorough'
<1> SUFFICES ASSUME NEW k \in Replies, NEW r \in pending', reply'[k].step = "telling", ~Yes(k)',
                    SameSession(reply[k].to, r)'
             PROVE  r > reply'[k].at
  BY DEF WalksAreThorough
<1>0. r \in Nat /\ r > 0 /\ asked \in Nat
  BY NewRequests DEF TypeOK, Requests
<1>1. CASE reply'[k] = reply[k]
  <2>1. /\ reply[k].step = "telling" /\ ~Yes(k) /\ reply[k].to \in 1 .. asked
        /\ reply[k].at \in 0 .. asked
    BY <1>1 DEF Yes, RepliesAreSound, InHand
  <2>2. CASE r \in pending /\ r \in 1 .. asked
    BY <1>1, <2>1, <2>2, ToInfo DEF WalksAreThorough, SameSession
  <2>3. CASE r = asked + 1
    BY <1>0, <1>1, <2>1, <2>3
  <2> QED
    BY <2>2, <2>3, NewRequests
<1>2. ASSUME NEW y \in Requests, TellNext(k, y) PROVE r > reply'[k].at
  <2>1. /\ reply'[k].to = reply[k].to /\ reply'[k].verdict = reply[k].verdict
        /\ info' = info /\ reply[k].step = "telling" /\ r \in pending
    BY <1>2, NextDoes DEF Tells
  <2>2. SameSession(reply[k].to, r) /\ ~Yes(k) /\ reply[k].verdict # "once"
    BY <1>2, <2>1 DEF SameSession, Yes, TellNext, Walks
  <2>3. r > reply[k].at /\ reply[k].at \in Nat
    BY <2>1, <2>2 DEF WalksAreThorough, TypeOK
  <2>4. reply'[k].at < r
    BY <1>2, <1>0, <2>1, <2>2, <2>3, WalkTakes
  <2>5. reply'[k].at \in Nat
    BY <1>2, NextDoes DEF Requests
  <2> QED
    BY <1>0, <2>4, <2>5
<1>3. CASE TellLast(k)
  BY <1>3, LastDoes
<1>4. CASE Cut(k)
  BY <1>4, CutDoes
<1>5. CASE reply'[k].at = 0
  BY <1>0, <1>5
<1>6. CASE reply'[k].step = "unknown"
  BY <1>6
<1> QED
  BY <1>1, <1>2, <1>3, <1>4, <1>5, <1>6, OneReply

(* A rejection that is done with has left nothing of what was asked by then.*)
LEMMA RejectionStep ==
  ASSUME TypeOK, RepliesAreSound, NothingDeniedWaits, WalksAreThorough, CascadesAreComplete,
         [Next]_vars,
         NEW k \in Replies, NEW r \in pending', reply'[k].step = "done", ~Yes(k)',
         SameSession(reply[k].to, r)'
  PROVE  r > reply'[k].at
<1>0. r \in Nat /\ asked \in Nat
  BY NewRequests DEF TypeOK, Requests
<1>1. CASE reply'[k] = reply[k]
  <2>1. /\ reply[k].step = "done" /\ ~Yes(k) /\ reply[k].to \in 1 .. asked
        /\ reply[k].at \in 0 .. asked
    BY <1>1 DEF Yes, RepliesAreSound, InHand
  <2>2. CASE r \in pending /\ r \in 1 .. asked
    BY <1>1, <2>1, <2>2, ToInfo DEF CascadesAreComplete, SameSession
  <2>3. CASE r = asked + 1
    BY <1>0, <1>1, <2>1, <2>3
  <2> QED
    BY <2>2, <2>3, NewRequests
<1>2. CASE TellLast(k)
  <2>1. /\ reply'[k].to = reply[k].to /\ reply'[k].verdict = reply[k].verdict
        /\ info' = info /\ reply[k].step = "telling" /\ r \in pending
    BY <1>2, LastDoes DEF Tells
  <2>2. SameSession(reply[k].to, r) /\ ~Yes(k) /\ reply[k].verdict # "once"
    BY <2>1 DEF SameSession, Yes
  <2>3. r > reply[k].at /\ reply[k].at \in Nat
    BY <2>1, <2>2 DEF WalksAreThorough, TypeOK
  <2> QED
    BY <1>0, <1>2, <2>1, <2>2, <2>3, WalkTakes
<1>3. ASSUME NEW y \in Requests, TellNext(k, y) PROVE FALSE
  BY <1>3, NextDoes
<1>4. CASE Cut(k)
  BY <1>4, CutDoes
<1>5. CASE reply'[k].step \in {"unknown", "telling"}
  BY <1>5
<1> QED
  BY <1>1, <1>2, <1>3, <1>4, <1>5, OneReply

(* A reply that still walks and will come by r.                             *)
Coming(k, r) ==
  /\ reply[k].step \in {"telling", "cut"} /\ Carried(k) /\ reply[k].verdict = "always"
  /\ SameSession(reply[k].to, r) /\ reply[k].at < r

Allowed(r) == info[r].kind = "permission" /\ info[r].patterns \subseteq Given(info[r].session)

LEMMA ComingStep ==
  ASSUME TypeOK, RepliesAreSound, [Next]_vars, NEW k \in Replies, NEW r \in pending,
         r \in pending', r \in 1 .. asked, reply[k].step \in {"telling", "cut"},
         Carried(k) \/ TellLast(k) \/ (\E y \in Requests : TellNext(k, y)),
         reply[k].verdict = "always", SameSession(reply[k].to, r), reply[k].at < r,
         info[r].patterns \subseteq approved'
  PROVE  Coming(k, r)'
<1>1. reply[k].to \in 1 .. asked
  BY DEF RepliesAreSound, InHand
<1>2. CASE reply'[k] = reply[k]
  <2>1. Carried(k)
    <3>1. ASSUME NEW y \in Requests, TellNext(k, y) PROVE Carried(k)'
      BY <3>1, NowCarried
    <3>2. ASSUME TellLast(k) PROVE Carried(k)'
      BY <3>2, NowCarried
    <3>3. Carried(k)' => Carried(k)
      BY <1>2 DEF Carried
    <3> QED
      BY <3>1, <3>2, <3>3
  <2>2. Carried(k)' /\ SameSession(reply[k].to, r)'
    BY <1>1, <1>2, <2>1, CarriedStep, ToInfo
  <2> QED
    BY <1>2, <2>2 DEF Coming
<1>3. CASE Cut(k)
  <2>1. Carried(k) /\ reply'[k].to = reply[k].to
    BY <1>3, CutDoes, LastDoes, NextDoes
  <2> QED
    BY <1>1, <1>3, <2>1, CutDoes, CarriedStep, ToInfo DEF Coming
<1>4. CASE TellLast(k)
  <2>1. approved' = Approved(k)
    BY <1>4 DEF TellLast
  <2> QED
    BY <1>4, <2>1, WalkTakes
<1>5. ASSUME NEW y \in Requests, TellNext(k, y) PROVE Coming(k, r)'
  <2>1. approved' = Approved(k)
    BY <1>5 DEF TellNext
  <2>2. reply'[k].at < r
    BY <1>5, <2>1, WalkTakes
  <2>3. reply'[k].step = "telling" /\ reply'[k].to = reply[k].to
        /\ reply'[k].verdict = "always" /\ Carried(k)'
    BY <1>5, NextDoes, NowCarried
  <2>4. SameSession(reply[k].to, r)'
    BY <1>1, <2>3, ToInfo
  <2> QED
    BY <2>2, <2>3, <2>4 DEF Coming
<1> QED
  BY <1>2, <1>3, <1>4, <1>5, OneReply

LEMMA AllowanceStep ==
  ASSUME TypeOK, RepliesAreSound, NothingDeniedWaits, GivenIsApproved, CascadesAreComplete,
         [Next]_vars, NEW r \in pending', Allowed(r)'
  PROVE  \E k \in Replies : Coming(k, r)'
<1>1. info'[r].patterns \subseteq approved' /\ info'[r].kind = "permission"
  BY GivenStep DEF Allowed, Given, GivenIsApproved
<1>2. ASSUME NEW i \in Inputs, r \in Requests, Ask(r, i), r \notin pending PROVE FALSE
  <2>1. info'[r] = i /\ approved' = approved /\ (i.kind = "question" \/ Pends(i))
    BY <1>2, AskDoes
  <2> QED
    BY <1>1, <2>1 DEF Pends, Evaluate
<1>3. CASE r \in pending /\ r \in 1 .. asked
  <2>0. info'[r] = info[r]
    BY <1>3, Growth
  <2>1. CASE Allowed(r)
    <3>1. PICK k \in Replies : Coming(k, r)
      BY <1>3, <2>1 DEF CascadesAreComplete, Coming, Allowed
    <3>2. Coming(k, r)'
      BY <1>1, <1>3, <2>0, <3>1, ComingStep DEF Coming
    <3> QED
      BY <3>2
  <2>2. CASE ~Allowed(r)
    <3>1. PICK p \in info[r].patterns :
            p \in Given(info[r].session)' /\ p \notin Given(info[r].session)
      BY <1>1, <2>0, <2>2 DEF Allowed, Given
    <3>2. PICK j \in Replies : /\ Carried(j)' /\ reply'[j].verdict = "always"
                               /\ info'[reply'[j].to].session = info'[r].session
                               /\ p \in info'[reply'[j].to].always
      BY <3>1 DEF Given
    <3>3. ~Carried(j)
      <4>1. SUFFICES ASSUME Carried(j) PROVE FALSE
        OBVIOUS
      <4>2. /\ reply'[j].to = reply[j].to /\ reply[j].verdict = "always"
            /\ info'[reply[j].to] = info[reply[j].to]
        BY <3>2, <4>1, CarriedStep, Growth
      <4> QED
        BY <2>0, <3>1, <3>2, <4>1, <4>2 DEF Given
    <3>4. TellLast(j) \/ \E y \in Requests : TellNext(j, y)
      BY <3>2, <3>3, OnlyTelling
    <3>5. /\ reply[j].step = "telling" /\ reply'[j].to = reply[j].to
          /\ reply[j].verdict = "always" /\ info' = info
      BY <3>2, <3>4, NowCarried DEF Tells
    <3>6. reply[j].at = 0 /\ info[reply[j].to].kind = "permission"
      BY <3>3, <3>5 DEF Carried, RepliesAreSound, InHand
    <3>7. SameSession(reply[j].to, r) /\ reply[j].at < r
      BY <1>1, <1>3, <3>2, <3>5, <3>6 DEF SameSession, TypeOK
    <3>8. Coming(j, r)'
      BY <1>1, <1>3, <2>0, <3>4, <3>5, <3>7, ComingStep
    <3> QED
      BY <3>8
  <2> QED
    BY <2>1, <2>2
<1>4. (r \in pending /\ r \in 1 .. asked)
      \/ (r \in Requests /\ r \notin pending /\ \E i \in Inputs : Ask(r, i))
  <2>1. CASE r \in pending
    BY <2>1 DEF NothingDeniedWaits, TypeOK, Requests
  <2>2. CASE r \notin pending
    BY <2>2, NewRequests
  <2> QED
    BY <2>1, <2>2
<1> QED
  BY <1>2, <1>3, <1>4

LEMMA CascadeStep ==
  ASSUME TypeOK, RepliesAreSound, NothingDeniedWaits, GivenIsApproved, WalksAreThorough,
         CascadesAreComplete, [Next]_vars
  PROVE  CascadesAreComplete'
<1> SUFFICES ASSUME NEW r \in pending'
             PROVE  /\ \A k \in Replies :
                         reply'[k].step = "done" /\ ~Yes(k)' /\ SameSession(reply[k].to, r)'
                           => r > reply'[k].at
                    /\ Allowed(r)' => \E k \in Replies : Coming(k, r)'
  BY DEF CascadesAreComplete, Allowed, Coming
<1> QED
  BY RejectionStep, AllowanceStep
-----------------------------------------------------------------------------
(* The invariant.                                                           *)

LEMMA Initially == Init => IInv
<1> SUFFICES ASSUME Init PROVE IInv
  OBVIOUS
<1> USE PendingAssumption DEF PendingAssumption
<1>1. TypeOK
  BY DEF Init, TypeOK, NoReply, Requests
<1>2. \A k \in Replies : ~InHand(k) /\ ~Carried(k) /\ reply[k].step = "new"
  BY DEF Init, NoReply, InHand, Carried
<1>3. RepliesAreSound /\ CascadesHaveCause /\ GivenIsApproved /\ WalksAreThorough
  BY <1>2 DEF RepliesAreSound, CascadesHaveCause, GivenIsApproved, WalksAreThorough
<1>4. NothingDeniedWaits /\ CascadesAreComplete
  BY <1>2 DEF Init, NothingDeniedWaits, CascadesAreComplete
<1>5. AnswersHaveCause /\ NobodyIsForgotten
  BY DEF Init, AnswersHaveCause, NobodyIsForgotten, Waiting
<1> QED
  BY <1>1, <1>3, <1>4, <1>5 DEF IInv

LEMMA Inductive == IInv /\ [Next]_vars => IInv'
<1> SUFFICES ASSUME IInv, [Next]_vars PROVE IInv'
  OBVIOUS
<1>1. TypeOK /\ RepliesAreSound /\ NothingDeniedWaits /\ CascadesHaveCause
      /\ GivenIsApproved /\ WalksAreThorough
      /\ AnswersHaveCause /\ NobodyIsForgotten /\ CascadesAreComplete
  BY DEF IInv
<1>2. TypeOK' /\ RepliesAreSound'
  BY <1>1, TypeStep, SoundStep
<1>3. NothingDeniedWaits' /\ CascadesHaveCause' /\ AnswersHaveCause'
  BY <1>1, NothingDeniedStep, CascadeCauseStep, AnswersStep
<1>4. GivenIsApproved' /\ WalksAreThorough' /\ CascadesAreComplete'
  BY <1>1, GivenStep, ThoroughStep, CascadeStep
<1>5. NobodyIsForgotten'
  <2> SUFFICES ASSUME NEW q \in Requests, Waiting(q)' PROVE Reachable(q)'
    BY DEF NobodyIsForgotten, Reachable, InHand
  <2>1. Waiting(q) => Reachable(q)
    BY <1>1 DEF NobodyIsForgotten, Reachable, InHand
  <2> QED
    BY <1>1, <2>1, ReachStep
<1> QED
  BY <1>2, <1>3, <1>4, <1>5 DEF IInv

LEMMA Invariant == Spec => []IInv
BY Initially, Inductive, PTL DEF Spec

(* The state of permissions and questions is what their types say: a        *)
(* request is known from when it is asked on, and what is in the map was    *)
(* asked and has not been allowed or denied.                                *)
THEOREM TypeCorrect == Spec => []TypeOK
<1>1. IInv => TypeOK
  BY DEF IInv
<1> QED
  BY <1>1, Invariant, PTL

(* Who waits is in the map, or a reply has him in its hands, however walks, *)
(* replies, interruptions and the end of the instance interleave.           *)
THEOREM NobodyForgotten == Spec => []NobodyIsForgotten
<1>1. IInv => NobodyIsForgotten
  BY DEF IInv
<1> QED
  BY <1>1, Invariant, PTL

(* Every answer of a request, and every rule, goes back to a reply of the   *)
(* user, or to the end of the instance.                                     *)
THEOREM AnswersCaused == Spec => []AnswersHaveCause
<1>1. IInv => AnswersHaveCause
  BY DEF IInv
<1> QED
  BY <1>1, Invariant, PTL

(* A rejection leaves nothing behind that its session had asked when it was *)
(* done, and what a session's replies allow does not wait on behind them.   *)
THEOREM CascadesComplete == Spec => []CascadesAreComplete
<1>1. IInv => CascadesAreComplete
  BY DEF IInv
<1> QED
  BY <1>1, Invariant, PTL
=============================================================================
