------------------------------- MODULE Pending -------------------------------
(***************************************************************************)
(* What an agent waits for while the user thinks: permissions               *)
(* (packages/engine/src/permission/index.ts) and questions                  *)
(* (packages/engine/src/question/index.ts) of one instance.                 *)
(*                                                                          *)
(* A request that rules do not decide goes into a map and waits for its     *)
(* Deferred.  A reply takes the request out of the map, publishes that, and *)
(* completes the Deferred.  A rejected permission takes the other ones of   *)
(* its session along; one that is given for always adds rules, for all      *)
(* sessions, and releases those of its own session that they now allow.     *)
(* The walk over the map is suspended while an event is published, and the  *)
(* map changes meanwhile.                                                   *)
(*                                                                          *)
(* Questions are in a map of their own, without rules and without a walk.   *)
(* Steps are the sections between two publications.  Calls of ask, and      *)
(* calls of reply, are numbered in the order in which they are made, which  *)
(* is the order of the map.                                                 *)
(***************************************************************************)
EXTENDS Naturals, FiniteSets

CONSTANTS
  Calls,     \* how many calls of ask
  Answers,   \* how many calls of reply and reject
  Sessions,
  Patterns,
  Inputs,    \* what is asked, see Input
  MaxInterrupts,  \* how many calls, of ask or of reply, are interrupted
  None

Requests == 1 .. Calls
Replies  == 1 .. Answers

Kinds  == {"permission", "question"}
Action == {"allow", "deny", "ask"}

(* rule: what the caller's own rules say of each pattern *)
Input == [kind : Kinds, session : Sessions, patterns : SUBSET Patterns,
          rule : [Patterns -> Action], always : SUBSET Patterns]

ASSUME PendingAssumption ==
  /\ Calls \in Nat /\ Answers \in Nat /\ MaxInterrupts \in Nat
  /\ Inputs \subseteq Input /\ None \notin Inputs
  /\ None \notin {"granted", "rejected"}
  /\ \A i \in Inputs : i.kind = "question" => i.patterns = {}

VARIABLES
  info,      \* what each request asks, or None
  asker,     \* where each call of ask is
  answer,    \* its Deferred
  pending,   \* the requests in the map
  asked,     \* the last request made
  approved,  \* the patterns that have been allowed for always
  reply,     \* where each call of reply is, with what verdict, to which
             \* request; the one it publishes about; how far it has walked
  interrupts,
  disposed   \* the kinds whose state the instance has disposed of

vars == <<info, asker, answer, pending, asked, approved, reply, interrupts, disposed>>

NoReply == [step |-> "new", verdict |-> None, to |-> 0, item |-> 0, at |-> 0]

Init ==
  /\ info = [r \in Requests |-> None]
  /\ asker = [r \in Requests |-> "new"]
  /\ answer = [r \in Requests |-> None]
  /\ pending = {}
  /\ asked = 0
  /\ approved = {}
  /\ reply = [k \in Replies |-> NoReply]
  /\ interrupts = 0 /\ disposed = {}

-----------------------------------------------------------------------------
(* ask *)

(* Rules added by the user come last, and the last rule decides. *)
Evaluate(i, p) == IF p \in approved THEN "allow" ELSE i.rule[p]

Decided(r, i) ==
  \/ /\ \E p \in i.patterns : Evaluate(i, p) = "deny"
     /\ asker' = [asker EXCEPT ![r] = "denied"]
  \/ /\ \A p \in i.patterns : Evaluate(i, p) = "allow"
     /\ asker' = [asker EXCEPT ![r] = "allowed"]

Pends(i) ==
  /\ \A p \in i.patterns : Evaluate(i, p) # "deny"
  /\ \E p \in i.patterns : Evaluate(i, p) = "ask"

Ask(r, i) ==
  /\ r = asked + 1 /\ asked' = r
  /\ i.kind \notin disposed
  /\ info' = [info EXCEPT ![r] = i]
  /\ \/ i.kind = "permission" /\ Decided(r, i) /\ UNCHANGED pending
     \/ /\ i.kind = "question" \/ Pends(i)
        /\ asker' = [asker EXCEPT ![r] = "waiting"] /\ pending' = pending \cup {r}
  /\ UNCHANGED <<answer, approved, reply, interrupts, disposed>>

Waiting(r) == asker[r] = "waiting" /\ answer[r] = None

(* Who is still publishing what he asks leaves it in the map.  (The end of  *)
(* a call whose Deferred is complete removes nothing: it is out already.)   *)
Interrupt(r) ==
  /\ Waiting(r)
  /\ interrupts < MaxInterrupts /\ interrupts' = interrupts + 1
  /\ asker' = [asker EXCEPT ![r] = "interrupted"]
  /\ pending' \in {pending, pending \ {r}}
  /\ UNCHANGED <<info, answer, asked, approved, reply, disposed>>

-----------------------------------------------------------------------------
(* reply, and the question's reject *)

Verdicts == {"once", "always", "reject"}

Reply(k, r, v) ==
  /\ \A j \in Replies : reply[j].step = "new" <=> j >= k
  /\ r <= asked
  /\ v = "always" => info[r].kind = "permission"
  /\ reply' = [reply EXCEPT ![k] =
       IF r \notin pending THEN [NoReply EXCEPT !.step = "unknown"]
       ELSE [step |-> "telling", verdict |-> v, to |-> r, item |-> r, at |-> 0]]
  /\ pending' = pending \ {r}
  /\ UNCHANGED <<info, asker, answer, asked, approved, interrupts, disposed>>

Yes(k) == reply[k].verdict # "reject"

(* Mutant of Complete: only the request that was replied to is completed. *)
CompleteFirst(k) ==
  LET x == reply[k].item
  IN  answer' = IF answer[x] = None /\ x = reply[k].to
                  THEN [answer EXCEPT ![x] = IF Yes(k) THEN "granted" ELSE "rejected"]
                  ELSE answer

(* A Deferred is completed once. *)
Complete(k) ==
  LET x == reply[k].item
  IN  answer' = IF answer[x] = None
                  THEN [answer EXCEPT ![x] = IF Yes(k) THEN "granted" ELSE "rejected"]
                  ELSE answer

Approved(k) ==
  IF reply[k].verdict = "always" THEN approved \cup info[reply[k].to].always ELSE approved

(* Mutant of Along: all sessions' requests go along. *)
AlongEverybody(k) ==
  {y \in pending : /\ y > reply[k].at
                   /\ info[y].kind = "permission"
                   /\ Yes(k) => info[y].patterns \subseteq Approved(k)}

(* Mutant of Along: the walk starts at the request that was replied to. *)
AlongBehind(k) ==
  {y \in pending : /\ y > reply[k].at /\ y > reply[k].to
                   /\ info[y].kind = "permission"
                   /\ info[y].session = info[reply[k].to].session
                   /\ Yes(k) => info[y].patterns \subseteq Approved(k)}

(* The requests ahead in the map that the verdict takes along.              *)
Along(k) ==
  {y \in pending : /\ y > reply[k].at
                   /\ info[y].kind = "permission"
                   /\ info[y].session = info[reply[k].to].session
                   /\ Yes(k) => info[y].patterns \subseteq Approved(k)}

Walks(k) == info[reply[k].to].kind = "permission" /\ reply[k].verdict # "once"

TellNext(k, y) ==
  /\ reply[k].step = "telling" /\ Walks(k)
  /\ y \in Along(k) /\ \A z \in Along(k) : y <= z
  /\ Complete(k)
  /\ approved' = Approved(k)
  /\ reply' = [reply EXCEPT ![k] = [reply[k] EXCEPT !.item = y, !.at = y]]
  /\ pending' = pending \ {y}
  /\ UNCHANGED <<info, asker, asked, interrupts, disposed>>

TellLast(k) ==
  /\ reply[k].step = "telling" /\ (Walks(k) => Along(k) = {})
  /\ Complete(k)
  /\ approved' = Approved(k)
  /\ reply' = [reply EXCEPT ![k] = [reply[k] EXCEPT !.step = "done", !.item = 0, !.at = asked]]
  /\ UNCHANGED <<info, asker, pending, asked, interrupts, disposed>>

(* The fiber of a reply is interrupted while it publishes. *)
Cut(k) ==
  /\ reply[k].step = "telling" /\ reply' = [reply EXCEPT ![k].step = "cut"]
  /\ interrupts < MaxInterrupts /\ interrupts' = interrupts + 1
  /\ UNCHANGED <<info, asker, answer, pending, asked, approved, disposed>>

-----------------------------------------------------------------------------
(* The finalizer of the instance's state.                                   *)

InMap(kind) == {r \in pending : info[r].kind = kind}

(* Mutant of Dispose: the map is emptied, and nobody told. *)
DisposeQuietly(kind) ==
  /\ kind \notin disposed /\ disposed' = disposed \cup {kind}
  /\ pending' = pending \ InMap(kind)
  /\ UNCHANGED <<info, asker, answer, asked, approved, reply, interrupts>>

Dispose(kind) ==
  /\ kind \notin disposed /\ disposed' = disposed \cup {kind}
  /\ answer' = [r \in Requests |->
                  IF r \in InMap(kind) /\ answer[r] = None THEN "rejected" ELSE answer[r]]
  /\ pending' = pending \ InMap(kind)
  /\ UNCHANGED <<info, asker, asked, approved, reply, interrupts>>

Next ==
  \/ \E r \in Requests : \/ \E i \in Inputs : Ask(r, i)
                         \/ Interrupt(r)
  \/ \E k \in Replies : \/ \E r \in Requests : \E v \in Verdicts : Reply(k, r, v)
                        \/ \E y \in Requests : TellNext(k, y)
                        \/ TellLast(k) \/ Cut(k)
  \/ \E kind \in Kinds : Dispose(kind)

Spec == Init /\ [][Next]_vars

(* Fibers that are not interrupted go on; nobody has to reply.              *)
FairSpec ==
  /\ Spec
  /\ \A k \in Replies : WF_vars(TellLast(k) \/ \E y \in Requests : TellNext(k, y))

-----------------------------------------------------------------------------
TypeOK ==
  /\ info \in [Requests -> Inputs \cup {None}]
  /\ asker \in [Requests -> {"new", "denied", "allowed", "waiting", "interrupted"}]
  /\ answer \in [Requests -> {None, "granted", "rejected"}]
  /\ pending \subseteq Requests /\ asked \in 0 .. Calls
  /\ approved \subseteq Patterns
  /\ reply \in [Replies -> [step : {"new", "unknown", "telling", "done", "cut"},
                            verdict : Verdicts \cup {None},
                            to : 0 .. Calls, item : 0 .. Calls, at : 0 .. Calls]]
  /\ interrupts \in 0 .. MaxInterrupts /\ disposed \subseteq Kinds
  /\ \A r \in Requests :
       /\ asker[r] = "new" <=> r > asked
       /\ info[r] = None <=> r > asked
       /\ r \in pending => asker[r] \in {"waiting", "interrupted"}

SameSession(r, s) ==
  info[r].kind = "permission" /\ info[s].kind = "permission" /\ info[r].session = info[s].session

(* A reply was found, and its verdict has been carried out.                 *)
Carried(k) ==
  \/ reply[k].step = "done"
  \/ reply[k].step \in {"telling", "cut"} /\ reply[k].item # reply[k].to

(* No answer comes from nowhere: what is granted the user has granted, by   *)
(* itself or with all its patterns for always, and no rule denied; what is  *)
(* rejected he has rejected, by itself or with another request of the same  *)
(* session, or the instance is gone.  No rule that he has not given is      *)
(* followed.                                                                *)
AnswersHaveCause ==
  /\ \A r \in Requests :
       /\ answer[r] = "granted" =>
            /\ \A p \in info[r].patterns : info[r].rule[p] # "deny" \/ p \in approved
            /\ \/ \E k \in Replies : Carried(k) /\ reply[k].to = r /\ Yes(k)
               \/ info[r].kind = "permission" /\ info[r].patterns \subseteq approved
       /\ answer[r] = "rejected" =>
            \/ info[r].kind \in disposed
            \/ \E k \in Replies : /\ Carried(k) /\ ~Yes(k)
                                  /\ reply[k].to = r \/ SameSession(reply[k].to, r)
  /\ \A p \in approved : \E k \in Replies :
       Carried(k) /\ reply[k].verdict = "always" /\ p \in info[reply[k].to].always

(* Who waits can still be answered: he is in the map, or a reply has him in *)
(* its hands, unless that reply was interrupted.                            *)
NobodyIsForgotten ==
  \A r \in Requests : Waiting(r) =>
    \/ r \in pending
    \/ \E k \in Replies : reply[k].step \in {"telling", "cut"} /\ reply[k].item = r

(* What a session's own replies have allowed.                               *)
Given(s) ==
  UNION {info[reply[k].to].always : k \in {j \in Replies :
           /\ Carried(j) /\ reply[j].verdict = "always"
           /\ info[reply[j].to].session = s}}

(* Whatever is asked while a walk is suspended: when a rejection is done    *)
(* with, nothing that its session had asked by then is left; and a request  *)
(* that its session's replies allow does not wait on, but lies ahead of a   *)
(* reply that is still walking.                                             *)
CascadesAreComplete ==
  \A r \in pending :
    /\ \A k \in Replies :
         reply[k].step = "done" /\ ~Yes(k) /\ SameSession(reply[k].to, r) => r > reply[k].at
    /\ info[r].kind = "permission" /\ info[r].patterns \subseteq Given(info[r].session) =>
         \E k \in Replies :
           /\ reply[k].step \in {"telling", "cut"} /\ Carried(k) /\ reply[k].verdict = "always"
           /\ SameSession(reply[k].to, r) /\ reply[k].at < r

(* Who has been taken out of the map, by a reply or by the end of the       *)
(* instance, ends, unless the reply was interrupted.                        *)
EveryAnswerArrives ==
  \A r \in Requests :
    Waiting(r) /\ r \notin pending
      ~> \/ ~Waiting(r)
         \/ \E k \in Replies : reply[k].step = "cut" /\ reply[k].item = r
=============================================================================
