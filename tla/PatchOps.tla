------------------------------ MODULE PatchOps ------------------------------
(***************************************************************************)
(* applyPatch of the hashline library (packages/hashline/src/apply.ts) on   *)
(* one section: preflight of the line ranges, then the operations one after *)
(* the other in descending order of their start line, so that the numbers   *)
(* of the original stay valid for the operations still to come.             *)
(*                                                                          *)
(* A line is an element of a set of texts.  Tags and fingerprints are left  *)
(* to module HashlineEdit: here the file is the one the patch was made for. *)
(***************************************************************************)
EXTENDS Integers, FiniteSets, Sequences, SequencesExt

CONSTANTS
  Texts,     \* what a line may say
  Original,  \* the lines of the file, a sequence of texts
  Bodies,    \* bodies of replacements and insertions, sequences of texts
  MaxOps     \* bound on the operations of a patch

(* A file without lines takes no operation with a line number. *)
ASSUME PatchOpsAssumption ==
  /\ MaxOps \in Nat
  /\ Original \in Seq(Texts) /\ Original # <<>>
  /\ Bodies \subseteq Seq(Texts)

LineNumbers == 1 .. Len(Original)

(* The operations parsePatch produces. *)
Replace(a, b, body) == [kind |-> "replace", start |-> a, end |-> b, lines |-> body]
Delete(a, b)        == [kind |-> "delete", start |-> a, end |-> b, lines |-> <<>>]
Insert(where, n, body) == [kind |-> where, start |-> n, end |-> n, lines |-> body]

(* Those a preflight lets through: ranges within the file. *)
Ops ==
  LET ranges == {r \in LineNumbers \X LineNumbers : r[1] <= r[2]}
  IN {Replace(r[1], r[2], body) : r \in ranges, body \in Bodies}
     \cup {Delete(r[1], r[2]) : r \in ranges}
     \cup {Insert(where, n, body) :
             where \in {"before", "after"}, n \in LineNumbers, body \in Bodies}
     \cup {Insert(where, 0, body) : where \in {"head", "tail"}, body \in Bodies}

Removes(op) == op.kind \in {"replace", "delete"}

VARIABLES
  ops,     \* the operations of the section, in patch order
  lines,   \* the array applyOps works on
  todo,    \* indexes of ops still to apply
  changed  \* the line numbers reported as changed

vars == <<ops, lines, todo, changed>>

-----------------------------------------------------------------------------
(* Array.prototype.splice(at - 1, count, ...body), start clamped. *)
Splice(s, at, count, body) ==
  LET before == IF at - 1 > Len(s) THEN Len(s) ELSE at - 1
  IN SubSeq(s, 1, before) \o body \o SubSeq(s, before + count + 1, Len(s))

(* absorbAnchorEcho: a body that repeats its anchor line loses that line. *)
Absorb(s, n, body) ==
  IF body # <<>> /\ n <= Len(s) /\ body[1] = s[n] THEN Tail(body) ELSE body

(* Mutant of Apply: an insertion after a line goes before it. *)
ApplyBefore(s, op) ==
  CASE Removes(op)         -> Splice(s, op.start, op.end - op.start + 1, op.lines)
    [] op.kind = "head"    -> op.lines \o s
    [] op.kind = "tail"    -> s \o op.lines
    [] op.kind = "before"  -> Splice(s, op.start, 0, op.lines)
    [] op.kind = "after"   -> Splice(s, op.start, 0, Absorb(s, op.start, op.lines))

(* One iteration of the loop of applyOps: the new array. *)
Apply(s, op) ==
  CASE Removes(op)         -> Splice(s, op.start, op.end - op.start + 1, op.lines)
    [] op.kind = "head"    -> op.lines \o s
    [] op.kind = "tail"    -> s \o op.lines
    [] op.kind = "before"  -> Splice(s, op.start, 0, op.lines)
    [] op.kind = "after"   -> Splice(s, op.start + 1, 0, Absorb(s, op.start, op.lines))

(* ... and the line numbers it adds to the report. *)
Reports(s, op) ==
  LET from(n, body) == n .. n + Len(body) - 1
  IN CASE op.kind \in {"replace", "before"} -> from(op.start, op.lines)
       [] op.kind = "delete" -> {op.start}
       [] op.kind = "head"   -> from(1, op.lines)
       [] op.kind = "tail"   -> from(Len(s) + 1, op.lines)
       [] op.kind = "after"  -> from(op.start + 1, Absorb(s, op.start, op.lines))

(* Mutant of Precedes: ascending order. *)
PrecedesUp(i, j) ==
  ops[i].start < ops[j].start \/ (ops[i].start = ops[j].start /\ i < j)

(* The order of the stable sort. *)
Precedes(i, j) ==
  ops[i].start > ops[j].start \/ (ops[i].start = ops[j].start /\ i < j)

Init ==
  /\ \E n \in 1 .. MaxOps : ops \in [1 .. n -> Ops]
  /\ lines = Original
  /\ todo = DOMAIN ops
  /\ changed = {}

Step(i) ==
  /\ i \in todo
  /\ \A j \in todo \ {i} : Precedes(i, j)
  /\ lines' = Apply(lines, ops[i])
  /\ changed' = changed \cup Reports(lines, ops[i])
  /\ todo' = todo \ {i}
  /\ UNCHANGED ops

Next == \E i \in DOMAIN ops : Step(i)

Spec == Init /\ [][Next]_vars

-----------------------------------------------------------------------------
(* The reference: what a patch means when its line numbers "refer to the    *)
(* ORIGINAL snapshot" and "do not shift between hunks in one patch".        *)

Span(op) == op.start .. op.end

(* Operations that speak of different lines of the original, at most one    *)
(* insertion at each end, and no removal of a line another one is anchored  *)
(* to.                                                                      *)
Separate ==
  \A i, j \in DOMAIN ops :
    i # j => /\ ops[i].start > 0 /\ ops[j].start > 0 =>
                  Span(ops[i]) \cap Span(ops[j]) = {}
             /\ ops[i].start = 0 => ops[i].kind # ops[j].kind

(* The text the operations put at a place relative to original line n. *)
At(kind, n) ==
  LET here == {i \in DOMAIN ops : ops[i].kind = kind /\ ops[i].start = n}
  IN IF here = {} THEN <<>>
     ELSE LET op == ops[CHOOSE i \in here : TRUE]
          IN IF kind = "after" THEN Absorb(Original, n, op.lines) ELSE op.lines

Kept(n) == \A i \in DOMAIN ops : Removes(ops[i]) => n \notin Span(ops[i])

AroundLine(n) ==
  At("before", n) \o At("replace", n) \o (IF Kept(n) THEN <<Original[n]>> ELSE <<>>)
    \o At("after", n)

(* The result. *)
Meant ==
  At("head", 0) \o FlattenSeq([n \in LineNumbers |-> AroundLine(n)]) \o At("tail", 0)

-----------------------------------------------------------------------------
TypeOK ==
  /\ \E n \in 1 .. MaxOps : ops \in [1 .. n -> Ops]
  /\ lines \in Seq(Texts)
  /\ todo \subseteq DOMAIN ops
  /\ changed \subseteq Nat \ {0}

(* A patch whose operations speak of different lines comes out as meant, in *)
(* whatever order it lists them.                                            *)
AppliedAsMeant == todo = {} /\ Separate => lines = Meant

(* What makes it so: at every moment the lines the remaining operations     *)
(* speak of, and all lines before them, have their original numbers.        *)
NumbersStayValid ==
  Separate => \A i \in todo : \A n \in 1 .. ops[i].end : lines[n] = Original[n]

=============================================================================
