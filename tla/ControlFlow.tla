----------------------------- MODULE ControlFlow -----------------------------
(***************************************************************************)
(* Structured control flow in Go and in Rust: what a program of marks,     *)
(* conditions, loops, breaks and continues executes.  Every condition      *)
(* takes the next of a given sequence of bits, and a program that runs out *)
(* of bits is cut off, so that two programs can be compared by their runs  *)
(* on the same bits.                                                       *)
(*                                                                         *)
(* A statement is a record whose k is "mark" (n), "break" or "continue"    *)
(* (label), "if" (body), "for" (label, post, body), "range" (label, body), *)
(* "switch", "select" or "labeled" (label, body) or "goto" (label) in Go,  *)
(* and "mark", "break", "continue", "if", "block" (label, body), "while"   *)
(* or "loop" (label, body), "set" (var, n) or "match" (var, arms) in Rust. *)
(* Labels are sequences; NoLabel is the empty one.                         *)
(***************************************************************************)
EXTENDS Naturals, Sequences

NoLabel == <<>>

Signal(k, label) == [k |-> k, label |-> label]
Normal == Signal("next", NoLabel)

\* An execution: the bits left, the marks so far, the variables of the lowered
\* program, and how it goes on.
NoVars == [v \in {} |-> 0]
Start(bits) == [bits |-> bits, trace |-> <<>>, vars |-> NoVars, sig |-> Normal]
Going(st) == st.sig = Normal
Continues(st) == [st EXCEPT !.sig = Normal]
Marked(st, n) == [st EXCEPT !.trace = Append(@, n)]
CutOff(st) == [st EXCEPT !.sig = Signal("cut", NoLabel)]
NextBit(st) == [st EXCEPT !.bits = Tail(@)]
SetVar(st, var, n) ==
  [st EXCEPT !.vars = [v \in DOMAIN @ \cup {var} |-> IF v = var THEN n ELSE @[v]]]

\* Does the signal k of st address a statement with this label?
Addressed(st, k, label) == st.sig.k = k /\ st.sig.label \in {NoLabel, label}
AddressedByName(st, k, label) == label # NoLabel /\ st.sig = Signal(k, label)

-----------------------------------------------------------------------------
\* The label of a statement that goto may name.
GoLabel(s) == IF s.k \in {"labeled", "for", "range"} THEN s.label ELSE NoLabel

RECURSIVE GoFrom(_, _, _), GoStmt(_, _), GoLoop(_, _), GoSelect(_, _)

\* A list from its i-th statement on.  A goto goes on at the statement of the
\* list that has the label, and leaves the list if there is none.
GoFrom(list, i, st) ==
  IF i > Len(list) THEN st
  ELSE LET end == GoStmt(list[i], st)
           targets == {j \in DOMAIN list : end.sig.k = "goto" /\ GoLabel(list[j]) = end.sig.label}
       IN  IF Going(end) THEN GoFrom(list, i + 1, end)
           ELSE IF targets = {} THEN end
           ELSE GoFrom(list, CHOOSE j \in targets : TRUE, Continues(end))

GoList(list, st) == GoFrom(list, 1, st)

\* for and range: post is the mark of a post statement, or NoLabel.
GoLoop(s, st) ==
  IF st.bits = <<>> THEN CutOff(st)
  ELSE IF Head(st.bits) = 0 THEN NextBit(st)
  ELSE LET end == GoList(s.body, NextBit(st))
           turn == Continues(end)
       IN  IF Going(end) \/ Addressed(end, "continue", s.label)
           THEN GoLoop(s, IF s.post THEN Marked(turn, "post") ELSE turn)
           ELSE IF Addressed(end, "break", s.label) THEN turn ELSE end

\* Two communications; the first has the body.
GoSelect(s, st) ==
  IF st.bits = <<>> THEN CutOff(st)
  ELSE IF Head(st.bits) = 1 THEN GoList(s.body, NextBit(st))
  ELSE IF Len(st.bits) = 1 THEN CutOff(NextBit(st))
  ELSE IF st.bits[2] = 1 THEN NextBit(NextBit(st))
  ELSE GoSelect(s, NextBit(NextBit(st)))

GoStmt(s, st) ==
  CASE s.k = "mark" -> Marked(st, s.n)
    [] s.k \in {"break", "continue", "goto"} -> [st EXCEPT !.sig = Signal(s.k, s.label)]
    [] s.k = "if" -> IF st.bits = <<>> THEN CutOff(st)
                     ELSE IF Head(st.bits) = 1 THEN GoList(s.body, NextBit(st))
                     ELSE NextBit(st)
    [] s.k \in {"for", "range"} -> GoLoop(s, st)
    [] s.k = "labeled" ->
         LET end == GoList(s.body, st)
         IN  IF AddressedByName(end, "break", s.label) THEN Continues(end) ELSE end
    [] s.k = "switch" ->
         LET end == GoStmt([s EXCEPT !.k = "if"], st)
         IN  IF Addressed(end, "break", NoLabel) THEN Continues(end) ELSE end
    [] s.k = "select" ->
         LET end == GoSelect(s, st)
         IN  IF Addressed(end, "break", NoLabel) THEN Continues(end) ELSE end

-----------------------------------------------------------------------------
RECURSIVE RustList(_, _), RustStmt(_, _), RustLoop(_, _)

RustList(list, st) ==
  IF list = <<>> \/ ~Going(st) THEN st ELSE RustList(Tail(list), RustStmt(Head(list), st))

RustLoop(s, st) ==
  IF s.k = "while" /\ st.bits = <<>> THEN CutOff(st)
  ELSE IF s.k = "while" /\ Head(st.bits) = 0 THEN NextBit(st)
  ELSE LET end == RustList(s.body, IF s.k = "while" THEN NextBit(st) ELSE st)
       IN  IF Going(end) \/ Addressed(end, "continue", s.label)
           THEN RustLoop(s, Continues(end))
           ELSE IF Addressed(end, "break", s.label) THEN Continues(end) ELSE end

RustStmt(s, st) ==
  CASE s.k = "mark" -> Marked(st, s.n)
    [] s.k \in {"break", "continue"} -> [st EXCEPT !.sig = Signal(s.k, s.label)]
    [] s.k = "if" -> IF st.bits = <<>> THEN CutOff(st)
                     ELSE IF Head(st.bits) = 1 THEN RustList(s.body, NextBit(st))
                     ELSE NextBit(st)
    [] s.k = "set" -> SetVar(st, s.var, s.n)
    [] s.k = "match" -> RustList(s.arms[st.vars[s.var]], st)
    [] s.k \in {"while", "loop"} -> RustLoop(s, st)
    [] s.k = "block" ->
         LET end == RustList(s.body, st)
         IN  IF AddressedByName(end, "break", s.label) THEN Continues(end) ELSE end

\* rustc accepts a jump without label only when the innermost loop is inside
\* every labelled block around it (E0695), a labelled one when the label is
\* around it and, for continue, names a loop (E0696).  ctx is what is around,
\* innermost first.
RECURSIVE RustAccepts(_, _)
RustAccepts(list, ctx) == \A i \in DOMAIN list :
  LET s == list[i]
      named == {j \in DOMAIN ctx : ctx[j].label = s.label}
      inner == CHOOSE j \in named : \A k \in named : j <= k
  IN  CASE s.k \in {"mark", "set"} -> TRUE
        [] s.k = "match" -> \A a \in DOMAIN s.arms : RustAccepts(s.arms[a], ctx)
        [] s.k \in {"break", "continue"} /\ s.label = NoLabel ->
             ctx # <<>> /\ ctx[1].k # "block"
        [] s.k \in {"break", "continue"} /\ s.label # NoLabel ->
             named # {} /\ (s.k = "continue" => ctx[inner].k # "block")
        [] s.k = "if" \/ (s.k = "block" /\ s.label = NoLabel) -> RustAccepts(s.body, ctx)
        [] OTHER -> RustAccepts(s.body, <<[k |-> s.k, label |-> s.label]>> \o ctx)
=============================================================================
