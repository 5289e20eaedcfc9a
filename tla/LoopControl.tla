----------------------------- MODULE LoopControl -----------------------------
(***************************************************************************)
(* The lowering of loops, switches, selects and labelled statements, with  *)
(* the rewriting of breaks and continues of loop_control.rs.               *)
(*                                                                         *)
(* Rust's continue skips the post statement that Go runs before the next   *)
(* iteration, and Rust has no switch: its breaks leave a labelled block.   *)
(* Rust has no goto either: a statement list with a label that some goto   *)
(* names becomes a loop around a match, a machine whose states begin at    *)
(* the labels.                                                             *)
(***************************************************************************)
EXTENDS ControlFlow, FiniteSets, SequencesExt

CONSTANTS Programs, Inputs  \* Go statement lists; sequences of bits

VARIABLES go, bits, rust

vars == <<go, bits, rust>>

Jump(k, label) == [k |-> k, label |-> label]
Block(label, body) == [k |-> "block", label |-> label, body |-> body]
If(body) == [k |-> "if", label |-> NoLabel, body |-> body]
Post == <<[k |-> "mark", n |-> "post"]>>

IsLoop(s) == s.k \in {"while", "loop"}
\* Statements whose inside a rewriting visits whatever is in them.
IsPlain(s) == s.k \in {"if", "block"}

-----------------------------------------------------------------------------
(* loop_control.rs                                                         *)

\* A rewriting of the jumps of a list: jump(s) is the jump that replaces s,
\* inside a plain statement or a loop that enter admits.
RECURSIVE ContinueToBody(_, _, _, _), BreakToLabel(_, _), ContinueToLoop(_, _, _)
RECURSIVE HasContinueForPost(_, _, _), HasContinueInLabeledBlock(_, _)

TargetsLoop(s, label, unlabeled) ==
  s.k = "continue" /\ \/ unlabeled /\ s.label = NoLabel
                      \/ label # NoLabel /\ s.label = label

\* An inner loop is entered for the sake of the outer loop's label only.
EntersFor(s, label) == IsLoop(s) /\ label # NoLabel /\ s.label # label

HasContinueForPost(list, label, unlabeled) == \E i \in DOMAIN list :
  \/ TargetsLoop(list[i], label, unlabeled)
  \/ IsPlain(list[i]) /\ HasContinueForPost(list[i].body, label, unlabeled)
  \/ EntersFor(list[i], label) /\ HasContinueForPost(list[i].body, label, FALSE)

\* Mutant: unlabelled continues only.
ContinueToBodyUnlabeled(list, label, unlabeled, bodyLabel) ==
  [i \in DOMAIN list |->
    LET s == list[i]
    IN  IF s.k = "continue" /\ s.label = NoLabel THEN Jump("break", bodyLabel)
        ELSE IF IsPlain(s)
        THEN [s EXCEPT !.body = ContinueToBody(@, label, unlabeled, bodyLabel)]
        ELSE s]

ContinueToBody(list, label, unlabeled, bodyLabel) ==
  [i \in DOMAIN list |->
    LET s == list[i]
    IN  IF TargetsLoop(s, label, unlabeled) THEN Jump("break", bodyLabel)
        ELSE IF IsPlain(s)
        THEN [s EXCEPT !.body = ContinueToBody(@, label, unlabeled, bodyLabel)]
        ELSE IF EntersFor(s, label)
        THEN [s EXCEPT !.body = ContinueToBody(@, label, FALSE, bodyLabel)]
        ELSE s]

BreakToLabel(list, label) ==
  [i \in DOMAIN list |->
    LET s == list[i]
    IN  IF s.k = "break" /\ s.label = NoLabel THEN Jump("break", label)
        ELSE IF IsPlain(s) THEN [s EXCEPT !.body = BreakToLabel(@, label)]
        ELSE s]

\* Mutant: the flag is lost on the way into a plain statement.
HasContinueDirectlyInBlock(list, inside) == \E i \in DOMAIN list :
  \/ list[i].k = "continue" /\ list[i].label = NoLabel /\ inside
  \/ /\ IsPlain(list[i])
     /\ HasContinueInLabeledBlock(list[i].body, list[i].k = "block" /\ list[i].label # NoLabel)

HasContinueInLabeledBlock(list, inside) == \E i \in DOMAIN list :
  \/ list[i].k = "continue" /\ list[i].label = NoLabel /\ inside
  \/ /\ IsPlain(list[i])
     /\ HasContinueInLabeledBlock(list[i].body,
          inside \/ (list[i].k = "block" /\ list[i].label # NoLabel))

ContinueToLoop(list, label, inside) ==
  [i \in DOMAIN list |->
    LET s == list[i]
    IN  IF s.k = "continue" /\ s.label = NoLabel /\ inside THEN Jump("continue", label)
        ELSE IF IsPlain(s)
        THEN [s EXCEPT !.body =
                ContinueToLoop(@, label, inside \/ (s.k = "block" /\ s.label # NoLabel))]
        ELSE s]

Or(label, synthetic) == IF label # NoLabel THEN label ELSE synthetic

\* The label of the loop and its body with the post statement at the end.
WithIterationTail(body, label, post, path) ==
  IF ~post
  THEN IF HasContinueInLabeledBlock(body, FALSE)
       THEN LET target == Or(label, path \o <<"loop">>)
            IN  [label |-> target, body |-> ContinueToLoop(body, target, FALSE)]
       ELSE [label |-> label, body |-> body]
  ELSE IF HasContinueForPost(body, label, TRUE)
       THEN LET bodyLabel == path \o <<"body">>
                breakLabel == Or(label, path \o <<"loop">>)
                inner == BreakToLabel(ContinueToBody(body, label, TRUE, bodyLabel), breakLabel)
            IN  [label |-> breakLabel, body |-> <<Block(bodyLabel, inner)>> \o Post]
       ELSE [label |-> label, body |-> body \o Post]

\* range_for_loop: the loop gets a label when its body continues it.
RangeForLoop(body, path) ==
  IF HasContinueForPost(body, NoLabel, TRUE)
  THEN LET label == path \o <<"range">>
       IN  [k |-> "while", label |-> label, body |-> ContinueToLoop(body, label, TRUE)]
  ELSE [k |-> "while", label |-> NoLabel, body |-> body]

-----------------------------------------------------------------------------
(* The statements, in a context where a break leaves the block named brk,  *)
(* and where gotos[l] is the state of the machine that a goto to l enters. *)
(* path names the labels made for a statement.                             *)

RECURSIVE LowerList(_, _, _, _)
RECURSIVE HasGoto(_, _), GotoTargets(_)

NoGotos == [l \in {} |-> 0]

\* ast_stmt_has_goto_to_label
HasGoto(list, label) == \E i \in DOMAIN list :
  \/ list[i].k = "goto" /\ list[i].label = label
  \/ "body" \in DOMAIN list[i] /\ HasGoto(list[i].body, label)

GotoTargets(list) == UNION {
  IF list[i].k = "goto" THEN {list[i].label}
  ELSE IF "body" \in DOMAIN list[i] THEN GotoTargets(list[i].body) ELSE {} : i \in DOMAIN list}

\* goto_state_plan_for_stmt_list: some statement of the list is the target of a
\* goto in it.
HasPlan(list) == \E i \in DOMAIN list : GoLabel(list[i]) \in GotoTargets(list)

ForLoop(s, gotos, path) ==
  LET tail == WithIterationTail(LowerList(s.body, NoLabel, gotos, path), s.label, s.post, path)
  IN  Block(NoLabel, <<[k |-> "while", label |-> tail.label, body |-> tail.body]>>)

\* compile_non_fallthrough_switch, one clause.
Switch(s, gotos, path) ==
  LET label == path \o <<"switch">>
  IN  Block(label, <<If(LowerList(s.body, label, gotos, path))>>)

\* compile_select_stmt, two communications; the first has the body.
Select(s, gotos, path) ==
  LET label == path \o <<"select">>
      leave == <<Jump("break", NoLabel)>>
  IN  Block(label, <<[k |-> "loop", label |-> NoLabel,
        body |-> <<If(LowerList(s.body, label, gotos, path) \o leave), If(leave)>>]>>)

\* A labelled statement that holds a goto to itself is a loop that runs once.
LabeledBlock(s, body) ==
  IF HasGoto(s.body, s.label)
  THEN [k |-> "loop", label |-> s.label, body |-> Append(body, Jump("break", NoLabel))]
  ELSE Block(s.label, body)

\* compile_state_jump
StateJump(state) == <<[k |-> "set", var |-> state.machine, n |-> state.n], Jump("continue", state.machine)>>

Lower(s, brk, gotos, path) ==
  CASE s.k = "mark" -> <<s>>
    [] s.k = "break" /\ s.label = NoLabel -> <<Jump("break", brk)>>
    [] s.k = "continue" \/ (s.k = "break" /\ s.label # NoLabel) -> <<s>>
    [] s.k = "goto" -> IF s.label \in DOMAIN gotos THEN StateJump(gotos[s.label]) ELSE <<>>
    [] s.k = "if" -> <<If(LowerList(s.body, brk, gotos, path))>>
    [] s.k = "for" -> <<ForLoop(s, gotos, path)>>
    [] s.k = "range" ->
         LET loop == RangeForLoop(LowerList(s.body, NoLabel, gotos, path), path)
         IN  IF s.label = NoLabel THEN <<loop>> ELSE <<LabeledBlock(s, <<loop>>)>>
    [] s.k = "labeled" -> <<LabeledBlock(s, LowerList(s.body, NoLabel, gotos, path))>>
    [] s.k = "switch" -> <<Switch(s, gotos, path)>>
    [] s.k = "select" -> <<Select(s, gotos, path)>>

\* Mutant: a segment that ends leaves the machine.
GotoTailLeaves(i, n, machine) == <<Jump("break", machine)>>

\* goto_state_tail: a segment goes on with the next one.
GotoTail(i, n, machine) ==
  IF i < n THEN StateJump([machine |-> machine, n |-> i + 1]) ELSE <<Jump("break", machine)>>

\* compile_goto_state_stmt_list_with: each label begins a segment, the segments
\* are the states of a machine, and a goto sets the state.
GotoMachine(list, brk, gotos, path) ==
  LET machine  == path \o <<"goto">>
      Labels   == {i \in DOMAIN list : GoLabel(list[i]) # NoLabel}
      Segment(i) == 1 + Cardinality({j \in Labels : j <= i})
      count    == 1 + Cardinality(Labels)
      States   == [l \in DOMAIN gotos \cup {GoLabel(list[j]) : j \in Labels} |->
                     IF \E j \in Labels : GoLabel(list[j]) = l
                     THEN [machine |-> machine,
                           n |-> Segment(CHOOSE j \in Labels : GoLabel(list[j]) = l)]
                     ELSE gotos[l]]
      Stmts(n) == FlattenSeq([i \in DOMAIN list |->
                    IF Segment(i) = n THEN Lower(list[i], brk, States, Append(path, i)) ELSE <<>>])
  IN  <<Block(NoLabel,
          <<[k |-> "set", var |-> machine, n |-> 1],
            [k |-> "loop", label |-> machine,
             body |-> <<[k |-> "match", var |-> machine,
                         arms |-> [n \in 1 .. count |-> Stmts(n) \o GotoTail(n, count, machine)]]>>]>>)>>

LowerList(list, brk, gotos, path) ==
  IF HasPlan(list) THEN GotoMachine(list, brk, gotos, path)
  ELSE FlattenSeq([i \in DOMAIN list |-> Lower(list[i], brk, gotos, Append(path, i))])

-----------------------------------------------------------------------------
Init ==
  /\ go \in Programs
  /\ bits \in Inputs
  /\ rust = <<>>

Compile ==
  /\ rust = <<>>
  /\ rust' = LowerList(go, NoLabel, NoGotos, <<>>)
  /\ UNCHANGED <<go, bits>>

Next == Compile
Spec == Init /\ [][Next]_vars

\* rustc accepts every lowered program.
Accepted == rust # <<>> => RustAccepts(rust, <<>>)

\* A lowered program does what the Go program does: the same statements in
\* the same order, the post statement of every iteration included.
SameRun ==
  rust # <<>> /\ RustAccepts(rust, <<>>) =>
    LET g == GoList(go, Start(bits))
        r == RustList(rust, Start(bits))
    IN  g.trace = r.trace /\ g.sig = r.sig
=============================================================================
