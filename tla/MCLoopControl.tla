---------------------------- MODULE MCLoopControl ----------------------------
(* Go programs for LoopControl: a loop around two levels of statements.    *)
EXTENDS LoopControl, TLC

L == <<"L">>
Mark(n) == [k |-> "mark", n |-> n]
Wrap(k, label, body) == [k |-> k, label |-> label, post |-> FALSE, body |-> body]
For(label, post, body) == [k |-> "for", label |-> label, post |-> post, body |-> body]

Jumps == {Jump(k, l) : k \in {"break", "continue"}, l \in {NoLabel, L}}
PlainJumps == {Jump(k, NoLabel) : k \in {"break", "continue"}}

\* A body: something, then a mark; or a jump under a condition first.
Around(s) == {<<s, Mark("a")>>, <<If(<<s>>), Mark("b")>>}

\* The constructs that may stand around a body.
Frames(body) == {If(body), Wrap("switch", NoLabel, body), Wrap("range", NoLabel, body),
                 For(NoLabel, FALSE, body), For(NoLabel, TRUE, body)}
Selects(body) == {Wrap("select", NoLabel, body)}

Level1 == UNION {UNION {Frames(b) : b \in Around(j)} : j \in Jumps}
Level2 == UNION {UNION {Frames(b) : b \in {<<s, Mark("c")>>}} : s \in Level1}

Outer(s) == {<<For(L, TRUE, <<s, Mark("d")>>)>>, <<For(L, FALSE, <<s, Mark("d")>>)>>}
NestedLoops == UNION {Outer(s) : s \in Level1 \cup Level2}

\* The same without a label, and a range around it.
PlainLevel1 == UNION {UNION {Frames(b) : b \in Around(j)} : j \in PlainJumps}
PlainLevel2 == UNION {UNION {Frames(b) : b \in {<<s, Mark("c")>>}} : s \in PlainLevel1}
UnlabeledLoops ==
  UNION {{<<For(NoLabel, TRUE, <<s, Mark("d")>>)>>, <<For(NoLabel, FALSE, <<s, Mark("d")>>)>>,
          <<Wrap("range", NoLabel, <<s, Mark("d")>>)>>} : s \in PlainLevel1 \cup PlainLevel2}

LoopPrograms == NestedLoops \cup UnlabeledLoops

\* A select in a loop, left by a break or a labelled jump.
SelectPrograms == UNION {Outer(Wrap("select", NoLabel, b)) :
  b \in UNION {Around(j) : j \in Jumps \ {Jump("continue", NoLabel)}}}

SelectContinue == {<<For(NoLabel, TRUE, <<Wrap("select", NoLabel, <<Jump("continue", NoLabel)>>), Mark("d")>>)>>}

\* Gotos to the labels G and H, forward from anywhere and backward under a
\* condition.
G == <<"G">>
H == <<"H">>
Goto(label) == [k |-> "goto", label |-> label]
GotoIf(label) == If(<<Goto(label)>>)
Labeled(label, s) == Wrap("labeled", label, <<s>>)
InFrames == UNION {Frames(b) \cup Selects(b) : b \in {<<GotoIf(G), Mark("g")>>}}
DeepInFrames == UNION {Frames(<<s, Mark("h")>>) : s \in InFrames}

\* A body that is a machine of its own, with a way out to G.
InMachine == UNION {Frames(b) : b \in {<<Labeled(H, Mark("h")), GotoIf(H), GotoIf(G), Mark("g")>>,
                                        <<GotoIf(H), Mark("g"), GotoIf(G), Labeled(H, Mark("h"))>>}}

Sources == InFrames \cup InMachine \cup {If(<<Mark("g"), Goto(G)>>)}
Targets == {Labeled(G, Mark("t")), For(G, TRUE, <<Mark("t")>>),
            For(G, FALSE, <<If(<<Jump("break", G)>>), Mark("t")>>)}

GotoLists ==
  {<<Mark("a"), s, Mark("b"), t, Mark("c")>> : s \in Sources \cup DeepInFrames \cup {Goto(G)}, t \in Targets}
    \cup {<<Mark("a"), t, Mark("b"), s, Mark("c")>> : s \in Sources \cup DeepInFrames, t \in Targets}
    \cup {<<Mark("a"), Labeled(G, s), Mark("c")>> : s \in Sources}

\* The lists as functions, and inside a switch and a select that are left.
GotoPrograms == GotoLists
  \cup {<<Wrap(k, NoLabel, Append(l, If(<<Jump("break", NoLabel)>>))), Mark("e")>> :
          k \in {"switch", "select"}, l \in GotoLists}

PassingPrograms == LoopPrograms \cup SelectPrograms \cup GotoPrograms
SixBits == [1..6 -> {0, 1}]
=============================================================================
