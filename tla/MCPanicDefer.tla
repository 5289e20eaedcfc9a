---------------------------- MODULE MCPanicDefer ----------------------------
(* Programs for PanicDefer: every program of a class, up to a size.        *)
EXTENDS PanicDefer, TLC

CONSTANTS g1, g2

Go == INSTANCE GoDefer

OneGoroutine == {g1}
TwoGoroutines == {g1, g2}

Do(op) == [op |-> op, fn |-> 1]
To(op, f) == [op |-> op, fn |-> f]

Bodies(stmts, n) == UNION {[1..k -> stmts] : k \in 0..n}

\* Functions 1 to 4; 1 calls 2 and 3 or defers 3 and 4, 2 and 3 likewise
\* further down, so that nothing is recursive.
FourFns == 1..4
EntryOne == [g \in Goroutines |-> 1]
EntryEach == [g \in Goroutines |-> IF g = g1 THEN 1 ELSE 2]
AllVoid == [f \in FourFns |-> TRUE]

Program(b1, b2, b3, b4, void) == [body |-> <<b1, b2, b3, b4>>, void |-> void]

Panics == {Do("panic"), Do("fault")}

\* Bodies up to three statements around deferred functions that recover.
RecoverPrograms ==
  {Program(b1, b2, b3, b4, AllVoid) :
     b1 \in Bodies({Do("panic"), To("call", 2), To("defer", 3), To("defer", 4)}, 3),
     b2 \in Bodies(Panics \cup {To("defer", 3), To("defer", 4)}, 2),
     b3 \in {<<>>, <<Do("recover")>>, <<Do("recover"), Do("recover")>>},
     b4 \in {<<>>, <<Do("recover")>>}}

\* Anything goes: function 2 may return a value, deferred functions may
\* defer, panic and recover.
WildPrograms ==
  {Program(b1, b2, b3, b4, [AllVoid EXCEPT ![2] = v2]) :
     b1 \in Bodies({Do("panic"), To("call", 2), To("defer", 3)}, 2),
     b2 \in Bodies({Do("panic"), To("call", 3), To("defer", 3), To("defer", 4)}, 2),
     b3 \in Bodies({Do("fault"), Do("recover"), To("defer", 4)}, 2),
     b4 \in {<<>>, <<Do("panic")>>, <<Do("recover")>>},
     v2 \in BOOLEAN}

MixedPrograms == RecoverPrograms \cup WildPrograms

\* The programs on which the lowering is meant to keep Go's order: no function
\* with results is called where a defer could see the difference, and what is
\* deferred only recovers.
Deferred(p) == {s.fn : s \in {t \in UNION {Range(p.body[f]) : f \in Fns} : t.op = "defer"}}
Tame(p) ==
  /\ \A f \in Fns : p.void[f]
  /\ \A f \in Deferred(p) : \A s \in Range(p.body[f]) : s.op = "recover"
  /\ \A f \in Fns \ Deferred(p) : \A s \in Range(p.body[f]) : s.op # "recover"

\* What the generated program shows is what Go prescribes: the same
\* statements in the same order, the same values recovered, the same end
\* (spec.json: "panic and recover follow deferred recovery semantics").
AgreesWithGo ==
  Goroutines = {Main} /\ status # "running" =>
    LET go == Go!GoRun(prog, Entry[Main], NoPanic)
    IN  /\ log[Main] = go.log
        /\ status = IF go.panic = NoPanic THEN "exited" ELSE "crashed"
        /\ raising[Main] = go.panic

\* On tame programs the generated code agrees with Go.
TameAgreesWithGo == status # "running" /\ Tame(prog) => AgreesWithGo

=============================================================================
