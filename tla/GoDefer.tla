------------------------------- MODULE GoDefer -------------------------------
(***************************************************************************)
(* What Go promises of defer, panic and recover: the reference that the    *)
(* generated code is compared with.  GoRun executes a function of a        *)
(* program and returns what it logs and the panic that leaves it.          *)
(***************************************************************************)
EXTENDS Naturals, Sequences

CONSTANT NoPanic

RECURSIVE GoRun(_, _, _), GoBody(_, _, _, _), GoDefers(_, _, _)

\* Execution of the body of f from statement i: st is the log so far, the
\* deferred calls, the panic of the frame that f was deferred by (the one a
\* recover written in f stops) and f's own panic.
GoBody(prog, f, i, st) ==
  IF st.panic # NoPanic \/ i > Len(prog.body[f]) THEN st
  ELSE LET s == prog.body[f][i]
           callee == GoRun(prog, s.fn, NoPanic)
       IN  GoBody(prog, f, i + 1,
             CASE s.op = "recover" ->
                    [st EXCEPT !.log = Append(@, <<f, i, st.above>>), !.above = NoPanic]
               [] s.op \in {"panic", "fault"} ->
                    [st EXCEPT !.log = Append(@, <<f, i, NoPanic>>), !.panic = <<f, i>>]
               [] s.op = "defer" ->
                    [st EXCEPT !.log = Append(@, <<f, i, NoPanic>>), !.defers = <<s.fn>> \o @]
               [] s.op = "call" ->
                    [st EXCEPT !.log = Append(@, <<f, i, NoPanic>>) \o callee.log,
                               !.panic = callee.panic])

\* The deferred calls, last in first out, whatever they do themselves: a panic
\* of one replaces the panic under way.
GoDefers(prog, defers, st) ==
  IF defers = <<>> THEN st
  ELSE LET r == GoRun(prog, Head(defers), st.panic)
       IN  GoDefers(prog, Tail(defers),
             [st EXCEPT !.log = @ \o r.log,
                        !.panic = IF r.panic # NoPanic THEN r.panic ELSE r.above])

GoRun(prog, f, above) ==
  LET st == GoBody(prog, f, 1, [log |-> <<>>, defers |-> <<>>, above |-> above,
                                panic |-> NoPanic])
  IN  GoDefers(prog, st.defers, st)
=============================================================================
