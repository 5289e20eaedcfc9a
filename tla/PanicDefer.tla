----------------------------- MODULE PanicDefer -----------------------------
(***************************************************************************)
(* defer, panic and recover in generated programs.                         *)
(*                                                                         *)
(* A function with a defer statement owns a stack of deferred calls whose  *)
(* Drop runs them and then re-raises what RECOVER_PAYLOAD still holds.  If *)
(* it returns nothing, its body runs inside catch_unwind, which stores the *)
(* payload of a panic, and a panic written in that body stores its value   *)
(* and returns.  RECOVER_PAYLOAD is one global slot for all threads, and   *)
(* recover takes whatever is in it.                                        *)
(***************************************************************************)
EXTENDS Naturals, Sequences, SequencesExt

CONSTANTS
  Goroutines,
  Main,      \* the goroutine whose unrecovered panic ends the process
  Fns,       \* the functions of a program
  Entry,     \* Entry[g]: the function that g runs
  Programs,  \* the programs considered: [body, void], see ProgramsOK
  NoPanic    \* no panic value, and the nil that recover returns without one

Ops == {"call", "defer", "panic", "fault", "recover"}

\* void[f]: f has no results.  "fault" is an implicit run-time panic, raised
\* below the generated code; "panic" is the built-in, lowered by it.
ASSUME ProgramsOK ==
  /\ Main \in Goroutines
  /\ Entry \in [Goroutines -> Fns]
  /\ NoPanic \notin Fns \X Nat
  /\ \A p \in Programs :
       /\ p.void \in [Fns -> BOOLEAN]
       /\ \A f \in Fns : \A i \in 1..Len(p.body[f]) :
            p.body[f][i].op \in Ops /\ p.body[f][i].fn \in Fns

VARIABLES
  prog,     \* the program
  stack,    \* stack[g]: the frames of g, innermost last
  raising,  \* raising[g]: the payload of the unwinding under way, or NoPanic
  payload,  \* RECOVER_PAYLOAD
  status,   \* of the process: "running", "exited", "crashed" or "aborted"
  log       \* history: log[g] is what g executed: <<function, statement, the
            \* value a recover returned>>

vars == <<prog, stack, raising, payload, status, log>>

Stmt(f, i) == prog.body[f][i]
HasDefer(f) == \E i \in 1..Len(prog.body[f]) : Stmt(f, i).op = "defer"
\* wrap_void_defer_body_in_unwind_catch and PanicReturnsThroughDeferGuard.
Caught(f) == HasDefer(f) /\ prog.void[f]

\* A frame: its function, its next statement, its deferred calls, whether its
\* defer stack is being dropped, and the unwinding that drops it, if any.
Frame(f) == [fn |-> f, pc |-> 1, defers |-> <<>>, dropping |-> FALSE, unwind |-> NoPanic]

Init ==
  /\ prog \in Programs
  /\ stack = [g \in Goroutines |-> <<Frame(Entry[g])>>]
  /\ raising = [g \in Goroutines |-> NoPanic]
  /\ payload = NoPanic
  /\ status = "running"
  /\ log = [g \in Goroutines |-> <<>>]

Top(g) == Last(stack[g])
Below(g) == Front(stack[g])
SetTop(g, frame) == stack' = [stack EXCEPT ![g] = Append(Below(g), frame)]
Enter(g, frame, f) == stack' = [stack EXCEPT ![g] = Append(Below(g), frame) \o <<Frame(f)>>]
PopFrame(g) == stack' = [stack EXCEPT ![g] = Below(g)]
Raise(g, v) == raising' = [raising EXCEPT ![g] = v]

\* The innermost frame runs: g is alive and not unwinding.
Running(g) == status = "running" /\ stack[g] # <<>> /\ raising[g] = NoPanic
Unwinding(g) == status = "running" /\ stack[g] # <<>> /\ raising[g] # NoPanic

-----------------------------------------------------------------------------
(* The body of a function.                                                 *)

AtStmt(g, op) ==
  /\ Running(g) /\ ~Top(g).dropping /\ Top(g).pc \in 1..Len(prog.body[Top(g).fn])
  /\ Stmt(Top(g).fn, Top(g).pc).op = op
  /\ UNCHANGED <<prog, status>>

Log(g, v) == log' = [log EXCEPT ![g] = Append(@, <<Top(g).fn, Top(g).pc, v>>)]
Next1(g) == [Top(g) EXCEPT !.pc = @ + 1]
Callee(g) == Stmt(Top(g).fn, Top(g).pc).fn
Site(g) == <<Top(g).fn, Top(g).pc>>

Call(g) ==
  /\ AtStmt(g, "call")
  /\ Enter(g, Next1(g), Callee(g))
  /\ Log(g, NoPanic) /\ UNCHANGED <<raising, payload>>

\* Mutant: the deferred calls are kept in a queue.
DeferFirst(g) ==
  /\ AtStmt(g, "defer")
  /\ SetTop(g, [Next1(g) EXCEPT !.defers = <<Callee(g)>> \o @])
  /\ Log(g, NoPanic) /\ UNCHANGED <<raising, payload>>

\* __gors_defer_stack.0.push
Defer(g) ==
  /\ AtStmt(g, "defer")
  /\ SetTop(g, [Next1(g) EXCEPT !.defers = Append(@, Callee(g))])
  /\ Log(g, NoPanic) /\ UNCHANGED <<raising, payload>>

\* compile_panic_builtin: set_recover_payload and return, or panic_value.
Panic(g) ==
  /\ AtStmt(g, "panic")
  /\ IF Caught(Top(g).fn)
     THEN payload' = Site(g) /\ SetTop(g, [Next1(g) EXCEPT !.dropping = TRUE])
                             /\ UNCHANGED raising
     ELSE Raise(g, Site(g)) /\ UNCHANGED <<payload, stack>>
  /\ Log(g, NoPanic)

Fault(g) ==
  /\ AtStmt(g, "fault")
  /\ Raise(g, Site(g))
  /\ Log(g, NoPanic) /\ UNCHANGED <<payload, stack>>

\* recover takes the payload of the slot.
Recover(g) ==
  /\ AtStmt(g, "recover")
  /\ payload' = NoPanic
  /\ SetTop(g, Next1(g))
  /\ Log(g, payload) /\ UNCHANGED raising

Return(g) ==
  /\ Running(g) /\ ~Top(g).dropping /\ Top(g).pc > Len(prog.body[Top(g).fn])
  /\ IF HasDefer(Top(g).fn)
     THEN SetTop(g, [Top(g) EXCEPT !.dropping = TRUE])
     ELSE PopFrame(g)
  /\ UNCHANGED <<prog, raising, payload, status, log>>

-----------------------------------------------------------------------------
(* Drop for __GorsDeferStack.                                              *)

RunDeferred(g) ==
  /\ Running(g) /\ Top(g).dropping /\ Top(g).defers # <<>>
  /\ Enter(g, [Top(g) EXCEPT !.defers = Front(@)], Last(Top(g).defers))
  /\ UNCHANGED <<prog, raising, payload, status, log>>

\* Mutant: the defer stack forgets to re-raise.
EndDropSwallows(g) ==
  /\ Running(g) /\ Top(g).dropping /\ Top(g).defers = <<>>
  /\ PopFrame(g) /\ Raise(g, Top(g).unwind)
  /\ UNCHANGED <<prog, payload, status, log>>

\* resume_unrecovered_panic; a Drop that panics while unwinding aborts, and
\* one that does not lets the unwinding go on.
EndDrop(g) ==
  /\ Running(g) /\ Top(g).dropping /\ Top(g).defers = <<>>
  /\ payload' = NoPanic
  /\ IF payload # NoPanic /\ Top(g).unwind # NoPanic
     THEN status' = "aborted" /\ UNCHANGED <<stack, raising>>
     ELSE /\ PopFrame(g)
          /\ Raise(g, IF payload # NoPanic THEN payload ELSE Top(g).unwind)
          /\ UNCHANGED status
  /\ UNCHANGED <<prog, log>>

-----------------------------------------------------------------------------
(* Unwinding meets the innermost frame.                                    *)

Unwind(g) ==
  /\ Unwinding(g)
  /\ LET f == Top(g).fn
     IN  \/ \* catch_unwind, then set_recover_payload_box
            /\ ~Top(g).dropping /\ Caught(f)
            /\ payload' = raising[g] /\ Raise(g, NoPanic)
            /\ SetTop(g, [Top(g) EXCEPT !.dropping = TRUE])
            /\ UNCHANGED status
         \/ \* the defer stack is dropped by the unwinding
            /\ ~Top(g).dropping /\ HasDefer(f) /\ ~Caught(f)
            /\ Raise(g, NoPanic)
            /\ SetTop(g, [Top(g) EXCEPT !.dropping = TRUE, !.unwind = raising[g]])
            /\ UNCHANGED <<payload, status>>
         \/ \* a frame without a defer stack
            /\ ~Top(g).dropping /\ ~HasDefer(f)
            /\ PopFrame(g) /\ UNCHANGED <<raising, payload, status>>
         \/ \* a deferred call panicked: the ones left are dropped, not run
            /\ Top(g).dropping /\ Top(g).unwind = NoPanic
            /\ PopFrame(g) /\ UNCHANGED <<raising, payload, status>>
         \/ \* a deferred call panicked while unwinding
            /\ Top(g).dropping /\ Top(g).unwind # NoPanic
            /\ status' = "aborted" /\ UNCHANGED <<stack, raising, payload>>
  /\ UNCHANGED <<prog, log>>

\* The process ends with main, by its return or by the panic that leaves it;
\* a panic that leaves the closure of thread::spawn ends that thread only.
Exit ==
  /\ status = "running" /\ stack[Main] = <<>>
  /\ status' = IF raising[Main] = NoPanic THEN "exited" ELSE "crashed"
  /\ UNCHANGED <<prog, stack, raising, payload, log>>

Step(g) ==
  \/ Call(g) \/ Defer(g) \/ Panic(g) \/ Fault(g) \/ Recover(g) \/ Return(g)
  \/ RunDeferred(g) \/ EndDrop(g) \/ Unwind(g)

Next == Exit \/ \E g \in Goroutines : Step(g)

Spec == Init /\ [][Next]_vars

-----------------------------------------------------------------------------
(* Properties.                                                             *)

\* No panic is lost: a process that ends well has recovered the panic raised
\* last, whatever its deferred functions did and whoever returns a value.
PanicsSurface ==
  status = "exited" =>
    LET raised == {i \in DOMAIN log[Main] :
                     Stmt(log[Main][i][1], log[Main][i][2]).op \in {"panic", "fault"}}
        newest == CHOOSE i \in raised : \A j \in raised : j <= i
    IN  raised # {} => \E i \in DOMAIN log[Main] :
                         log[Main][i][3] = <<log[Main][newest][1], log[Main][newest][2]>>

=============================================================================
