------------------------------- MODULE Select -------------------------------
(***************************************************************************)
(* Select statements, as compile_select_stmt lowers them onto Chan.        *)
(*                                                                         *)
(* One communication without a default becomes that blocking operation,    *)
(* one with a default a single try, and two or more a loop that tries the  *)
(* communications in source order, each in a critical section of its own,  *)
(* and then runs the default or yields and starts again.  The body of the  *)
(* chosen clause is ordinary code and belongs to the program.              *)
(***************************************************************************)
EXTENDS Chan

CONSTANTS
  Selectors,  \* the goroutines whose program executes selects
  Selects,    \* the selects: [arms: sequence of [dir, chan], default: BOOLEAN]
  None        \* no select

ASSUME SelectAssumption ==
  /\ Selectors \subseteq Goroutines
  /\ None \notin Selects
  /\ \A s \in Selects :
       /\ s.default \in BOOLEAN
       /\ s.arms \in Seq([dir : {"send", "recv"}, chan : Handles])

VARIABLES
  stmt,    \* stmt[g]: the select g is trying, or None
  arm,     \* arm[g]: the communication g tries next; one past the last when
           \* all have failed
  missed   \* history: the arms of stmt[g] unready at some instant since the
           \* select began

selectVars == <<stmt, arm, missed>>
allVars == <<vars, selectVars>>

SelectInit ==
  /\ Init
  /\ stmt = [g \in Goroutines |-> None]
  /\ arm = [g \in Goroutines |-> 0]
  /\ missed = [g \in Goroutines |-> {}]

-----------------------------------------------------------------------------
(* What a Go program takes for ready: a value or the end of the stream to  *)
(* receive; room in an open buffered channel, or a receiver blocked on an  *)
(* unbuffered one, to send.                                                *)

Ready(a) ==
  /\ a.chan # Nil
  /\ \/ a.dir = "recv" /\ (buf[a.chan] # <<>> \/ closed[a.chan])
     \/ /\ a.dir = "send" /\ ~closed[a.chan]
        /\ \/ Capacity[a.chan] > 0 /\ ~Full(a.chan)
           \/ Capacity[a.chan] = 0 /\ Len(buf[a.chan]) < Cardinality(At(a.chan, {"rx_wait"}))

Unready(g) == {i \in DOMAIN stmt[g].arms : ~Ready(stmt[g].arms[i])}

\* The history follows every step of the system.
Observe ==
  missed' = [g \in Goroutines |->
       IF stmt'[g] = None THEN {} ELSE missed[g] \cup Unready(g)']

-----------------------------------------------------------------------------
Try(g, s, i) == stmt' = [stmt EXCEPT ![g] = s] /\ arm' = [arm EXCEPT ![g] = i]
Choose(g) == Try(g, None, 0)

\* Mutant: the loop starts at the second communication.
BeginAtSecond(g, s) ==
  /\ pc[g] = "run" /\ stmt[g] = None
  /\ Len(s.arms) > 1
  /\ Try(g, s, 2) /\ UNCHANGED vars

\* Bound: a select with a send starts only if MaxSends leaves it one.
Affordable(g, s) ==
  (\E i \in DOMAIN s.arms : s.arms[i].dir = "send") => sends[g] < MaxSends

\* A select starts: no communication leaves the default or a park, a single
\* one without default is the blocking operation itself.
Begin(g, s) ==
  /\ pc[g] = "run" /\ stmt[g] = None /\ Affordable(g, s)
  /\ \/ /\ s.arms = <<>>
        /\ IF s.default THEN UNCHANGED vars ELSE Park(g) /\ UNCHANGED sends
        /\ UNCHANGED <<stmt, arm>>
     \/ /\ Len(s.arms) = 1 /\ ~s.default
        /\ IF s.arms[1].dir = "send" THEN Send(g, s.arms[1].chan)
                                     ELSE Recv(g, s.arms[1].chan)
        /\ UNCHANGED <<stmt, arm>>
     \/ /\ Len(s.arms) > 1 \/ (Len(s.arms) = 1 /\ s.default)
        /\ Try(g, s, 1) /\ UNCHANGED vars

Polling(g) == pc[g] = "run" /\ stmt[g] # None

\* Mutant: a closed and drained channel counts as Empty.
PollClosedAsEmpty(g, a) ==
  IF a.dir = "recv"
  THEN IF a.chan # Nil /\ buf[a.chan] # <<>>
       THEN TryRecv(g, a.chan) /\ Choose(g)
       ELSE UNCHANGED vars /\ Try(g, stmt[g], arm[g] + 1)
  ELSE TrySend(g, a.chan) /\ IF TrySendRefused(a.chan)
                             THEN Try(g, stmt[g], arm[g] + 1)
                             ELSE Choose(g)

\* try_recv_with_ok(..).is_some() or try_send(..).is_ok() chooses the arm.
PollArm(g, a) ==
  IF a.dir = "recv"
  THEN TryRecv(g, a.chan) /\ IF a.chan # Nil /\ (buf[a.chan] # <<>> \/ closed[a.chan])
                             THEN Choose(g)
                             ELSE Try(g, stmt[g], arm[g] + 1)
  ELSE TrySend(g, a.chan) /\ IF TrySendRefused(a.chan)
                             THEN Try(g, stmt[g], arm[g] + 1)
                             ELSE Choose(g)

Poll(g) ==
  /\ Polling(g) /\ arm[g] \in DOMAIN stmt[g].arms
  /\ PollArm(g, stmt[g].arms[arm[g]])

\* Every arm has failed: the default, or yield_now and the first arm again.
Fallback(g) ==
  /\ Polling(g) /\ arm[g] \notin DOMAIN stmt[g].arms
  /\ IF stmt[g].default THEN Choose(g) ELSE Try(g, stmt[g], 1)
  /\ UNCHANGED vars

-----------------------------------------------------------------------------
SelectStep(g) ==
  \/ \E s \in Selects : g \in Selectors /\ Begin(g, s)
  \/ Poll(g)
  \/ Fallback(g)

ChanStep(g) ==
  /\ \/ stmt[g] = None /\ Call(g)
     \/ Continue(g)
     \/ SpuriousWakeup(g)
  /\ UNCHANGED <<stmt, arm>>

SelectNext == \E g \in Goroutines : (SelectStep(g) \/ ChanStep(g)) /\ Observe

\* A polling goroutine is a running thread: it goes on polling.
SelectFairness == \A g \in Goroutines :
  /\ WF_allVars(Continue(g) /\ UNCHANGED <<stmt, arm>> /\ Observe)
  /\ WF_allVars((Poll(g) \/ Fallback(g)) /\ Observe)

SelectSpec == SelectInit /\ [][SelectNext]_allVars
FairSelectSpec == SelectSpec /\ SelectFairness

-----------------------------------------------------------------------------
(* Properties.                                                             *)

\* The clause of g is chosen in this step; arm[g] says which.
Chosen(g) == stmt[g] # None /\ stmt'[g] = None

\* A later clause or the default is chosen only after every earlier
\* communication has been found unready at some instant of this select.
EarlierArmsMissed ==
  [][\A g \in Goroutines : Chosen(g) => 1..(arm[g] - 1) \subseteq missed[g]]_allVars

ReceivesFrom(g, c) == \E i \in DOMAIN stmt[g].arms : stmt[g].arms[i] = [dir |-> "recv", chan |-> c]
\* A select that can receive from a closed channel does not wait forever.
CloseEndsSelect ==
  \A g \in Goroutines : \A c \in Chans :
    (stmt[g] # None /\ ReceivesFrom(g, c) /\ closed[c]) ~> (stmt[g] = None)

=============================================================================
