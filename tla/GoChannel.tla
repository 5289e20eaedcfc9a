------------------------------ MODULE GoChannel ------------------------------
(***************************************************************************)
(* What a channel promises to a Go program, whatever implements it: values *)
(* are accepted one at a time while the channel is open and has room, each *)
(* accepted value is handed out once, in the order of acceptance, and a    *)
(* closed channel accepts nothing more but still hands out what it holds.  *)
(* For an unbuffered channel the accepted values that are not yet taken    *)
(* are those of the senders blocked on it.                                 *)
(***************************************************************************)
EXTENDS Naturals, Sequences

CONSTANTS Chans, Values, Capacity

VARIABLES
  log,     \* log[c]: every value accepted, in order
  taken,   \* taken[c]: how many of them have been handed out
  closed   \* closed[c]

vars == <<log, taken, closed>>

Init ==
  /\ log = [c \in Chans |-> <<>>]
  /\ taken = [c \in Chans |-> 0]
  /\ closed = [c \in Chans |-> FALSE]

HasRoom(c) == Capacity[c] = 0 \/ Len(log[c]) - taken[c] < Capacity[c]

\* A send names its own value: the same one is never accepted twice.
Fresh(v) == \A c \in Chans : \A i \in 1..Len(log[c]) : log[c][i] # v

Accept(c, v) ==
  /\ ~closed[c] /\ HasRoom(c) /\ Fresh(v)
  /\ log' = [log EXCEPT ![c] = Append(@, v)]
  /\ UNCHANGED <<taken, closed>>

HandOut(c) ==
  /\ taken[c] < Len(log[c])
  /\ taken' = [taken EXCEPT ![c] = @ + 1]
  /\ UNCHANGED <<log, closed>>

Close(c) ==
  /\ ~closed[c]
  /\ closed' = [closed EXCEPT ![c] = TRUE]
  /\ UNCHANGED <<log, taken>>

Next == \E c \in Chans :
  \/ \E v \in Values : Accept(c, v)
  \/ HandOut(c)
  \/ Close(c)

Spec == Init /\ [][Next]_vars
=============================================================================
