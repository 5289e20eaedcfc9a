-------------------------------- MODULE Chan --------------------------------
(***************************************************************************)
(* The channel runtime of generated programs: gors-builtin's Chan<T>.      *)
(*                                                                         *)
(* A channel is a mutex around {buf, capacity, closed} with two condition  *)
(* variables, rx_cv for receivers and tx_cv for senders.  Goroutines are   *)
(* OS threads.  One action is one critical section: nothing else can be    *)
(* seen while the mutex is held, so a notify made under it belongs to the  *)
(* same action.  try_send and try_recv unlock first and notify afterwards, *)
(* which is an action of its own.  A condition variable may also wake a    *)
(* waiter that nobody notified.                                            *)
(***************************************************************************)
EXTENDS Naturals, Sequences, FiniteSets

CONSTANTS
  Goroutines,  \* the threads that share the channels
  Senders,     \* the goroutines whose program sends (a chan<- T in hand)
  Receivers,   \* the goroutines whose program receives
  Chans,       \* the channels made with make(chan T, n)
  Nil,         \* the handle of a nil channel (Chan { inner: None })
  Capacity,    \* the capacity of each channel, 0 for an unbuffered one
  MaxSends     \* bound: sends (and try_sends that succeed) per goroutine

ASSUME ChanAssumption ==
  /\ Nil \notin Chans
  /\ Capacity \in [Chans -> Nat]
  /\ MaxSends \in Nat
  /\ IsFiniteSet(Goroutines)
  /\ Senders \subseteq Goroutines
  /\ Receivers \subseteq Goroutines

VARIABLES
  buf,     \* buf[c]: the queue of values (ChanInner.buf)
  closed,  \* closed[c]: ChanInner.closed
  pc,      \* pc[g]: where goroutine g stands in a channel operation
  at,      \* at[g]: the channel of g's latest operation
  asleep,  \* the goroutines in a condition variable's wait set
  sends,   \* sends[g]: how many sends g has started; numbers its values
  sent,    \* history: sent[c] is every value pushed on c, in order
  rcvd     \* history: rcvd[c] is every value popped from c, in order

chanVars == <<buf, closed, sent, rcvd>>
vars == <<buf, closed, pc, at, asleep, sends, sent, rcvd>>

Values == Goroutines \X (1..MaxSends)

\* Program points: "run" is outside any channel operation; the *_wait points
\* are the three condition variable waits, entered by putting the goroutine
\* asleep and left by taking the mutex again once it is awake; the *_notify
\* points follow the unlock of try_send and try_recv; a goroutine parked on a
\* nil channel or killed by "close of nil channel" never moves again.
Points == {"run", "tx_wait", "rv_wait", "rx_wait", "rx_notify", "tx_notify",
           "parked", "panicked"}

Init ==
  /\ buf = [c \in Chans |-> <<>>]
  /\ closed = [c \in Chans |-> FALSE]
  /\ pc = [g \in Goroutines |-> "run"]
  /\ at = [g \in Goroutines |-> Nil]
  /\ asleep = {}
  /\ sends = [g \in Goroutines |-> 0]
  /\ sent = [c \in Chans |-> <<>>]
  /\ rcvd = [c \in Chans |-> <<>>]

-----------------------------------------------------------------------------
(* Wait sets and notification.                                             *)

At(c, points) == {g \in Goroutines : at[g] = c /\ pc[g] \in points}

RxWaiters(c) == At(c, {"rx_wait"}) \cap asleep
TxWaiters(c) == At(c, {"tx_wait", "rv_wait"}) \cap asleep

\* Mutant: the notification is forgotten.
NotifyNobody(waiters) == {{}}

\* The possible sets of goroutines that one notify_one on a wait set wakes.
NotifyOne(waiters) == IF waiters = {} THEN {{}} ELSE {{g} : g \in waiters}

Full(c) == Capacity[c] > 0 /\ Len(buf[c]) >= Capacity[c]

-----------------------------------------------------------------------------
(* Critical sections, entered by goroutine g with the mutex of c held.     *)

Goto(g, c, point) == pc' = [pc EXCEPT ![g] = point] /\ at' = [at EXCEPT ![g] = c]

Wait(g, c, point) ==
  /\ Goto(g, c, point)
  /\ asleep' = asleep \cup {g}
  /\ UNCHANGED chanVars

Return(g, c) == Goto(g, c, "run") /\ UNCHANGED <<asleep, chanVars>>

Push(c, v) ==
  /\ buf' = [buf EXCEPT ![c] = Append(@, v)]
  /\ sent' = [sent EXCEPT ![c] = Append(@, v)]
  /\ UNCHANGED <<closed, rcvd>>

Pop(c) ==
  /\ buf' = [buf EXCEPT ![c] = Tail(@)]
  /\ rcvd' = [rcvd EXCEPT ![c] = Append(@, Head(buf[c]))]
  /\ UNCHANGED <<closed, sent>>

\* The value of the send that g is executing.
Value(g) == <<g, sends'[g]>>

\* push_back and rx_cv.notify_one; an unbuffered sender then waits on tx_cv
\* until the buffer is empty, which it cannot be yet.
PushAndNotify(g, c) ==
  /\ Push(c, Value(g))
  /\ \E woken \in NotifyOne(RxWaiters(c)) :
       IF Capacity[c] = 0
       THEN Goto(g, c, "rv_wait") /\ asleep' = (asleep \ woken) \cup {g}
       ELSE Goto(g, c, "run") /\ asleep' = asleep \ woken

\* Mutant: closed is tested once, before the loop.
SendWithoutRetest(g, c) ==
  \/ closed[c] /\ pc[g] = "run" /\ Return(g, c)
  \/ ~closed[c] /\ Full(c) /\ Wait(g, c, "tx_wait")
  \/ (~closed[c] \/ pc[g] = "tx_wait") /\ ~Full(c) /\ PushAndNotify(g, c)

\* The capacity loop of send, entered for the first time or after a wait.
SendOrWait(g, c) ==
  \/ closed[c] /\ Return(g, c)
  \/ ~closed[c] /\ Full(c) /\ Wait(g, c, "tx_wait")
  \/ ~closed[c] /\ ~Full(c) /\ PushAndNotify(g, c)

\* One turn of the loop of recv.
RecvOrWait(g, c) ==
  \/ /\ buf[c] # <<>>
     /\ Pop(c)
     /\ \E woken \in NotifyOne(TxWaiters(c)) : asleep' = asleep \ woken
     /\ Goto(g, c, "run")
  \/ buf[c] = <<>> /\ closed[c] /\ Return(g, c)
  \/ buf[c] = <<>> /\ ~closed[c] /\ Wait(g, c, "rx_wait")

Park(g) ==
  /\ Goto(g, Nil, "parked")
  /\ UNCHANGED <<asleep, chanVars>>

-----------------------------------------------------------------------------
(* Operations, called by a goroutine that is not in one.                   *)

StartSend(g) == /\ sends[g] < MaxSends
                /\ sends' = [sends EXCEPT ![g] = @ + 1]

Send(g, h) ==
  /\ pc[g] = "run"
  /\ StartSend(g)
  /\ IF h = Nil THEN Park(g) ELSE SendOrWait(g, h)

ResumeSend(g) ==
  /\ pc[g] = "tx_wait" /\ g \notin asleep
  /\ UNCHANGED sends
  /\ SendOrWait(g, at[g])

\* Mutant: if for while around the rendezvous wait.
ResumeRendezvousOnce(g) ==
  pc[g] = "rv_wait" /\ g \notin asleep /\ Return(g, at[g]) /\ UNCHANGED sends

\* The unbuffered sender woken on tx_cv: it leaves when the whole buffer has
\* been taken or the channel was closed, and waits again otherwise.
ResumeRendezvous(g) ==
  /\ pc[g] = "rv_wait" /\ g \notin asleep
  /\ IF buf[at[g]] # <<>> /\ ~closed[at[g]]
     THEN Wait(g, at[g], "rv_wait")
     ELSE Return(g, at[g])
  /\ UNCHANGED sends

Recv(g, h) ==
  /\ pc[g] = "run"
  /\ IF h = Nil THEN Park(g) ELSE RecvOrWait(g, h)
  /\ UNCHANGED sends

ResumeRecv(g) ==
  /\ pc[g] = "rx_wait" /\ g \notin asleep
  /\ RecvOrWait(g, at[g])
  /\ UNCHANGED sends

TrySendRefused(h) ==
  \/ h = Nil
  \/ h # Nil /\ (closed[h] \/ Capacity[h] = 0 \/ Len(buf[h]) >= Capacity[h])

\* try_send: Err(val) changes nothing; Ok(()) pushes, unlocks, and only then
\* notifies a receiver (NotifyRx).
TrySend(g, h) ==
  /\ pc[g] = "run"
  /\ \/ TrySendRefused(h) /\ UNCHANGED vars
     \/ /\ ~TrySendRefused(h)
        /\ StartSend(g)
        /\ Push(h, Value(g))
        /\ Goto(g, h, "rx_notify")
        /\ UNCHANGED asleep

\* try_recv and try_recv_with_ok: a value, the zero value of a closed and
\* drained channel, or Empty; only the first changes the channel.
TryRecv(g, h) ==
  /\ pc[g] = "run"
  /\ IF h # Nil /\ buf[h] # <<>>
     THEN Pop(h) /\ Goto(g, h, "tx_notify") /\ UNCHANGED <<asleep, sends>>
     ELSE UNCHANGED vars

NotifyRx(g) ==
  /\ pc[g] = "rx_notify"
  /\ \E woken \in NotifyOne(RxWaiters(at[g])) : asleep' = asleep \ woken
  /\ Goto(g, at[g], "run")
  /\ UNCHANGED <<sends, chanVars>>

NotifyTx(g) ==
  /\ pc[g] = "tx_notify"
  /\ \E woken \in NotifyOne(TxWaiters(at[g])) : asleep' = asleep \ woken
  /\ Goto(g, at[g], "run")
  /\ UNCHANGED <<sends, chanVars>>

\* Mutant: only rx_cv is notified.
CloseWakesReceivers(g, h) ==
  /\ pc[g] = "run" /\ h # Nil /\ ~closed[h]
  /\ closed' = [closed EXCEPT ![h] = TRUE]
  /\ asleep' = asleep \ RxWaiters(h)
  /\ UNCHANGED <<buf, sent, rcvd, pc, at, sends>>

\* close: a panic on nil, nothing on a closed channel, else both wait sets
\* are emptied by notify_all.
Close(g, h) ==
  /\ pc[g] = "run"
  /\ UNCHANGED sends
  /\ \/ h = Nil /\ Goto(g, Nil, "panicked") /\ UNCHANGED <<asleep, chanVars>>
     \/ h # Nil /\ closed[h] /\ UNCHANGED <<pc, at, asleep, chanVars>>
     \/ /\ h # Nil /\ ~closed[h]
        /\ closed' = [closed EXCEPT ![h] = TRUE]
        /\ asleep' = (asleep \ RxWaiters(h)) \ TxWaiters(h)
        /\ UNCHANGED <<buf, sent, rcvd, pc, at>>

\* A condition variable wait may return without a notification.
SpuriousWakeup(g) ==
  /\ g \in asleep
  /\ asleep' = asleep \ {g}
  /\ UNCHANGED <<buf, closed, pc, at, sends, sent, rcvd>>

-----------------------------------------------------------------------------
Handles == Chans \cup {Nil}

\* What a goroutine does by itself once it is inside an operation.
Continue(g) ==
  \/ ResumeSend(g)
  \/ ResumeRendezvous(g)
  \/ ResumeRecv(g)
  \/ NotifyRx(g)
  \/ NotifyTx(g)

Call(g) == \E h \in Handles :
  \/ g \in Senders /\ Send(g, h)
  \/ g \in Senders /\ TrySend(g, h)
  \/ g \in Receivers /\ Recv(g, h)
  \/ g \in Receivers /\ TryRecv(g, h)
  \/ Close(g, h)

Next == \E g \in Goroutines : Call(g) \/ Continue(g) \/ SpuriousWakeup(g)

\* The operating system runs every thread that can run; a program need not
\* call anything, and no wakeup may be counted on that nobody notified.
Fairness == \A g \in Goroutines : WF_vars(Continue(g))

Spec == Init /\ [][Next]_vars
FairSpec == Spec /\ Fairness

-----------------------------------------------------------------------------
(* Properties.                                                             *)

TypeOK ==
  /\ buf \in [Chans -> Seq(Values)]
  /\ closed \in [Chans -> BOOLEAN]
  /\ pc \in [Goroutines -> Points]
  /\ at \in [Goroutines -> Handles]
  /\ asleep \in SUBSET Goroutines
  /\ sends \in [Goroutines -> 0..MaxSends]
  /\ sent \in [Chans -> Seq(Values)]
  /\ rcvd \in [Chans -> Seq(Values)]

\* No value is lost, duplicated or reordered between push and pop, whatever
\* mix of blocking and try operations moves it.
Fifo == \A c \in Chans : sent[c] = rcvd[c] \o buf[c]

\* A buffered channel never holds more than its capacity, although a sender
\* woken from tx_cv competes for the free slot with send and try_send.
CapacityBound ==
  \A c \in Chans : Capacity[c] > 0 => Len(buf[c]) <= Capacity[c]

\* Receivers on their way to the buffer: woken from rx_cv, or about to be by
\* a try_send that has pushed and not yet notified.
RxWakeups(c) == (At(c, {"rx_wait"}) \ asleep) \cup At(c, {"rx_notify"})
TxWakeups(c) == (At(c, {"tx_wait"}) \ asleep) \cup At(c, {"tx_notify"})

\* No lost wakeup of a receiver: while one sleeps, every value in the buffer
\* has a receiver that is awake, or a notification under way, to take it.
NoLostRxWakeup == \A c \in Chans :
  RxWaiters(c) # {} => Len(buf[c]) <= Cardinality(RxWakeups(c))

\* No lost wakeup of a sender on a buffered channel: while one sleeps, every
\* free slot has a sender awake or a notification under way to use it.
NoLostTxWakeup == \A c \in Chans :
  Capacity[c] > 0 /\ TxWaiters(c) # {} =>
    Capacity[c] <= Len(buf[c]) + Cardinality(TxWakeups(c))

\* Only one goroutine has ever sent on c.
LoneSender(c) == \A i, j \in DOMAIN sent[c] : sent[c][i][1] = sent[c][j][1]

\* No lost wakeup of a sender alone on an unbuffered channel: it does not
\* sleep beside an empty buffer, but while a try_recv has still to notify.
\* Senders that share the channel can: a notification may wake one that
\* finds another's value in the buffer and sleeps again.
NoLostRendezvousWakeup == \A c \in Chans :
  Capacity[c] = 0 /\ LoneSender(c) /\ TxWaiters(c) # {} =>
    buf[c] # <<>> \/ At(c, {"tx_notify"}) # {}

\* No wakeup is lost of receivers, of senders on buffered channels, and of a
\* sender that is the only one on an unbuffered channel.
NoLostWakeup == NoLostRxWakeup /\ NoLostTxWakeup /\ NoLostRendezvousWakeup

\* close leaves nobody asleep, and nobody falls asleep on a closed channel.
ClosedWakesAll == \A c \in Chans :
  closed[c] => RxWaiters(c) = {} /\ TxWaiters(c) = {}

\* An unbuffered send that returns while the channel is open has handed its
\* value over: the value is no longer in the buffer.
RendezvousHandsOver ==
  [][\A g \in Goroutines :
       pc[g] = "rv_wait" /\ pc'[g] = "run" /\ ~closed[at[g]] =>
         \E i \in DOMAIN rcvd[at[g]] : rcvd[at[g]][i] = <<g, sends[g]>>]_vars

\* The runtime implements the channel a Go program relies on: what it has
\* pushed is what was accepted, what it has popped is what was handed out.
Abstract == INSTANCE GoChannel WITH
  log <- sent, taken <- [c \in Chans |-> Len(rcvd[c])], closed <- closed
ImplementsGoChannel == Abstract!Spec

\* A free slot does not stay free while a sender waits for it.
SendersServed ==
  \A c \in Chans :
    (~Full(c) /\ At(c, {"tx_wait"}) # {})
      ~> (Full(c) \/ At(c, {"tx_wait"}) = {})

\* A value in the buffer does not stay there while a receiver waits for it.
ReceiversServed ==
  \A c \in Chans :
    (buf[c] # <<>> /\ At(c, {"rx_wait"}) # {})
      ~> (buf[c] = <<>> \/ At(c, {"rx_wait"}) = {})

\* Whoever can be served is.
WaitersServed == ReceiversServed /\ SendersServed

\* An unbuffered sender whose value has been received comes back.
RendezvousReturns ==
  \A g \in Goroutines : \A c \in Chans :
    (pc[g] = "rv_wait" /\ at[g] = c
       /\ \E i \in DOMAIN rcvd[c] : rcvd[c][i] = <<g, sends[g]>>)
      ~> (pc[g] = "run")
=============================================================================
