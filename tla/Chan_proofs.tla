----------------------------- MODULE Chan_proofs -----------------------------
(***************************************************************************)
(* Proofs about the channel runtime and the selects lowered onto it, for   *)
(* any number of goroutines and channels, any capacities, any selects and  *)
(* any bound on the sends.                                                 *)
(***************************************************************************)
EXTENDS Select, SequenceTheorems, FiniteSetTheorems, TLAPS

-----------------------------------------------------------------------------
(* The steps of Next by what they do to one channel.  Every proof below is *)
(* by these cases.                                                         *)

BlockedPoints == {"tx_wait", "rv_wait", "rx_wait"}
InsidePoints == BlockedPoints \cup {"rx_notify", "tx_notify"}

\* g runs the capacity loop of send, on its call or on its return from tx_cv.
SendTurn(g, c) ==
  /\ \/ pc[g] = "run" /\ StartSend(g)
     \/ pc[g] = "tx_wait" /\ g \notin asleep /\ at[g] = c /\ UNCHANGED sends
  /\ SendOrWait(g, c)

\* g runs one turn of the loop of recv, likewise.
RecvTurn(g, c) ==
  /\ \/ pc[g] = "run"
     \/ pc[g] = "rx_wait" /\ g \notin asleep /\ at[g] = c
  /\ UNCHANGED sends
  /\ RecvOrWait(g, c)

TrySendTurn(g, c) ==
  /\ pc[g] = "run" /\ ~TrySendRefused(c)
  /\ StartSend(g) /\ Push(c, Value(g)) /\ Goto(g, c, "rx_notify")
  /\ UNCHANGED asleep

TryRecvTurn(g, c) ==
  /\ pc[g] = "run" /\ buf[c] # <<>>
  /\ Pop(c) /\ Goto(g, c, "tx_notify")
  /\ UNCHANGED <<asleep, sends>>

CloseTurn(g, c) ==
  /\ pc[g] = "run" /\ ~closed[c]
  /\ closed' = [closed EXCEPT ![c] = TRUE]
  /\ asleep' = (asleep \ RxWaiters(c)) \ TxWaiters(c)
  /\ UNCHANGED <<buf, sent, rcvd, pc, at, sends>>

\* g leaves the channels for good, on a nil channel.
LeaveTurn(g) ==
  /\ pc[g] = "run"
  /\ Goto(g, Nil, "parked") \/ Goto(g, Nil, "panicked")
  /\ StartSend(g) \/ UNCHANGED sends
  /\ UNCHANGED <<asleep, chanVars>>

\* The points at which a goroutine is inside an operation on a channel.
AtOK == \A g \in Goroutines : pc[g] \in InsidePoints => at[g] \in Chans

\* A sender waiting for room has a value to send.
SendingOK == \A g \in Goroutines : pc[g] = "tx_wait" => sends[g] >= 1

TypeInv == TypeOK /\ AtOK /\ SendingOK

LEMMA StepCases ==
  ASSUME AtOK, [Next]_vars
  PROVE  \/ \E g \in Goroutines :
              \/ \E c \in Chans : \/ SendTurn(g, c)
                                  \/ RecvTurn(g, c)
                                  \/ TrySendTurn(g, c)
                                  \/ TryRecvTurn(g, c)
                                  \/ CloseTurn(g, c)
              \/ ResumeRendezvous(g)
              \/ NotifyRx(g)
              \/ NotifyTx(g)
              \/ LeaveTurn(g)
              \/ SpuriousWakeup(g)
         \/ UNCHANGED vars
<1> DEFINE Goal == \/ \E g \in Goroutines :
                        \/ \E c \in Chans : \/ SendTurn(g, c)
                                            \/ RecvTurn(g, c)
                                            \/ TrySendTurn(g, c)
                                            \/ TryRecvTurn(g, c)
                                            \/ CloseTurn(g, c)
                        \/ ResumeRendezvous(g)
                        \/ NotifyRx(g)
                        \/ NotifyTx(g)
                        \/ LeaveTurn(g)
                        \/ SpuriousWakeup(g)
                   \/ UNCHANGED vars
<1>1. ASSUME NEW g \in Goroutines, NEW h \in Handles, Send(g, h)  PROVE Goal
  <2>1. CASE h = Nil
    BY <1>1, <2>1 DEF Send, LeaveTurn, Park
  <2>2. CASE h \in Chans
    BY <1>1, <2>2, ChanAssumption DEF Send, SendTurn
  <2>3. QED
    BY <2>1, <2>2 DEF Handles
<1>2. ASSUME NEW g \in Goroutines, NEW h \in Handles, Recv(g, h)  PROVE Goal
  <2>1. CASE h = Nil
    BY <1>2, <2>1 DEF Recv, LeaveTurn, Park
  <2>2. CASE h \in Chans
    BY <1>2, <2>2, ChanAssumption DEF Recv, RecvTurn
  <2>3. QED
    BY <2>1, <2>2 DEF Handles
<1>3. ASSUME NEW g \in Goroutines, NEW h \in Handles, TrySend(g, h)  PROVE Goal
  BY <1>3 DEF TrySend, TrySendTurn, TrySendRefused, Handles
<1>4. ASSUME NEW g \in Goroutines, NEW h \in Handles, TryRecv(g, h)  PROVE Goal
  BY <1>4 DEF TryRecv, TryRecvTurn, Handles
<1>5. ASSUME NEW g \in Goroutines, NEW h \in Handles, Close(g, h)  PROVE Goal
  BY <1>5 DEF Close, CloseTurn, LeaveTurn, Handles, vars, chanVars
<1>6. ASSUME NEW g \in Goroutines, Continue(g)  PROVE Goal
  <2>1. CASE ResumeSend(g)
    BY <2>1 DEF ResumeSend, SendTurn, AtOK, InsidePoints, BlockedPoints
  <2>2. CASE ResumeRecv(g)
    BY <2>2 DEF ResumeRecv, RecvTurn, AtOK, InsidePoints, BlockedPoints
  <2>3. QED
    BY <1>6, <2>1, <2>2 DEF Continue
<1>7. QED
  BY <1>1, <1>2, <1>3, <1>4, <1>5, <1>6 DEF Next, Call

-----------------------------------------------------------------------------
(* Type correctness.                                                       *)

LEMMA PushTyped ==
  ASSUME TypeOK, NEW c \in Chans, NEW v \in Values, Push(c, v)
  PROVE  /\ buf' \in [Chans -> Seq(Values)]
         /\ sent' \in [Chans -> Seq(Values)]
         /\ closed' \in [Chans -> BOOLEAN]
         /\ rcvd' \in [Chans -> Seq(Values)]
BY AppendProperties DEF TypeOK, Push

LEMMA PopTyped ==
  ASSUME TypeOK, NEW c \in Chans, buf[c] # <<>>, Pop(c)
  PROVE  /\ buf' \in [Chans -> Seq(Values)]
         /\ sent' \in [Chans -> Seq(Values)]
         /\ closed' \in [Chans -> BOOLEAN]
         /\ rcvd' \in [Chans -> Seq(Values)]
<1>1. Head(buf[c]) \in Values /\ Tail(buf[c]) \in Seq(Values)
  BY HeadTailProperties DEF TypeOK
<1>2. Append(rcvd[c], Head(buf[c])) \in Seq(Values)
  BY <1>1, AppendProperties DEF TypeOK
<1>3. QED
  BY <1>1, <1>2 DEF TypeOK, Pop

LEMMA StartSendTyped ==
  ASSUME TypeOK, NEW g \in Goroutines, StartSend(g)
  PROVE  /\ sends' \in [Goroutines -> 0..MaxSends]
         /\ Value(g) \in Values
         /\ sends'[g] = sends[g] + 1
BY ChanAssumption DEF TypeOK, StartSend, Value, Values

\* Everything of TypeInv but the queues, for a step that moves g to a point
\* of channel c (or off the channels) and changes who is asleep.
LEMMA MoveTyped ==
  ASSUME TypeInv, NEW g \in Goroutines, NEW h \in Handles, NEW point \in Points,
         Goto(g, h, point), point \in InsidePoints => h \in Chans,
         StartSend(g) \/ UNCHANGED sends,
         point = "tx_wait" => sends'[g] >= 1
  PROVE  /\ pc' \in [Goroutines -> Points]
         /\ at' \in [Goroutines -> Handles]
         /\ sends' \in [Goroutines -> 0..MaxSends]
         /\ AtOK' /\ SendingOK'
<1>1. sends' \in [Goroutines -> 0..MaxSends]
  BY StartSendTyped DEF TypeInv, TypeOK
<1>2. \A k \in Goroutines \ {g} : sends'[k] = sends[k] /\ pc'[k] = pc[k]
  BY DEF StartSend, Goto, TypeInv, TypeOK
<1>3. pc'[g] = point /\ at'[g] = h
  BY DEF Goto, TypeInv, TypeOK
<1>4. SendingOK'
  BY <1>2, <1>3 DEF TypeInv, SendingOK
<1>5. QED
  BY <1>1, <1>4 DEF TypeInv, TypeOK, AtOK, Goto

\* The value g sends is a value, and is the one g announced.
LEMMA SendValue ==
  ASSUME TypeInv, NEW g \in Goroutines,
         StartSend(g) \/ (pc[g] = "tx_wait" /\ UNCHANGED sends)
  PROVE  Value(g) \in Values /\ sends'[g] >= 1
<1>1. CASE StartSend(g)
  BY <1>1, StartSendTyped DEF TypeInv, TypeOK
<1>2. CASE pc[g] = "tx_wait" /\ UNCHANGED sends
  BY <1>2 DEF Value, Values, TypeInv, TypeOK, SendingOK
<1>3. QED
  BY <1>1, <1>2

LEMMA SendTyped ==
  ASSUME TypeInv, NEW g \in Goroutines, NEW c \in Chans, SendTurn(g, c)
  PROVE  TypeInv'
<1>1. /\ TypeOK /\ Value(g) \in Values /\ sends'[g] >= 1
      /\ StartSend(g) \/ UNCHANGED sends
  BY SendValue DEF SendTurn, TypeInv
<1>2. c \in Handles /\ {"run", "tx_wait", "rv_wait"} \subseteq Points
  BY DEF Handles, Points
<1>3. CASE Return(g, c) \/ Wait(g, c, "tx_wait")
  <2>1. asleep' \in SUBSET Goroutines
    BY <1>1, <1>3 DEF Return, Wait, TypeOK
  <2>2. QED
    BY <1>1, <1>2, <1>3, <2>1, MoveTyped
    DEF Return, Wait, chanVars, TypeInv, TypeOK
<1>4. CASE ~closed[c] /\ ~Full(c) /\ PushAndNotify(g, c)
  <2>1. asleep' \in SUBSET Goroutines
    BY <1>1, <1>4 DEF PushAndNotify, NotifyOne, TypeOK
  <2>2. Goto(g, c, "rv_wait") \/ Goto(g, c, "run")
    BY <1>4 DEF PushAndNotify
  <2>3. QED
    BY <1>1, <1>2, <1>4, <2>1, <2>2, MoveTyped, PushTyped
    DEF PushAndNotify, TypeInv, TypeOK
<1>5. QED
  BY <1>3, <1>4 DEF SendTurn, SendOrWait

LEMMA RecvTyped ==
  ASSUME TypeInv, NEW g \in Goroutines, NEW c \in Chans, RecvTurn(g, c)
  PROVE  TypeInv'
<1>1. TypeOK /\ UNCHANGED sends
  BY DEF TypeInv, RecvTurn
<1>2. c \in Handles /\ {"run", "rx_wait"} \subseteq Points
  BY DEF Handles, Points
<1>3. CASE Return(g, c) \/ Wait(g, c, "rx_wait")
  <2>1. asleep' \in SUBSET Goroutines
    BY <1>1, <1>3 DEF Return, Wait, TypeOK
  <2>2. QED
    BY <1>1, <1>2, <1>3, <2>1, MoveTyped
    DEF Return, Wait, chanVars, TypeInv, TypeOK
<1>4. CASE /\ buf[c] # <<>>
           /\ Pop(c)
           /\ \E woken \in NotifyOne(TxWaiters(c)) : asleep' = asleep \ woken
           /\ Goto(g, c, "run")
  <2>1. asleep' \in SUBSET Goroutines
    BY <1>1, <1>4 DEF TypeOK
  <2>2. QED
    BY <1>1, <1>2, <1>4, <2>1, MoveTyped, PopTyped DEF TypeInv, TypeOK
<1>5. QED
  BY <1>3, <1>4 DEF RecvTurn, RecvOrWait

LEMMA TypeStep ==
  ASSUME TypeInv, [Next]_vars
  PROVE  TypeInv'
<1>1. AtOK /\ TypeOK
  BY DEF TypeInv
<1>2. ASSUME NEW g \in Goroutines, NEW c \in Chans, TrySendTurn(g, c)
      PROVE  TypeInv'
  <2>1. c \in Handles /\ "rx_notify" \in Points /\ Value(g) \in Values
    BY <1>2, SendValue DEF TrySendTurn, Handles, Points
  <2>2. QED
    BY <1>1, <1>2, <2>1, MoveTyped, PushTyped DEF TrySendTurn, TypeInv, TypeOK
<1>3. ASSUME NEW g \in Goroutines, NEW c \in Chans, TryRecvTurn(g, c)
      PROVE  TypeInv'
  <2>1. c \in Handles /\ "tx_notify" \in Points
    BY DEF Handles, Points
  <2>2. QED
    BY <1>1, <1>3, <2>1, MoveTyped, PopTyped DEF TryRecvTurn, TypeInv, TypeOK
<1>4. ASSUME NEW g \in Goroutines, NEW c \in Chans, CloseTurn(g, c)
      PROVE  TypeInv'
  BY <1>4 DEF CloseTurn, TypeInv, TypeOK, AtOK, SendingOK
<1>5. ASSUME NEW g \in Goroutines, ResumeRendezvous(g)
      PROVE  TypeInv'
  <2>1. at[g] \in Chans /\ at[g] \in Handles /\ {"run", "rv_wait"} \subseteq Points
    BY <1>1, <1>5
    DEF ResumeRendezvous, AtOK, InsidePoints, BlockedPoints, Handles, Points
  <2>2. Goto(g, at[g], "rv_wait") \/ Goto(g, at[g], "run")
    BY <1>5 DEF ResumeRendezvous, Wait, Return
  <2>3. asleep' \in SUBSET Goroutines /\ UNCHANGED <<sends, chanVars>>
    BY <1>1, <1>5 DEF ResumeRendezvous, Wait, Return, TypeOK
  <2>4. QED
    BY <1>1, <2>1, <2>2, <2>3, MoveTyped DEF chanVars, TypeInv, TypeOK
<1>6. ASSUME NEW g \in Goroutines, NotifyRx(g) \/ NotifyTx(g)
      PROVE  TypeInv'
  <2>1. at[g] \in Handles /\ "run" \in Points /\ "run" \notin InsidePoints
    BY <1>1 DEF TypeOK, Points, InsidePoints, BlockedPoints
  <2>2. Goto(g, at[g], "run") /\ UNCHANGED <<sends, chanVars>>
    BY <1>6 DEF NotifyRx, NotifyTx
  <2>3. asleep' \in SUBSET Goroutines
    BY <1>1, <1>6 DEF NotifyRx, NotifyTx, TypeOK
  <2>4. QED
    BY <1>1, <2>1, <2>2, <2>3, MoveTyped DEF chanVars, TypeInv, TypeOK
<1>7. ASSUME NEW g \in Goroutines, LeaveTurn(g)
      PROVE  TypeInv'
  <2>1. /\ Nil \in Handles /\ {"parked", "panicked"} \subseteq Points
        /\ "parked" \notin InsidePoints /\ "panicked" \notin InsidePoints
    BY DEF Handles, Points, InsidePoints, BlockedPoints
  <2>2. QED
    BY <1>1, <1>7, <2>1, MoveTyped DEF LeaveTurn, chanVars, TypeInv, TypeOK
<1>8. ASSUME NEW g \in Goroutines, SpuriousWakeup(g)
      PROVE  TypeInv'
  BY <1>8 DEF SpuriousWakeup, TypeInv, TypeOK, AtOK, SendingOK
<1>9. CASE UNCHANGED vars
  BY <1>9 DEF vars, TypeInv, TypeOK, AtOK, SendingOK
<1>10. QED
  BY <1>1, <1>2, <1>3, <1>4, <1>5, <1>6, <1>7, <1>8, <1>9,
     StepCases, SendTyped, RecvTyped

LEMMA TypeInit == Init => TypeInv
BY ChanAssumption
DEF Init, TypeInv, TypeOK, AtOK, SendingOK, Points, InsidePoints, BlockedPoints,
    Handles

LEMMA TypeInvariant == Spec => []TypeInv
BY TypeInit, TypeStep, PTL DEF Spec

\* Type correctness of the channel runtime.
THEOREM TypeCorrect == Spec => []TypeOK
<1>1. TypeInv => TypeOK
  BY DEF TypeInv
<1>2. QED
  BY <1>1, TypeInvariant, PTL

-----------------------------------------------------------------------------
(* The queue: first in first out, within the capacity.                     *)

LEMMA ConcatPop ==
  ASSUME NEW S, NEW s \in Seq(S), NEW t \in Seq(S), t # <<>>
  PROVE  Append(s, Head(t)) \o Tail(t) = s \o t
<1>1. Head(t) \in S /\ Tail(t) \in Seq(S) /\ Append(s, Head(t)) \in Seq(S)
  BY HeadTailProperties, AppendProperties
<1>2. t = <<Head(t)>> \o Tail(t)
  BY <1>1, HeadTailProperties, ConcatProperties, SeqEqual
<1>3. Append(s, Head(t)) = s \o <<Head(t)>>
  BY <1>1, AppendIsConcat
<1>4. QED
  BY <1>1, <1>2, <1>3, ConcatAssociative

\* A step pushes one value on an open channel that has room, pops one from a
\* channel that holds some, or moves no value.
LEMMA QueueStep ==
  ASSUME TypeInv, [Next]_vars
  PROVE  \/ \E g \in Goroutines, c \in Chans :
              /\ SendTurn(g, c) \/ TrySendTurn(g, c)
              /\ Value(g) \in Values
              /\ ~closed[c] /\ ~Full(c) /\ Push(c, Value(g))
         \/ \E c \in Chans : buf[c] # <<>> /\ Pop(c)
         \/ UNCHANGED <<buf, sent, rcvd>>
<1> DEFINE Goal == \/ \E g \in Goroutines, c \in Chans :
                        /\ SendTurn(g, c) \/ TrySendTurn(g, c)
                        /\ Value(g) \in Values
                        /\ ~closed[c] /\ ~Full(c) /\ Push(c, Value(g))
                   \/ \E c \in Chans : buf[c] # <<>> /\ Pop(c)
                   \/ UNCHANGED <<buf, sent, rcvd>>
<1>1. ASSUME NEW g \in Goroutines, NEW c \in Chans, SendTurn(g, c)  PROVE Goal
  <2>1. Value(g) \in Values
    BY <1>1, SendValue DEF SendTurn
  <2>2. QED
    BY <1>1, <2>1 DEF SendTurn, SendOrWait, Return, Wait, PushAndNotify, chanVars
<1>2. ASSUME NEW g \in Goroutines, NEW c \in Chans, RecvTurn(g, c)  PROVE Goal
  BY <1>2 DEF RecvTurn, RecvOrWait, Return, Wait, chanVars
<1>3. ASSUME NEW g \in Goroutines, NEW c \in Chans, TrySendTurn(g, c)  PROVE Goal
  <2>1. Value(g) \in Values
    BY <1>3, SendValue DEF TrySendTurn
  <2>2. Capacity[c] \in Nat /\ Len(buf[c]) \in Nat /\ c # Nil
    BY ChanAssumption, LenProperties DEF TypeInv, TypeOK
  <2>3. ~closed[c] /\ ~Full(c) /\ Push(c, Value(g))
    BY <1>3, <2>2 DEF TrySendTurn, TrySendRefused, Full
  <2>4. QED
    BY <1>3, <2>1, <2>3
<1>4. ASSUME NEW g \in Goroutines, NEW c \in Chans, TryRecvTurn(g, c)  PROVE Goal
  BY <1>4 DEF TryRecvTurn
<1>5. ASSUME NEW g \in Goroutines, NEW c \in Chans, CloseTurn(g, c)  PROVE Goal
  BY <1>5 DEF CloseTurn
<1>6. ASSUME NEW g \in Goroutines,
             \/ ResumeRendezvous(g) \/ NotifyRx(g) \/ NotifyTx(g)
             \/ LeaveTurn(g) \/ SpuriousWakeup(g)
      PROVE Goal
  BY <1>6 DEF ResumeRendezvous, Wait, Return, NotifyRx, NotifyTx, LeaveTurn,
              SpuriousWakeup, chanVars
<1>7. CASE UNCHANGED vars
  BY <1>7 DEF vars
<1>8. QED
  BY <1>1, <1>2, <1>3, <1>4, <1>5, <1>6, <1>7, StepCases DEF TypeInv

LEMMA FifoStep ==
  ASSUME TypeInv, Fifo, [Next]_vars
  PROVE  Fifo'
<1>1. ASSUME NEW c \in Chans, NEW v \in Values, Push(c, v)  PROVE Fifo'
  <2> DEFINE s == sent[c]
             r == rcvd[c]
             b == buf[c]
  <2>1. s \in Seq(Values) /\ r \in Seq(Values) /\ b \in Seq(Values) /\ s = r \o b
    BY DEF TypeInv, TypeOK, Fifo
  <2>2. Append(s, v) = r \o Append(b, v)
    <3> HIDE DEF s, r, b
    <3>1. <<v>> \in Seq(Values) /\ Append(b, v) = b \o <<v>> /\ Append(s, v) = s \o <<v>>
      BY <2>1, AppendIsConcat
    <3>2. QED
      BY <2>1, <3>1, ConcatAssociative
  <2>3. QED
    BY <1>1, <2>2 DEF Push, Fifo, TypeInv, TypeOK
<1>2. ASSUME NEW c \in Chans, buf[c] # <<>>, Pop(c)  PROVE Fifo'
  <2>1. rcvd[c] \in Seq(Values) /\ buf[c] \in Seq(Values) /\ sent[c] = rcvd[c] \o buf[c]
    BY DEF TypeInv, TypeOK, Fifo
  <2>2. Append(rcvd[c], Head(buf[c])) \o Tail(buf[c]) = sent[c]
    BY <1>2, <2>1, ConcatPop
  <2>3. QED
    BY <1>2, <2>2 DEF Pop, Fifo, TypeInv, TypeOK
<1>3. CASE UNCHANGED <<buf, sent, rcvd>>
  BY <1>3 DEF Fifo
<1>4. QED
  BY <1>1, <1>2, <1>3, QueueStep

\* Values come out of a channel in the order they went in, none lost and
\* none twice, whichever operations moved them.
THEOREM FifoAlways == Spec => []Fifo
<1>1. Init => Fifo
  BY ConcatEmptySeq, EmptySeq DEF Init, Fifo
<1>2. TypeInv /\ Fifo /\ [Next]_vars => Fifo'
  BY FifoStep
<1>3. QED
  BY <1>1, <1>2, TypeInvariant, PTL DEF Spec

LEMMA CapacityStep ==
  ASSUME TypeInv, CapacityBound, [Next]_vars
  PROVE  CapacityBound'
<1>1. /\ Capacity \in [Chans -> Nat] /\ buf \in [Chans -> Seq(Values)]
      /\ \A d \in Chans : Len(buf[d]) \in Nat
  BY ChanAssumption, LenProperties DEF TypeInv, TypeOK
<1>2. ASSUME NEW c \in Chans, NEW v \in Values, ~Full(c), Push(c, v)
      PROVE  CapacityBound'
  <2>1. Len(Append(buf[c], v)) = Len(buf[c]) + 1
    BY <1>1, AppendProperties
  <2>2. QED
    BY <1>1, <1>2, <2>1 DEF Push, Full, CapacityBound
<1>3. ASSUME NEW c \in Chans, buf[c] # <<>>, Pop(c)  PROVE CapacityBound'
  <2>1. Len(Tail(buf[c])) = Len(buf[c]) - 1
    BY <1>1, <1>3, HeadTailProperties
  <2>2. QED
    BY <1>1, <1>3, <2>1 DEF Pop, CapacityBound
<1>4. CASE UNCHANGED <<buf, sent, rcvd>>
  BY <1>4 DEF CapacityBound
<1>5. QED
  BY <1>2, <1>3, <1>4, QueueStep

\* A buffered channel never holds more values than its capacity.
THEOREM CapacityAlways == Spec => []CapacityBound
<1>1. Init => CapacityBound
  BY ChanAssumption, EmptySeq DEF Init, CapacityBound
<1>2. TypeInv /\ CapacityBound /\ [Next]_vars => CapacityBound'
  BY CapacityStep
<1>3. QED
  BY <1>1, <1>2, TypeInvariant, PTL DEF Spec

-----------------------------------------------------------------------------
(* Who sleeps: only a goroutine at a wait, and nobody on a closed channel. *)

AsleepBlocked == \A g \in asleep : pc[g] \in BlockedPoints

SleepInv == AsleepBlocked /\ ClosedWakesAll

LEMMA NotifyOneSubset ==
  ASSUME NEW W, NEW woken \in NotifyOne(W)
  PROVE  woken \subseteq W
BY DEF NotifyOne

\* A goroutine that is asleep after a step slept at the same wait before it,
\* or has just fallen asleep on a channel that is still open.
LEMMA SleepStep ==
  ASSUME TypeInv, AsleepBlocked, [Next]_vars, NEW k \in asleep'
  PROVE  \/ /\ k \in asleep /\ pc'[k] = pc[k] /\ at'[k] = at[k]
            /\ closed'[at[k]] => closed[at[k]]
         \/ pc'[k] \in BlockedPoints /\ ~closed'[at'[k]]
<1> DEFINE Slept == /\ k \in asleep /\ pc'[k] = pc[k] /\ at'[k] = at[k]
                    /\ closed'[at[k]] => closed[at[k]]
           Goal == Slept \/ (pc'[k] \in BlockedPoints /\ ~closed'[at'[k]])
<1> USE DEF BlockedPoints
<1>1. /\ pc \in [Goroutines -> Points] /\ at \in [Goroutines -> Handles]
      /\ closed \in [Chans -> BOOLEAN] /\ asleep \subseteq Goroutines
      /\ AtOK
      /\ pc[k] \in BlockedPoints \/ k \notin asleep
  BY DEF TypeInv, TypeOK, AsleepBlocked
<1>2. ASSUME NEW g \in Goroutines, NEW c \in Chans, NEW point \in BlockedPoints,
             pc[g] = "run" \/ g \notin asleep, ~closed[c], Wait(g, c, point)
      PROVE  Goal
  <2>1. CASE k = g
    BY <1>1, <1>2, <2>1 DEF Wait, Goto, chanVars
  <2>2. CASE k # g
    BY <1>1, <1>2, <2>2 DEF Wait, Goto, chanVars
  <2>3. QED
    BY <2>1, <2>2
<1>3. ASSUME NEW g \in Goroutines, NEW c, NEW point,
             pc[g] = "run" \/ g \notin asleep,
             Goto(g, c, point), asleep' \subseteq asleep, UNCHANGED closed
      PROVE  Goal
  BY <1>1, <1>3 DEF Goto
<1>4. ASSUME NEW g \in Goroutines, NEW c \in Chans, SendTurn(g, c)  PROVE Goal
  <2>1. pc[g] = "run" \/ g \notin asleep
    BY <1>4 DEF SendTurn
  <2>2. CASE ~closed[c] /\ ~Full(c) /\ PushAndNotify(g, c)
    <3>1. closed' = closed
      BY <2>2 DEF PushAndNotify, Push
    <3>2. CASE asleep' \subseteq asleep /\ Goto(g, c, "run")
      BY <1>3, <2>1, <3>1, <3>2
    <3>3. CASE asleep' \subseteq asleep \cup {g} /\ Goto(g, c, "rv_wait")
      <4>1. CASE k = g
        BY <1>1, <2>2, <3>1, <3>3, <4>1 DEF Goto
      <4>2. CASE k # g
        BY <1>1, <3>1, <3>3, <4>2 DEF Goto
      <4>3. QED
        BY <4>1, <4>2
    <3>4. QED
      BY <2>2, <3>2, <3>3 DEF PushAndNotify
  <2>3. CASE Return(g, c)
    BY <1>3, <2>1, <2>3 DEF Return, chanVars
  <2>4. CASE ~closed[c] /\ Wait(g, c, "tx_wait")
    BY <1>2, <2>1, <2>4
  <2>5. QED
    BY <1>4, <2>2, <2>3, <2>4 DEF SendTurn, SendOrWait
<1>5. ASSUME NEW g \in Goroutines, NEW c \in Chans, RecvTurn(g, c)  PROVE Goal
  <2>1. pc[g] = "run" \/ g \notin asleep
    BY <1>5 DEF RecvTurn
  <2>2. CASE /\ Pop(c) /\ Goto(g, c, "run")
             /\ \E woken \in NotifyOne(TxWaiters(c)) : asleep' = asleep \ woken
    BY <1>3, <2>1, <2>2 DEF Pop
  <2>3. CASE Return(g, c)
    BY <1>3, <2>1, <2>3 DEF Return, chanVars
  <2>4. CASE ~closed[c] /\ Wait(g, c, "rx_wait")
    BY <1>2, <2>1, <2>4
  <2>5. QED
    BY <1>5, <2>2, <2>3, <2>4 DEF RecvTurn, RecvOrWait
<1>6. ASSUME NEW g \in Goroutines, NEW c \in Chans,
             TrySendTurn(g, c) \/ TryRecvTurn(g, c)
      PROVE  Goal
  BY <1>3, <1>6 DEF TrySendTurn, TryRecvTurn, Push, Pop
<1>7. ASSUME NEW g \in Goroutines, NEW c \in Chans, CloseTurn(g, c)  PROVE Goal
  <2>1. k \in asleep /\ k \notin RxWaiters(c) /\ k \notin TxWaiters(c)
    BY <1>7 DEF CloseTurn
  <2>2. at[k] # c
    BY <1>1, <2>1 DEF RxWaiters, TxWaiters, At
  <2>3. QED
    BY <1>1, <1>7, <2>1, <2>2 DEF CloseTurn
<1>8. ASSUME NEW g \in Goroutines, ResumeRendezvous(g)  PROVE Goal
  <2>1. at[g] \in Chans
    BY <1>1, <1>8 DEF ResumeRendezvous, AtOK, InsidePoints
  <2>2. CASE ~closed[at[g]] /\ Wait(g, at[g], "rv_wait")
    BY <1>2, <1>8, <2>1, <2>2 DEF ResumeRendezvous
  <2>3. CASE Return(g, at[g])
    BY <1>3, <1>8, <2>3 DEF ResumeRendezvous, Return, chanVars
  <2>4. QED
    BY <1>8, <2>2, <2>3 DEF ResumeRendezvous
<1>9. ASSUME NEW g \in Goroutines, NotifyRx(g) \/ NotifyTx(g)  PROVE Goal
  <2>1. g \notin asleep
    BY <1>9 DEF NotifyRx, NotifyTx, AsleepBlocked
  <2>2. QED
    BY <1>3, <1>9, <2>1 DEF NotifyRx, NotifyTx, chanVars
<1>10. ASSUME NEW g \in Goroutines, LeaveTurn(g)  PROVE Goal
  BY <1>3, <1>10 DEF LeaveTurn, chanVars
<1>11. ASSUME NEW g \in Goroutines, SpuriousWakeup(g)  PROVE Goal
  BY <1>1, <1>11 DEF SpuriousWakeup
<1>12. CASE UNCHANGED vars
  BY <1>1, <1>12 DEF vars
<1>13. QED
  BY <1>4, <1>5, <1>6, <1>7, <1>8, <1>9, <1>10, <1>11, <1>12, StepCases
  DEF TypeInv

LEMMA SleepInvStep ==
  ASSUME TypeInv, SleepInv, [Next]_vars
  PROVE  SleepInv'
<1>1. AsleepBlocked'
  BY SleepStep DEF SleepInv, AsleepBlocked
<1>2. ClosedWakesAll'
  BY SleepStep DEF SleepInv, AsleepBlocked, ClosedWakesAll, RxWaiters, TxWaiters,
                   At, BlockedPoints
<1>3. QED
  BY <1>1, <1>2 DEF SleepInv

LEMMA SleepInvariant == Spec => []SleepInv
<1>1. Init => SleepInv
  BY DEF Init, SleepInv, AsleepBlocked, ClosedWakesAll, RxWaiters, TxWaiters
<1>2. QED
  BY <1>1, SleepInvStep, TypeInvariant, PTL DEF Spec

\* close wakes every goroutine blocked on the channel, and none falls asleep
\* on it afterwards.
THEOREM ClosedWakesAllAlways == Spec => []ClosedWakesAll
<1>1. SleepInv => ClosedWakesAll
  BY DEF SleepInv
<1>2. QED
  BY <1>1, SleepInvariant, PTL

-----------------------------------------------------------------------------
(* No lost wakeup.  For every channel the number of values a sleeping      *)
(* receiver could take is bounded by the receivers on their way to them,   *)
(* and the same for free slots and senders.                                *)

RxSafe(d) == RxWaiters(d) # {} => Len(buf[d]) <= Cardinality(RxWakeups(d))

TxSafe(d) == Capacity[d] > 0 /\ TxWaiters(d) # {} =>
               Capacity[d] <= Len(buf[d]) + Cardinality(TxWakeups(d))

\* Only senders on unbuffered channels wait for a rendezvous.
RendezvousOK ==
  \A g \in Goroutines : pc[g] = "rv_wait" => Capacity[at[g]] = 0

WaitInv == TypeInv /\ SleepInv /\ RendezvousOK

LEMMA RendezvousOKStep ==
  ASSUME TypeInv, RendezvousOK, [Next]_vars
  PROVE  RendezvousOK'
<1>1. /\ pc \in [Goroutines -> Points] /\ at \in [Goroutines -> Handles]
  BY DEF TypeInv, TypeOK
<1>2. ASSUME NEW g \in Goroutines, NEW c \in Chans, SendTurn(g, c)
      PROVE  RendezvousOK'
  BY <1>1, <1>2
  DEF SendTurn, SendOrWait, Return, Wait, PushAndNotify, Goto, RendezvousOK
<1>3. ASSUME NEW g \in Goroutines, NEW c \in Chans, RecvTurn(g, c)
      PROVE  RendezvousOK'
  BY <1>1, <1>3 DEF RecvTurn, RecvOrWait, Return, Wait, Goto, RendezvousOK
<1>4. ASSUME NEW g \in Goroutines, NEW c \in Chans,
             TrySendTurn(g, c) \/ TryRecvTurn(g, c) \/ CloseTurn(g, c)
      PROVE  RendezvousOK'
  BY <1>1, <1>4 DEF TrySendTurn, TryRecvTurn, CloseTurn, Goto, RendezvousOK
<1>5. ASSUME NEW g \in Goroutines, ResumeRendezvous(g)
      PROVE  RendezvousOK'
  BY <1>1, <1>5 DEF ResumeRendezvous, Wait, Return, Goto, RendezvousOK
<1>6. ASSUME NEW g \in Goroutines,
             NotifyRx(g) \/ NotifyTx(g) \/ LeaveTurn(g) \/ SpuriousWakeup(g)
      PROVE  RendezvousOK'
  BY <1>1, <1>6
  DEF NotifyRx, NotifyTx, LeaveTurn, SpuriousWakeup, Goto, RendezvousOK
<1>7. CASE UNCHANGED vars
  BY <1>7 DEF vars, RendezvousOK
<1>8. QED
  BY <1>2, <1>3, <1>4, <1>5, <1>6, <1>7, StepCases DEF TypeInv

\* A step of g on channel c is invisible from another channel d.
LEMMA OtherChannel ==
  ASSUME TypeInv, NEW g \in Goroutines, NEW c, NEW d \in Chans, d # c, NEW point,
         pc[g] = "run" \/ at[g] = c, Goto(g, c, point),
         \A k \in Goroutines \ {g} :
           at[k] = d => (k \in asleep' <=> k \in asleep)
  PROVE  /\ RxWaiters(d)' = RxWaiters(d) /\ RxWakeups(d)' = RxWakeups(d)
         /\ TxWaiters(d)' = TxWaiters(d) /\ TxWakeups(d)' = TxWakeups(d)
         /\ At(d, {"tx_notify"})' = At(d, {"tx_notify"})
<1>1. pc \in [Goroutines -> Points] /\ at \in [Goroutines -> Handles]
  BY DEF TypeInv, TypeOK
<1>2. \A P : "run" \notin P => At(d, P)' = At(d, P)
  BY <1>1 DEF At, Goto
<1>3. \A P : g \notin At(d, P) \/ "run" \in P
  BY <1>1 DEF At
<1>4. \A P : "run" \notin P =>
        At(d, P)' \cap asleep' = At(d, P) \cap asleep
  BY <1>2, <1>3 DEF At
<1>5. \A P : "run" \notin P =>
        At(d, P)' \ asleep' = At(d, P) \ asleep
  BY <1>2, <1>3 DEF At
<1>6. QED
  BY <1>2, <1>4, <1>5 DEF RxWaiters, RxWakeups, TxWaiters, TxWakeups

LEMMA WakeupsFinite ==
  ASSUME NEW d \in Chans
  PROVE  /\ IsFiniteSet(RxWakeups(d)) /\ IsFiniteSet(RxWakeups(d)')
         /\ IsFiniteSet(TxWakeups(d)) /\ IsFiniteSet(TxWakeups(d)')
<1>1. /\ RxWakeups(d) \in SUBSET Goroutines /\ RxWakeups(d)' \in SUBSET Goroutines
      /\ TxWakeups(d) \in SUBSET Goroutines /\ TxWakeups(d)' \in SUBSET Goroutines
  BY DEF RxWakeups, TxWakeups, At
<1>2. QED
  BY <1>1, ChanAssumption, FS_Subset

\* How the cardinality of a set of wakeups follows the set.
LEMMA CardinalityMoves ==
  ASSUME NEW S, NEW T, IsFiniteSet(S), IsFiniteSet(T)
  PROVE  /\ S \subseteq T => Cardinality(S) <= Cardinality(T)
         /\ \A x : S \cup {x} \subseteq T /\ x \notin S
              => Cardinality(S) + 1 <= Cardinality(T)
         /\ \A y : S \ {y} \subseteq T => Cardinality(S) <= Cardinality(T) + 1
         /\ \A x, y : (S \ {y}) \cup {x} \subseteq T /\ x \notin S
              => Cardinality(S) <= Cardinality(T)
<1>1. S \subseteq T => Cardinality(S) <= Cardinality(T)
  BY FS_Subset
<1>2. Cardinality(S) \in Nat /\ Cardinality(T) \in Nat
  BY FS_CardinalityType
<1>3. ASSUME NEW x, S \cup {x} \subseteq T, x \notin S
      PROVE  Cardinality(S) + 1 <= Cardinality(T)
  <2>1. Cardinality(S \cup {x}) = Cardinality(S) + 1
    BY <1>3, FS_AddElement
  <2>2. Cardinality(S \cup {x}) <= Cardinality(T)
    BY <1>3, FS_Subset
  <2>3. QED
    BY <2>1, <2>2
<1>4. ASSUME NEW y, S \ {y} \subseteq T
      PROVE  Cardinality(S) <= Cardinality(T) + 1
  <2>1. /\ IsFiniteSet(S \ {y})
        /\ Cardinality(S \ {y}) \in {Cardinality(S), Cardinality(S) - 1}
    BY FS_RemoveElement
  <2>2. Cardinality(S \ {y}) <= Cardinality(T)
    BY <1>4, FS_Subset
  <2>3. QED
    BY <1>2, <2>1, <2>2
<1>5. ASSUME NEW x, NEW y, (S \ {y}) \cup {x} \subseteq T, x \notin S
      PROVE  Cardinality(S) <= Cardinality(T)
  <2> DEFINE R == S \ {y}
  <2>1. IsFiniteSet(R) /\ Cardinality(R) \in {Cardinality(S), Cardinality(S) - 1}
    BY FS_RemoveElement
  <2>2. Cardinality(R \cup {x}) = Cardinality(R) + 1
    BY <1>5, <2>1, FS_AddElement
  <2>3. Cardinality(R \cup {x}) <= Cardinality(T)
    BY <1>5, FS_Subset
  <2>4. QED
    BY <1>2, <2>1, <2>2, <2>3
<1>6. QED
  BY <1>1, <1>3, <1>4, <1>5

\* n wakeups stay enough when none is needed more than are added.
LEMMA StaysCovered ==
  ASSUME NEW S, NEW T, IsFiniteSet(S), IsFiniteSet(T),
         NEW n \in Int, NEW m \in Int, n <= Cardinality(S),
         \/ m <= n /\ S \subseteq T
         \/ m <= n + 1 /\ \E x : x \notin S /\ S \cup {x} \subseteq T
         \/ m <= n - 1 /\ \E y : S \ {y} \subseteq T
         \/ m <= n /\ \E x, y : x \notin S /\ (S \ {y}) \cup {x} \subseteq T
  PROVE  m <= Cardinality(T)
<1>1. Cardinality(S) \in Nat /\ Cardinality(T) \in Nat
  BY FS_CardinalityType
<1>2. CASE m <= n /\ S \subseteq T
  BY <1>1, <1>2, CardinalityMoves
<1>3. CASE m <= n + 1 /\ \E x : x \notin S /\ S \cup {x} \subseteq T
  <2>1. Cardinality(S) + 1 <= Cardinality(T)
    BY <1>3, CardinalityMoves
  <2>2. QED
    BY <1>1, <1>3, <2>1
<1>4. CASE m <= n - 1 /\ \E y : S \ {y} \subseteq T
  <2>1. Cardinality(S) <= Cardinality(T) + 1
    BY <1>4, CardinalityMoves
  <2>2. QED
    BY <1>1, <1>4, <2>1
<1>5. CASE m <= n /\ \E x, y : x \notin S /\ (S \ {y}) \cup {x} \subseteq T
  <2>1. Cardinality(S) <= Cardinality(T)
    BY <1>5, CardinalityMoves
  <2>2. QED
    BY <1>1, <1>5, <2>1
<1>6. QED
  BY <1>2, <1>3, <1>4, <1>5

Safe(d) == RxSafe(d) /\ TxSafe(d)

\* What keeps a channel safe for its receivers: nobody sleeps, or those who
\* do slept before and the wakeups follow the buffer.
LEMMA RxKept ==
  ASSUME TypeInv, TypeInv', NEW d \in Chans, RxSafe(d),
         \/ RxWaiters(d)' = {}
         \/ Len(buf'[d]) = 0
         \/ /\ RxWaiters(d) # {}
            /\ \/ /\ Len(buf'[d]) <= Len(buf[d])
                  /\ RxWakeups(d) \subseteq RxWakeups(d)'
               \/ /\ Len(buf'[d]) <= Len(buf[d]) + 1
                  /\ \E x : x \notin RxWakeups(d) /\ RxWakeups(d) \cup {x} \subseteq RxWakeups(d)'
               \/ /\ Len(buf'[d]) <= Len(buf[d]) - 1
                  /\ \E y : RxWakeups(d) \ {y} \subseteq RxWakeups(d)'
               \/ /\ Len(buf'[d]) <= Len(buf[d])
                  /\ \E x, y : /\ x \notin RxWakeups(d)
                             /\ (RxWakeups(d) \ {y}) \cup {x} \subseteq RxWakeups(d)'
  PROVE  RxSafe(d)'
<1> DEFINE S == RxWakeups(d)
           T == RxWakeups(d)'
           n == Len(buf[d])
           m == Len(buf'[d])
<1>1. /\ n \in Nat /\ m \in Nat /\ IsFiniteSet(S) /\ IsFiniteSet(T)
      /\ Cardinality(T) \in Nat
  BY WakeupsFinite, FS_CardinalityType, LenProperties DEF TypeInv, TypeOK
<1>2. CASE RxWaiters(d)' = {}
  BY <1>2 DEF RxSafe
<1>3. CASE m = 0
  BY <1>1, <1>3 DEF RxSafe
<1>4. CASE /\ RxWaiters(d) # {}
           /\ \/ m <= n /\ S \subseteq T
              \/ m <= n + 1 /\ \E x : x \notin S /\ S \cup {x} \subseteq T
              \/ m <= n - 1 /\ \E y : S \ {y} \subseteq T
              \/ m <= n /\ \E x, y : x \notin S /\ (S \ {y}) \cup {x} \subseteq T
  <2>1. n <= Cardinality(S)
    BY <1>4 DEF RxSafe
  <2>2. m <= Cardinality(T)
    <3> HIDE DEF S, T, n, m
    <3>1. n \in Int /\ m \in Int
      BY <1>1
    <3>2. QED
      BY <1>1, <1>4, <2>1, <3>1, StaysCovered
  <2>3. QED
    BY <2>2 DEF RxSafe
<1>5. QED
  BY <1>2, <1>3, <1>4

\* The same for the senders, who wait for free slots.
LEMMA TxKept ==
  ASSUME TypeInv, TypeInv', NEW d \in Chans, TxSafe(d),
         \/ Capacity[d] = 0
         \/ TxWaiters(d)' = {}
         \/ Len(buf'[d]) >= Capacity[d]
         \/ /\ TxWaiters(d) # {}
            /\ \/ /\ Len(buf'[d]) >= Len(buf[d])
                  /\ TxWakeups(d) \subseteq TxWakeups(d)'
               \/ /\ Len(buf'[d]) >= Len(buf[d]) - 1
                  /\ \E x : x \notin TxWakeups(d) /\ TxWakeups(d) \cup {x} \subseteq TxWakeups(d)'
               \/ /\ Len(buf'[d]) >= Len(buf[d]) + 1
                  /\ \E y : TxWakeups(d) \ {y} \subseteq TxWakeups(d)'
               \/ /\ Len(buf'[d]) >= Len(buf[d])
                  /\ \E x, y : /\ x \notin TxWakeups(d)
                             /\ (TxWakeups(d) \ {y}) \cup {x} \subseteq TxWakeups(d)'
  PROVE  TxSafe(d)'
<1> DEFINE S == TxWakeups(d)
           T == TxWakeups(d)'
           n == Capacity[d] - Len(buf[d])
           m == Capacity[d] - Len(buf'[d])
<1>1. /\ Len(buf[d]) \in Nat /\ Len(buf'[d]) \in Nat /\ Capacity[d] \in Nat
      /\ IsFiniteSet(S) /\ IsFiniteSet(T)
      /\ Cardinality(S) \in Nat /\ Cardinality(T) \in Nat
  BY WakeupsFinite, FS_CardinalityType, LenProperties, ChanAssumption DEF TypeInv, TypeOK
<1>2. CASE Capacity[d] = 0 \/ TxWaiters(d)' = {} \/ Len(buf'[d]) >= Capacity[d]
  BY <1>1, <1>2 DEF TxSafe
<1>3. CASE /\ Capacity[d] > 0 /\ TxWaiters(d) # {}
           /\ \/ m <= n /\ S \subseteq T
              \/ m <= n + 1 /\ \E x : x \notin S /\ S \cup {x} \subseteq T
              \/ m <= n - 1 /\ \E y : S \ {y} \subseteq T
              \/ m <= n /\ \E x, y : x \notin S /\ (S \ {y}) \cup {x} \subseteq T
  <2>1. n <= Cardinality(S)
    BY <1>1, <1>3 DEF TxSafe
  <2>2. m <= Cardinality(T)
    <3>1. n \in Int /\ m \in Int
      BY <1>1
    <3> HIDE DEF S, T, n, m
    <3>2. QED
      BY <1>1, <1>3, <2>1, <3>1, StaysCovered
  <2>3. QED
    BY <1>1, <2>2 DEF TxSafe
<1>4. /\ Capacity[d] = 0 \/ Capacity[d] > 0
      /\ Len(buf'[d]) >= Len(buf[d]) => m <= n
      /\ Len(buf'[d]) >= Len(buf[d]) - 1 => m <= n + 1
      /\ Len(buf'[d]) >= Len(buf[d]) + 1 => m <= n - 1
  <2>1. \A cap, old, new \in Nat :
          /\ cap = 0 \/ cap > 0
          /\ new >= old => cap - new <= cap - old
          /\ new >= old - 1 => cap - new <= cap - old + 1
          /\ new >= old + 1 => cap - new <= cap - old - 1
    OBVIOUS
  <2>2. QED
    BY <1>1, <2>1
<1>5. QED
  <2> HIDE DEF n, m
  <2>1. QED
    BY <1>2, <1>3, <1>4, Zenon

\* After a move of g on d, everybody else is where he was.
LEMMA Moved ==
  ASSUME TypeInv, NEW g \in Goroutines, NEW d \in Chans, NEW point, Goto(g, d, point)
  PROVE  /\ pc'[g] = point /\ at'[g] = d
         /\ \A k \in Goroutines \ {g} : pc'[k] = pc[k] /\ at'[k] = at[k]
BY DEF TypeInv, TypeOK, Goto

LEMMA PushedLen ==
  ASSUME TypeInv, NEW d \in Chans, NEW v, Push(d, v)
  PROVE  Len(buf'[d]) = Len(buf[d]) + 1
BY AppendProperties DEF TypeInv, TypeOK, Push

LEMMA PoppedLen ==
  ASSUME TypeInv, NEW d \in Chans, buf[d] # <<>>, Pop(d)
  PROVE  Len(buf'[d]) = Len(buf[d]) - 1
<1>1. buf[d] \in Seq(Values) /\ buf'[d] = Tail(buf[d])
  BY DEF TypeInv, TypeOK, Pop
<1>2. QED
  BY <1>1, HeadTailProperties

LEMMA SendSafe ==
  ASSUME WaitInv, WaitInv', NEW g \in Goroutines, NEW d \in Chans, Safe(d),
         SendTurn(g, d)
  PROVE  Safe(d)'
<1>1. /\ TypeInv /\ TypeInv' /\ RxSafe(d) /\ TxSafe(d)
      /\ RendezvousOK /\ RendezvousOK'
      /\ pc[g] = "run" \/ (pc[g] = "tx_wait" /\ g \notin asleep /\ at[g] = d)
      /\ g \notin asleep
  BY DEF WaitInv, Safe, SendTurn, SleepInv, AsleepBlocked, BlockedPoints
<1>2. CASE closed[d] /\ Return(g, d)
  <2>1. RxWaiters(d) = {} /\ TxWaiters(d) = {}
    BY <1>2 DEF WaitInv, SleepInv, ClosedWakesAll
  <2>2. RxWaiters(d)' = {} /\ TxWaiters(d)' = {}
    BY <1>1, <1>2, <2>1, Moved DEF Return, RxWaiters, TxWaiters, At
  <2>3. QED
    BY <1>1, <2>2, RxKept, TxKept DEF Safe
<1>3. CASE Full(d) /\ Wait(g, d, "tx_wait")
  <2>1. buf' = buf /\ Goto(g, d, "tx_wait") /\ asleep' = asleep \cup {g}
    BY <1>3 DEF Wait, chanVars
  <2>2. RxWaiters(d)' = RxWaiters(d) /\ RxWakeups(d)' = RxWakeups(d)
    BY <1>1, <2>1, Moved DEF RxWaiters, RxWakeups, At
  <2>3. Len(buf[d]) >= Capacity[d]
    BY <1>3 DEF Full
  <2>4. QED
    BY <1>1, <2>1, <2>2, <2>3, TxKept DEF Safe, RxSafe
<1>4. CASE PushAndNotify(g, d)
  <2>1. PICK woken \in NotifyOne(RxWaiters(d)) :
          \/ Capacity[d] = 0 /\ Goto(g, d, "rv_wait") /\ asleep' = (asleep \ woken) \cup {g}
          \/ Capacity[d] # 0 /\ Goto(g, d, "run") /\ asleep' = asleep \ woken
    BY <1>4 DEF PushAndNotify
  <2>2. PICK point \in {"rv_wait", "run"} : Goto(g, d, point)
    BY <2>1
  <2>3. /\ pc'[g] \in {"rv_wait", "run"} /\ at'[g] = d
        /\ \A k \in Goroutines \ {g} : pc'[k] = pc[k] /\ at'[k] = at[k]
    BY <1>1, <2>2, Moved
  <2>4. Len(buf'[d]) = Len(buf[d]) + 1 /\ Len(buf[d]) \in Nat
    BY <1>1, <1>4, PushedLen, LenProperties DEF PushAndNotify, TypeInv, TypeOK
  <2>5. RxSafe(d)'
    <3>1. CASE RxWaiters(d) = {}
      <4>1. RxWaiters(d)' = {}
        BY <2>1, <2>3, <3>1 DEF RxWaiters, At
      <4>2. QED
        BY <1>1, <4>1, RxKept
    <3>2. CASE RxWaiters(d) # {}
      <4>1. PICK k \in RxWaiters(d) : woken = {k}
        BY <2>1, <3>2 DEF NotifyOne
      <4>2. k # g /\ k \in asleep /\ k \in Goroutines /\ at[k] = d /\ pc[k] = "rx_wait"
        BY <1>1, <4>1 DEF RxWaiters, At
      <4>3. k \notin RxWakeups(d) /\ RxWakeups(d) \cup {k} \subseteq RxWakeups(d)'
        BY <1>1, <2>1, <2>3, <4>1, <4>2 DEF RxWakeups, At
      <4>4. QED
        BY <1>1, <2>4, <3>2, <4>3, RxKept
    <3>3. QED
      BY <3>1, <3>2
  <2>6. TxSafe(d)'
    <3>1. CASE Capacity[d] = 0
      BY <1>1, <3>1, TxKept
    <3>2. CASE Capacity[d] # 0
      <4>1. TxWaiters(d)' \subseteq TxWaiters(d)
        BY <1>1, <2>1, <2>3, <3>2 DEF TxWaiters, At
      <4>2. TxWakeups(d) \ {g} \subseteq TxWakeups(d)'
        BY <1>1, <2>1, <2>3, <3>2 DEF TxWakeups, At
      <4>3. QED
        BY <1>1, <2>4, <4>1, <4>2, TxKept
    <3>3. QED
      BY <3>1, <3>2
  <2>7. QED
    BY <2>5, <2>6 DEF Safe
<1>5. QED
  BY <1>2, <1>3, <1>4 DEF SendTurn, SendOrWait

LEMMA RecvSafe ==
  ASSUME WaitInv, WaitInv', NEW g \in Goroutines, NEW d \in Chans, Safe(d),
         RecvTurn(g, d)
  PROVE  Safe(d)'
<1>1. /\ TypeInv /\ TypeInv' /\ RxSafe(d) /\ TxSafe(d)
      /\ RendezvousOK /\ RendezvousOK'
      /\ pc[g] = "run" \/ (pc[g] = "rx_wait" /\ g \notin asleep /\ at[g] = d)
      /\ g \notin asleep
  BY DEF WaitInv, Safe, RecvTurn, SleepInv, AsleepBlocked, BlockedPoints
<1>2. CASE buf[d] = <<>> /\ closed[d] /\ Return(g, d)
  <2>1. RxWaiters(d) = {} /\ TxWaiters(d) = {}
    BY <1>2 DEF WaitInv, SleepInv, ClosedWakesAll
  <2>2. RxWaiters(d)' = {} /\ TxWaiters(d)' = {}
    BY <1>1, <1>2, <2>1, Moved DEF Return, RxWaiters, TxWaiters, At
  <2>3. QED
    BY <1>1, <2>2, RxKept, TxKept DEF Safe
<1>3. CASE buf[d] = <<>> /\ Wait(g, d, "rx_wait")
  <2>1. buf' = buf /\ Goto(g, d, "rx_wait") /\ asleep' = asleep \cup {g}
    BY <1>3 DEF Wait, chanVars
  <2>2. TxWaiters(d)' = TxWaiters(d) /\ TxWakeups(d)' = TxWakeups(d)
    BY <1>1, <2>1, Moved DEF TxWaiters, TxWakeups, At
  <2>3. Len(buf'[d]) = 0
    BY <1>3, <2>1, EmptySeq
  <2>4. QED
    BY <1>1, <2>1, <2>2, <2>3, RxKept DEF Safe, TxSafe
<1>4. CASE /\ buf[d] # <<>> /\ Pop(d) /\ Goto(g, d, "run")
           /\ \E woken \in NotifyOne(TxWaiters(d)) : asleep' = asleep \ woken
  <2>1. PICK woken \in NotifyOne(TxWaiters(d)) : asleep' = asleep \ woken
    BY <1>4
  <2>2. /\ pc'[g] = "run" /\ at'[g] = d
        /\ \A k \in Goroutines \ {g} : pc'[k] = pc[k] /\ at'[k] = at[k]
    BY <1>1, <1>4, Moved
  <2>3. Len(buf'[d]) = Len(buf[d]) - 1 /\ Len(buf[d]) \in Nat
    BY <1>1, <1>4, PoppedLen, LenProperties DEF TypeInv, TypeOK
  <2>4. RxSafe(d)'
    <3>1. RxWaiters(d)' \subseteq RxWaiters(d) /\ RxWakeups(d) \ {g} \subseteq RxWakeups(d)'
      BY <1>1, <2>1, <2>2 DEF RxWaiters, RxWakeups, At
    <3>2. QED
      BY <1>1, <2>3, <3>1, RxKept
  <2>5. TxSafe(d)'
    <3>1. CASE Capacity[d] = 0
      BY <1>1, <3>1, TxKept
    <3>2. CASE TxWaiters(d) = {}
      <4>1. TxWaiters(d)' = {}
        BY <1>1, <2>1, <2>2, <3>2 DEF TxWaiters, At
      <4>2. QED
        BY <1>1, <4>1, TxKept
    <3>3. CASE Capacity[d] # 0 /\ TxWaiters(d) # {}
      <4>1. PICK k \in TxWaiters(d) : woken = {k}
        BY <2>1, <3>3 DEF NotifyOne
      <4>2. k # g /\ k \in asleep /\ k \in Goroutines /\ at[k] = d /\ pc[k] = "tx_wait"
        BY <1>1, <3>3, <4>1 DEF TxWaiters, At, RendezvousOK
      <4>3. k \notin TxWakeups(d) /\ TxWakeups(d) \cup {k} \subseteq TxWakeups(d)'
        BY <1>1, <2>1, <2>2, <4>1, <4>2 DEF TxWakeups, At
      <4>4. QED
        BY <1>1, <2>3, <3>3, <4>3, TxKept
    <3>4. QED
      BY <3>1, <3>2, <3>3
  <2>6. QED
    BY <2>4, <2>5 DEF Safe
<1>5. QED
  BY <1>2, <1>3, <1>4 DEF RecvTurn, RecvOrWait

LEMMA TrySafe ==
  ASSUME WaitInv, WaitInv', NEW g \in Goroutines, NEW d \in Chans, Safe(d),
         TrySendTurn(g, d) \/ TryRecvTurn(g, d)
  PROVE  Safe(d)'
<1>1. /\ TypeInv /\ TypeInv' /\ RxSafe(d) /\ TxSafe(d)
      /\ pc[g] = "run" /\ asleep' = asleep /\ g \notin asleep
      /\ Len(buf[d]) \in Nat /\ Len(buf'[d]) \in Nat
  BY LenProperties DEF WaitInv, Safe, TrySendTurn, TryRecvTurn, SleepInv,
     AsleepBlocked, BlockedPoints, TypeInv, TypeOK
<1>2. CASE TrySendTurn(g, d)
  <2>1. /\ pc'[g] = "rx_notify" /\ at'[g] = d
        /\ \A k \in Goroutines \ {g} : pc'[k] = pc[k] /\ at'[k] = at[k]
    BY <1>1, <1>2, Moved DEF TrySendTurn
  <2>2. Len(buf'[d]) = Len(buf[d]) + 1
    BY <1>1, <1>2, PushedLen DEF TrySendTurn
  <2>3. /\ RxWaiters(d)' = RxWaiters(d) /\ TxWaiters(d)' = TxWaiters(d)
        /\ TxWakeups(d)' = TxWakeups(d)
        /\ g \notin RxWakeups(d) /\ RxWakeups(d) \cup {g} \subseteq RxWakeups(d)'
    BY <1>1, <2>1 DEF RxWaiters, TxWaiters, RxWakeups, TxWakeups, At
  <2>4. QED
    BY <1>1, <2>2, <2>3, RxKept, TxKept DEF Safe
<1>3. CASE TryRecvTurn(g, d)
  <2>1. /\ pc'[g] = "tx_notify" /\ at'[g] = d
        /\ \A k \in Goroutines \ {g} : pc'[k] = pc[k] /\ at'[k] = at[k]
    BY <1>1, <1>3, Moved DEF TryRecvTurn
  <2>2. Len(buf'[d]) = Len(buf[d]) - 1
    BY <1>1, <1>3, PoppedLen DEF TryRecvTurn
  <2>3. /\ RxWaiters(d)' = RxWaiters(d) /\ TxWaiters(d)' = TxWaiters(d)
        /\ RxWakeups(d)' = RxWakeups(d)
        /\ g \notin TxWakeups(d) /\ TxWakeups(d) \cup {g} \subseteq TxWakeups(d)'
    BY <1>1, <2>1 DEF RxWaiters, TxWaiters, RxWakeups, TxWakeups, At
  <2>4. QED
    BY <1>1, <2>2, <2>3, RxKept, TxKept DEF Safe
<1>4. QED
  BY <1>2, <1>3

LEMMA NotifySafe ==
  ASSUME WaitInv, WaitInv', NEW g \in Goroutines, NEW d \in Chans, Safe(d),
         at[g] = d, NotifyRx(g) \/ NotifyTx(g)
  PROVE  Safe(d)'
<1>1. /\ TypeInv /\ TypeInv' /\ RxSafe(d) /\ TxSafe(d) /\ RendezvousOK
      /\ g \notin asleep /\ buf' = buf /\ Len(buf[d]) \in Nat
      /\ Goto(g, d, "run")
  BY LenProperties DEF WaitInv, Safe, NotifyRx, NotifyTx, SleepInv, AsleepBlocked,
     BlockedPoints, chanVars, TypeInv, TypeOK
<1>2. /\ pc'[g] = "run" /\ at'[g] = d
      /\ \A k \in Goroutines \ {g} : pc'[k] = pc[k] /\ at'[k] = at[k]
  BY <1>1, Moved
<1>3. CASE NotifyRx(g)
  <2>1. PICK woken \in NotifyOne(RxWaiters(d)) : asleep' = asleep \ woken
    BY <1>3 DEF NotifyRx
  <2>2. pc[g] = "rx_notify"
    BY <1>3 DEF NotifyRx
  <2>3. TxSafe(d)'
    <3>1. TxWaiters(d)' = TxWaiters(d) /\ TxWakeups(d)' = TxWakeups(d)
      BY <1>2, <2>1, <2>2, NotifyOneSubset DEF RxWaiters, TxWaiters, TxWakeups, At
    <3>2. QED
      BY <1>1, <3>1 DEF TxSafe
  <2>4. CASE RxWaiters(d) = {}
    <3>1. RxWaiters(d)' = {}
      BY <1>2, <2>1, <2>4 DEF RxWaiters, At
    <3>2. QED
      BY <1>1, <2>3, <3>1, RxKept DEF Safe
  <2>5. CASE RxWaiters(d) # {}
    <3>1. PICK k \in RxWaiters(d) : woken = {k}
      BY <2>1, <2>5 DEF NotifyOne
    <3>2. k # g /\ k \in asleep /\ k \in Goroutines /\ at[k] = d /\ pc[k] = "rx_wait"
      BY <1>1, <3>1 DEF RxWaiters, At
    <3>3. /\ k \notin RxWakeups(d)
          /\ (RxWakeups(d) \ {g}) \cup {k} \subseteq RxWakeups(d)'
      BY <1>1, <1>2, <2>1, <2>2, <3>1, <3>2 DEF RxWakeups, At
    <3>4. /\ Len(buf'[d]) <= Len(buf[d])
          /\ \E x, y : /\ x \notin RxWakeups(d)
                     /\ (RxWakeups(d) \ {y}) \cup {x} \subseteq RxWakeups(d)'
      BY <1>1, <3>3
    <3>5. RxSafe(d)'
      BY <1>1, <2>5, <3>4, RxKept
    <3>6. QED
      BY <2>3, <3>5 DEF Safe
  <2>6. QED
    BY <2>4, <2>5
<1>4. CASE NotifyTx(g)
  <2>1. PICK woken \in NotifyOne(TxWaiters(d)) : asleep' = asleep \ woken
    BY <1>4 DEF NotifyTx
  <2>2. pc[g] = "tx_notify"
    BY <1>4 DEF NotifyTx
  <2>3. RxSafe(d)'
    <3>1. RxWaiters(d)' = RxWaiters(d) /\ RxWakeups(d)' = RxWakeups(d)
      BY <1>2, <2>1, <2>2, NotifyOneSubset DEF TxWaiters, RxWaiters, RxWakeups, At
    <3>2. QED
      BY <1>1, <3>1 DEF RxSafe
  <2>4. CASE Capacity[d] = 0
    BY <1>1, <2>3, <2>4, TxKept DEF Safe
  <2>5. CASE TxWaiters(d) = {}
    <3>1. TxWaiters(d)' = {}
      BY <1>2, <2>1, <2>5 DEF TxWaiters, At
    <3>2. QED
      BY <1>1, <2>3, <3>1, TxKept DEF Safe
  <2>6. CASE Capacity[d] # 0 /\ TxWaiters(d) # {}
    <3>1. PICK k \in TxWaiters(d) : woken = {k}
      BY <2>1, <2>6 DEF NotifyOne
    <3>2. k # g /\ k \in asleep /\ k \in Goroutines /\ at[k] = d /\ pc[k] = "tx_wait"
      BY <1>1, <2>6, <3>1 DEF TxWaiters, At, RendezvousOK
    <3>3. /\ k \notin TxWakeups(d)
          /\ (TxWakeups(d) \ {g}) \cup {k} \subseteq TxWakeups(d)'
      BY <1>1, <1>2, <2>1, <2>2, <3>1, <3>2 DEF TxWakeups, At
    <3>4. /\ Len(buf'[d]) >= Len(buf[d])
          /\ \E x, y : /\ x \notin TxWakeups(d)
                     /\ (TxWakeups(d) \ {y}) \cup {x} \subseteq TxWakeups(d)'
      BY <1>1, <3>3
    <3>5. TxSafe(d)'
      BY <1>1, <2>6, <3>4, TxKept
    <3>6. QED
      BY <2>3, <3>5 DEF Safe
  <2>7. QED
    BY <2>4, <2>5, <2>6
<1>5. QED
  BY <1>3, <1>4

\* A sender back from its rendezvous wait is on an unbuffered channel, where
\* no sender waits for a slot.
LEMMA RendezvousSafe ==
  ASSUME WaitInv, WaitInv', NEW g \in Goroutines, NEW d \in Chans, Safe(d),
         at[g] = d, ResumeRendezvous(g)
  PROVE  Safe(d)'
<1>1. /\ TypeInv /\ TypeInv' /\ RxSafe(d) /\ TxSafe(d)
      /\ pc[g] = "rv_wait" /\ Capacity[d] = 0 /\ buf' = buf
  BY DEF WaitInv, Safe, ResumeRendezvous, Wait, Return, chanVars, RendezvousOK
<1>2. PICK point \in {"rv_wait", "run"} :
        Goto(g, d, point) /\ (asleep' = asleep \/ asleep' = asleep \cup {g})
  BY DEF ResumeRendezvous, Wait, Return
<1>3. /\ pc'[g] = point /\ at'[g] = d
      /\ \A k \in Goroutines \ {g} : pc'[k] = pc[k] /\ at'[k] = at[k]
  BY <1>1, <1>2, Moved
<1>4. RxWaiters(d)' = RxWaiters(d) /\ RxWakeups(d)' = RxWakeups(d)
  BY <1>1, <1>2, <1>3 DEF RxWaiters, RxWakeups, At
<1>5. QED
  BY <1>1, <1>4, TxKept DEF Safe, RxSafe

\* A step that moves nobody: close, and a wakeup that nobody sent.
LEMMA WakeSafe ==
  ASSUME WaitInv, WaitInv', NEW g \in Goroutines, NEW d \in Chans, Safe(d),
         SpuriousWakeup(g) \/ \E c \in Chans : CloseTurn(g, c)
  PROVE  Safe(d)'
<1>1. /\ TypeInv /\ TypeInv' /\ RxSafe(d) /\ TxSafe(d)
      /\ buf' = buf /\ pc' = pc /\ at' = at /\ asleep' \subseteq asleep
      /\ Len(buf[d]) \in Nat
  BY LenProperties DEF WaitInv, Safe, SpuriousWakeup, CloseTurn, TypeInv, TypeOK
<1>2. /\ RxWaiters(d)' \subseteq RxWaiters(d) /\ RxWakeups(d) \subseteq RxWakeups(d)'
      /\ TxWaiters(d)' \subseteq TxWaiters(d) /\ TxWakeups(d) \subseteq TxWakeups(d)'
  BY <1>1 DEF RxWaiters, TxWaiters, RxWakeups, TxWakeups, At
<1>3. RxSafe(d)'
  BY <1>1, <1>2, RxKept
<1>4. TxSafe(d)'
  BY <1>1, <1>2, TxKept
<1>5. QED
  BY <1>3, <1>4 DEF Safe

\* What happens on one channel leaves every other one safe.
LEMMA OtherSafe ==
  ASSUME TypeInv, NEW g \in Goroutines, NEW c, NEW d \in Chans, d # c, Safe(d),
         NEW point, pc[g] = "run" \/ at[g] = c, Goto(g, c, point),
         \A k \in Goroutines \ {g} : at[k] = d => (k \in asleep' <=> k \in asleep),
         buf'[d] = buf[d]
  PROVE  Safe(d)'
<1>1. /\ RxWaiters(d)' = RxWaiters(d) /\ RxWakeups(d)' = RxWakeups(d)
      /\ TxWaiters(d)' = TxWaiters(d) /\ TxWakeups(d)' = TxWakeups(d)
  BY OtherChannel
<1>2. QED
  BY <1>1 DEF Safe, RxSafe, TxSafe

\* The turns on c, seen from another channel.
LEMMA TurnElsewhere ==
  ASSUME TypeInv, NEW g \in Goroutines, NEW c \in Chans, NEW d \in Chans, d # c,
         \/ SendTurn(g, c) \/ RecvTurn(g, c)
         \/ TrySendTurn(g, c) \/ TryRecvTurn(g, c)
         \/ at[g] = c /\ (ResumeRendezvous(g) \/ NotifyRx(g) \/ NotifyTx(g))
  PROVE  /\ pc[g] = "run" \/ at[g] = c
         /\ \E point : Goto(g, c, point)
         /\ \A k \in Goroutines \ {g} : at[k] = d => (k \in asleep' <=> k \in asleep)
         /\ buf'[d] = buf[d]
<1>2. pc[g] = "run" \/ at[g] = c
  BY DEF SendTurn, RecvTurn, TrySendTurn, TryRecvTurn
<1>3. \E point : Goto(g, c, point)
  BY DEF SendTurn, SendOrWait, RecvTurn, RecvOrWait, TrySendTurn, TryRecvTurn,
     ResumeRendezvous, NotifyRx, NotifyTx, Wait, Return, PushAndNotify
<1>4. \A W : \A woken \in NotifyOne(W) : woken \subseteq W
  BY NotifyOneSubset
<1>5. \A k \in Goroutines \ {g} : at[k] = d => (k \in asleep' <=> k \in asleep)
  <2>1. \A k \in RxWaiters(c) \cup TxWaiters(c) : at[k] = c
    BY DEF RxWaiters, TxWaiters, At
  <2>2. \/ asleep' \in {asleep, asleep \cup {g}}
        \/ \E woken \in SUBSET (RxWaiters(c) \cup TxWaiters(c)) :
             asleep' \in {asleep \ woken, (asleep \ woken) \cup {g}}
    <3>1. CASE SendTurn(g, c)
      BY <1>4, <3>1 DEF SendTurn, SendOrWait, Wait, Return, PushAndNotify
    <3>2. CASE RecvTurn(g, c)
      BY <1>4, <3>2 DEF RecvTurn, RecvOrWait, Wait, Return
    <3>3. CASE TrySendTurn(g, c) \/ TryRecvTurn(g, c)
      BY <3>3 DEF TrySendTurn, TryRecvTurn
    <3>4. CASE at[g] = c /\ ResumeRendezvous(g)
      BY <3>4 DEF ResumeRendezvous, Wait, Return
    <3>5. CASE at[g] = c /\ (NotifyRx(g) \/ NotifyTx(g))
      BY <1>4, <3>5 DEF NotifyRx, NotifyTx
    <3>6. QED
      BY <3>1, <3>2, <3>3, <3>4, <3>5
  <2>3. QED
    BY <2>1, <2>2
<1>6. buf'[d] = buf[d]
  BY DEF SendTurn, SendOrWait, RecvTurn, RecvOrWait, TrySendTurn, TryRecvTurn,
      ResumeRendezvous, NotifyRx, NotifyTx, Wait, Return, PushAndNotify, Push, Pop,
      chanVars, TypeInv, TypeOK
<1>7. QED
  BY <1>2, <1>3, <1>5, <1>6

LEMMA SafeStep ==
  ASSUME WaitInv, WaitInv', [Next]_vars, NEW d \in Chans, Safe(d)
  PROVE  Safe(d)'
<1>1. TypeInv /\ AtOK
  BY DEF WaitInv, TypeInv
<1>2. ASSUME NEW g \in Goroutines, NEW c \in Chans,
             \/ SendTurn(g, c) \/ RecvTurn(g, c)
             \/ TrySendTurn(g, c) \/ TryRecvTurn(g, c)
      PROVE  Safe(d)'
  <2>1. CASE c = d
    BY <1>2, <2>1, SendSafe, RecvSafe, TrySafe
  <2>2. CASE c # d
    BY <1>1, <1>2, <2>2, TurnElsewhere, OtherSafe
  <2>3. QED
    BY <2>1, <2>2
<1>3. ASSUME NEW g \in Goroutines, ResumeRendezvous(g) \/ NotifyRx(g) \/ NotifyTx(g)
      PROVE  Safe(d)'
  <2>1. PICK c \in Chans : at[g] = c
    BY <1>1, <1>3 DEF AtOK, InsidePoints, BlockedPoints, ResumeRendezvous, NotifyRx, NotifyTx
  <2>2. CASE c = d
    BY <1>3, <2>1, <2>2, RendezvousSafe, NotifySafe
  <2>3. CASE c # d
    BY <1>1, <1>3, <2>1, <2>3, TurnElsewhere, OtherSafe
  <2>4. QED
    BY <2>2, <2>3
<1>4. ASSUME NEW g \in Goroutines, LeaveTurn(g)  PROVE Safe(d)'
  <2>1. PICK point : Goto(g, Nil, point)
    BY <1>4 DEF LeaveTurn
  <2>2. pc[g] = "run" /\ asleep' = asleep /\ buf' = buf /\ d # Nil
    BY <1>4, ChanAssumption DEF LeaveTurn, chanVars
  <2>3. QED
    BY <1>1, <2>1, <2>2, OtherSafe
<1>5. CASE UNCHANGED vars
  BY <1>5 DEF vars, Safe, RxSafe, TxSafe, RxWaiters, TxWaiters, RxWakeups, TxWakeups, At
<1>6. QED
  BY <1>1, <1>2, <1>3, <1>4, <1>5, WakeSafe, StepCases

LEMMA WaitInvariant == Spec => []WaitInv
<1>1. Init => RendezvousOK
  BY DEF Init, RendezvousOK
<1>2. TypeInv /\ RendezvousOK /\ [Next]_vars => RendezvousOK'
  BY RendezvousOKStep
<1>3. QED
  BY <1>1, <1>2, TypeInvariant, SleepInvariant, PTL DEF Spec, WaitInv

-----------------------------------------------------------------------------
(* The runtime implements GoChannel.  What a goroutine has pushed carries  *)
(* the numbers of its sends so far, so that the next one is new.           *)

Old(v) == /\ v[2] <= sends[v[1]]
          /\ pc[v[1]] = "tx_wait" => v[2] < sends[v[1]]

Numbered == \A c \in Chans : \A i \in 1..Len(sent[c]) : Old(sent[c][i])

\* Numbers only grow, and who comes to wait for a slot has a new one.
LEMMA SendsStep ==
  ASSUME TypeInv, [Next]_vars, NEW k \in Goroutines
  PROVE  /\ sends[k] <= sends'[k]
         /\ pc'[k] = "tx_wait" => \/ pc[k] = "tx_wait"
                                 \/ sends[k] < sends'[k]
<1> DEFINE Goal == /\ sends[k] <= sends'[k]
                   /\ pc'[k] = "tx_wait" => \/ pc[k] = "tx_wait"
                                           \/ sends[k] < sends'[k]
<1>1. /\ pc \in [Goroutines -> Points] /\ sends \in [Goroutines -> 0..MaxSends]
      /\ MaxSends \in Nat /\ sends[k] \in Nat /\ AtOK
  BY ChanAssumption DEF TypeInv, TypeOK
<1>2. ASSUME NEW g \in Goroutines, NEW c \in Chans, SendTurn(g, c)  PROVE Goal
  <2>1. \/ sends' = sends /\ pc[g] = "tx_wait"
        \/ sends' = [sends EXCEPT ![g] = sends[g] + 1]
    BY <1>2 DEF SendTurn, StartSend
  <2>2. \A j \in Goroutines \ {g} : pc'[j] = pc[j]
    BY <1>1, <1>2 DEF SendTurn, SendOrWait, Return, Wait, PushAndNotify, Goto
  <2>3. CASE k = g
    BY <1>1, <2>1, <2>3
  <2>4. CASE k # g
    BY <1>1, <2>1, <2>2, <2>4
  <2>5. QED
    BY <2>3, <2>4
<1>3. ASSUME NEW g \in Goroutines, NEW c, NEW point \in {"run", "rv_wait", "rx_wait",
               "rx_notify", "tx_notify", "parked", "panicked"},
             Goto(g, c, point), StartSend(g) \/ UNCHANGED sends
      PROVE  Goal
  <2>1. sends[k] <= sends'[k]
    BY <1>1, <1>3 DEF StartSend
  <2>2. pc'[k] = "tx_wait" => pc[k] = "tx_wait"
    BY <1>1, <1>3 DEF Goto
  <2>3. QED
    BY <2>1, <2>2
<1>4. ASSUME NEW g \in Goroutines, NEW c \in Chans,
             RecvTurn(g, c) \/ TrySendTurn(g, c) \/ TryRecvTurn(g, c)
      PROVE  Goal
  BY <1>3, <1>4 DEF RecvTurn, RecvOrWait, Return, Wait, TrySendTurn, TryRecvTurn
<1>5. ASSUME NEW g \in Goroutines,
             ResumeRendezvous(g) \/ NotifyRx(g) \/ NotifyTx(g)
      PROVE  Goal
  <2>1. PICK c \in Chans : at[g] = c
    BY <1>1, <1>5 DEF AtOK, InsidePoints, BlockedPoints, ResumeRendezvous, NotifyRx, NotifyTx
  <2>2. UNCHANGED sends /\ (Goto(g, c, "run") \/ Goto(g, c, "rv_wait"))
    BY <1>5, <2>1 DEF ResumeRendezvous, NotifyRx, NotifyTx, Return, Wait
  <2>3. QED
    BY <1>3, <2>2
<1>6. ASSUME NEW g \in Goroutines, LeaveTurn(g)  PROVE Goal
  BY <1>3, <1>6 DEF LeaveTurn
<1>7. ASSUME UNCHANGED <<pc, sends>>  PROVE Goal
  BY <1>1, <1>7
<1>8. QED
  BY <1>1, <1>2, <1>4, <1>5, <1>6, <1>7, StepCases
  DEF SpuriousWakeup, CloseTurn, vars

\* The value that is pushed is new, and its sender does not wait for a slot.
LEMMA PushedNew ==
  ASSUME TypeInv, Numbered, NEW g \in Goroutines, NEW c \in Chans,
         SendTurn(g, c) \/ TrySendTurn(g, c), Push(c, Value(g)), ~closed[c], ~Full(c)
  PROVE  /\ \A d \in Chans : \A i \in 1..Len(sent[d]) : sent[d][i] # Value(g)
         /\ pc'[g] # "tx_wait"
<1>1. /\ pc \in [Goroutines -> Points] /\ sends \in [Goroutines -> 0..MaxSends]
      /\ sends[g] \in Nat /\ MaxSends \in Nat /\ sent \in [Chans -> Seq(Values)]
  BY ChanAssumption DEF TypeInv, TypeOK
<1>2. \/ sends'[g] = sends[g] + 1
      \/ pc[g] = "tx_wait" /\ sends'[g] = sends[g]
  BY <1>1 DEF SendTurn, TrySendTurn, StartSend
<1>3. ASSUME NEW d \in Chans, NEW i \in 1..Len(sent[d]), sent[d][i] = Value(g)  PROVE FALSE
  <2>1. Old(<<g, sends'[g]>>)
    BY <1>3 DEF Numbered, Value
  <2>2. /\ sends'[g] <= sends[g]
        /\ pc[g] = "tx_wait" => sends'[g] < sends[g]
    BY <2>1 DEF Old
  <2>3. QED
    BY <1>1, <1>2, <2>2
<1>4. pc'[g] # "tx_wait"
  BY <1>1 DEF SendTurn, SendOrWait, PushAndNotify, TrySendTurn, Goto
<1>5. QED
  BY <1>3, <1>4

LEMMA NumberedStep ==
  ASSUME TypeInv, TypeInv', Numbered, [Next]_vars
  PROVE  Numbered'
<1>1. /\ sends \in [Goroutines -> 0..MaxSends] /\ sends' \in [Goroutines -> 0..MaxSends]
      /\ sent \in [Chans -> Seq(Values)] /\ MaxSends \in Nat
  BY ChanAssumption DEF TypeInv, TypeOK
<1>2. ASSUME NEW v \in Values, Old(v)  PROVE Old(v)'
  <2>1. /\ v[1] \in Goroutines /\ v[2] \in Nat
        /\ sends[v[1]] \in Nat /\ sends'[v[1]] \in Nat
    BY <1>1 DEF Values
  <2>2. /\ sends[v[1]] <= sends'[v[1]]
        /\ pc'[v[1]] = "tx_wait" => pc[v[1]] = "tx_wait" \/ sends[v[1]] < sends'[v[1]]
    BY <2>1, SendsStep
  <2>3. QED
    BY <1>2, <2>1, <2>2 DEF Old
<1>3. \A c \in Chans : \A i \in 1..Len(sent[c]) : sent[c][i] \in Values /\ Old(sent[c][i])
  BY <1>1, ElementOfSeq DEF Numbered
<1>4. ASSUME NEW g \in Goroutines, NEW c \in Chans,
             SendTurn(g, c) \/ TrySendTurn(g, c), Value(g) \in Values,
             ~closed[c], ~Full(c), Push(c, Value(g))
      PROVE  Numbered'
  <2>1. PICK v \in Values : v = Value(g)
    BY <1>4
  <2>2. Old(v)'
    <3>1. pc'[g] # "tx_wait" /\ sends'[g] \in Nat
      BY <1>1, <1>4, PushedNew
    <3>2. v[1] = g /\ v[2] = sends'[g]
      BY <2>1 DEF Value
    <3>3. QED
      BY <3>1, <3>2 DEF Old
  <2>3. sent' = [sent EXCEPT ![c] = Append(sent[c], v)]
    BY <1>4, <2>1 DEF Push
  <2>4. ASSUME NEW d \in Chans, NEW i \in 1..Len(sent'[d])
        PROVE  \/ sent'[d][i] = v
               \/ i \in 1..Len(sent[d]) /\ sent'[d][i] = sent[d][i]
    BY <1>1, <2>3, AppendProperties
  <2>5. ASSUME NEW d \in Chans, NEW i \in 1..Len(sent'[d])
        PROVE  \E w \in Values : w = sent'[d][i] /\ Old(w)'
    BY <1>2, <1>3, <2>2, <2>4
  <2>6. QED
    BY <2>5 DEF Numbered, Old
<1>5. CASE UNCHANGED sent
  <2>1. ASSUME NEW d \in Chans, NEW i \in 1..Len(sent'[d])
        PROVE  \E w \in Values : w = sent'[d][i] /\ Old(w)'
    BY <1>2, <1>3, <1>5
  <2>2. QED
    BY <2>1 DEF Numbered, Old
<1>6. QED
  BY <1>4, <1>5, QueueStep DEF Pop

\* A step closes one channel, and moves no value then, or closes none.
LEMMA ClosedStep ==
  ASSUME TypeInv, [Next]_vars
  PROVE  \/ closed' = closed
         \/ \E c \in Chans : /\ ~closed[c] /\ closed' = [closed EXCEPT ![c] = TRUE]
                            /\ UNCHANGED <<buf, sent, rcvd>>
<1>1. AtOK
  BY DEF TypeInv
<1>2. QED
  BY <1>1, StepCases
  DEF SendTurn, SendOrWait, RecvTurn, RecvOrWait, TrySendTurn, TryRecvTurn, CloseTurn,
      ResumeRendezvous, NotifyRx, NotifyTx, LeaveTurn, SpuriousWakeup, Wait, Return,
      PushAndNotify, Push, Pop, chanVars, vars

LEMMA AbstractStep ==
  ASSUME TypeInv, TypeInv', Fifo, Fifo', Numbered, [Next]_vars
  PROVE  [Abstract!Next]_(Abstract!vars)
<1> DEFINE log == sent
           taken == [c \in Chans |-> Len(rcvd[c])]
<1>1. /\ sent \in [Chans -> Seq(Values)] /\ rcvd \in [Chans -> Seq(Values)]
      /\ buf \in [Chans -> Seq(Values)] /\ Capacity \in [Chans -> Nat]
      /\ closed \in [Chans -> BOOLEAN]
      /\ \A c \in Chans : /\ Len(rcvd[c]) \in Nat /\ Len(buf[c]) \in Nat
                          /\ Len(sent[c]) = Len(rcvd[c]) + Len(buf[c])
  BY ChanAssumption, LenProperties, ConcatProperties DEF TypeInv, TypeOK, Fifo
<1>2. ASSUME NEW g \in Goroutines, NEW c \in Chans,
             SendTurn(g, c) \/ TrySendTurn(g, c), Value(g) \in Values,
             ~closed[c], ~Full(c), Push(c, Value(g))
      PROVE  \E v \in Values : Abstract!Accept(c, v)
  <2>1. Abstract!HasRoom(c)
    BY <1>1, <1>2 DEF Full, Abstract!HasRoom
  <2>2. Abstract!Fresh(Value(g))
    BY <1>2, PushedNew DEF Abstract!Fresh
  <2>3. QED
    BY <1>2, <2>1, <2>2 DEF Push, Abstract!Accept
<1>3. ASSUME NEW c \in Chans, buf[c] # <<>>, Pop(c)
      PROVE  Abstract!HandOut(c)
  <2>1. Len(buf[c]) > 0
    BY <1>1, <1>3, EmptySeq
  <2>2. Len(rcvd[c]) < Len(sent[c])
    BY <1>1, <2>1
  <2>3. rcvd' = [rcvd EXCEPT ![c] = Append(rcvd[c], Head(buf[c]))]
    BY <1>3 DEF Pop
  <2>4. Len(rcvd'[c]) = Len(rcvd[c]) + 1
    BY <1>1, <1>3, <2>3, HeadTailProperties, AppendProperties
  <2>5. taken' = [taken EXCEPT ![c] = taken[c] + 1]
    BY <1>1, <2>3, <2>4
  <2>6. QED
    BY <1>3, <2>2, <2>5 DEF Pop, Abstract!HandOut
<1>4. CASE UNCHANGED <<buf, sent, rcvd>>
  BY <1>4, ClosedStep DEF Abstract!Next, Abstract!Close, Abstract!vars
<1>5. QED
  BY <1>2, <1>3, <1>4, QueueStep DEF Abstract!Next

\* The channel runtime implements the channel that a Go program relies on:
\* each critical section accepts a new value on an open channel with room,
\* hands out the oldest one, closes the channel, or changes nothing of it.
THEOREM ImplementsGoChannelAlways == Spec => ImplementsGoChannel
<1>1. Init => Abstract!Init /\ Numbered
  BY EmptySeq DEF Init, Abstract!Init, Numbered
<1>2. TypeInv /\ TypeInv' /\ Numbered /\ [Next]_vars => Numbered'
  BY NumberedStep
<1>3. TypeInv /\ TypeInv' /\ Fifo /\ Fifo' /\ Numbered /\ [Next]_vars
        => [Abstract!Next]_(Abstract!vars)
  BY AbstractStep
<1>4. QED
  BY <1>1, <1>2, <1>3, TypeInvariant, FifoAlways, PTL
  DEF Spec, ImplementsGoChannel, Abstract!Spec

-----------------------------------------------------------------------------
(* The rendezvous.                                                         *)

Contains(s, v) == \E i \in DOMAIN s : s[i] = v

\* Whoever waits for a rendezvous has pushed the value of its send.
HandingOver ==
  \A g \in Goroutines : pc[g] = "rv_wait" => Contains(sent[at[g]], <<g, sends[g]>>)

\* What was sent on a channel stays sent.
LEMMA SentStays ==
  ASSUME TypeInv, [Next]_vars, NEW d \in Chans, NEW v, Contains(sent[d], v)
  PROVE  Contains(sent'[d], v)
<1>1. sent \in [Chans -> Seq(Values)]
  BY DEF TypeInv, TypeOK
<1>2. ASSUME NEW c \in Chans, NEW w \in Values, Push(c, w)
      PROVE  Contains(sent'[d], v)
  <2>1. CASE d # c
    BY <1>1, <1>2, <2>1 DEF Push
  <2>2. CASE d = c
    <3>1. sent[d] \in Seq(Values) /\ sent'[d] = Append(sent[d], w)
      BY <1>1, <1>2, <2>2 DEF Push
    <3>2. PICK i \in 1..Len(sent[d]) : sent[d][i] = v
      BY <3>1, LenProperties DEF Contains
    <3>3. i \in DOMAIN sent'[d] /\ sent'[d][i] = v
      BY <3>1, <3>2, AppendProperties
    <3>4. QED
      BY <3>3 DEF Contains
  <2>3. QED
    BY <2>1, <2>2
<1>3. QED
  BY <1>2, QueueStep DEF Pop

\* A push leaves the value in what was sent.
LEMMA PushSends ==
  ASSUME TypeInv, NEW c \in Chans, NEW v \in Values, Push(c, v)
  PROVE  Contains(sent'[c], v)
<1>1. sent[c] \in Seq(Values) /\ sent'[c] = Append(sent[c], v)
  BY DEF TypeInv, TypeOK, Push
<1>2. Len(sent[c]) + 1 \in DOMAIN sent'[c] /\ sent'[c][Len(sent[c]) + 1] = v
  BY <1>1, AppendProperties
<1>3. QED
  BY <1>2 DEF Contains

\* Only by a send does a goroutine come to wait for a rendezvous, and a
\* goroutine that goes on waiting does not begin another send.
LEMMA RendezvousEntered ==
  ASSUME TypeInv, [Next]_vars, NEW k \in Goroutines, pc'[k] = "rv_wait"
  PROVE  \/ pc[k] = "rv_wait" /\ at'[k] = at[k] /\ sends'[k] = sends[k]
         \/ \E c \in Chans : Value(k) \in Values /\ Push(c, Value(k)) /\ at'[k] = c
<1> DEFINE Goal ==
      \/ pc[k] = "rv_wait" /\ at'[k] = at[k] /\ sends'[k] = sends[k]
      \/ \E c \in Chans : Value(k) \in Values /\ Push(c, Value(k)) /\ at'[k] = c
<1>1. /\ pc \in [Goroutines -> Points] /\ at \in [Goroutines -> Handles]
      /\ sends \in [Goroutines -> 0..MaxSends]
  BY DEF TypeInv, TypeOK
<1>2. ASSUME NEW g \in Goroutines, NEW c \in Chans, SendTurn(g, c)
      PROVE  Goal
  <2>1. CASE k = g
    <3>1. PushAndNotify(g, c) /\ Goto(g, c, "rv_wait")
      BY <1>1, <1>2, <2>1
      DEF SendTurn, SendOrWait, Return, Wait, PushAndNotify, Goto
    <3>2. Value(g) \in Values
      BY <1>2, SendValue DEF SendTurn
    <3>3. QED
      BY <1>1, <2>1, <3>1, <3>2 DEF PushAndNotify, Goto
  <2>2. CASE k # g
    BY <1>1, <1>2, <2>2
    DEF SendTurn, SendOrWait, Return, Wait, PushAndNotify, Goto, StartSend
  <2>3. QED
    BY <2>1, <2>2
<1>3. ASSUME NEW g \in Goroutines, NEW c, NEW point \in Points \ {"rv_wait"},
             Goto(g, c, point), StartSend(g) \/ UNCHANGED sends
      PROVE  Goal
  BY <1>1, <1>3 DEF Goto, StartSend
<1>4. ASSUME NEW g \in Goroutines, NEW c \in Chans,
             RecvTurn(g, c) \/ TrySendTurn(g, c) \/ TryRecvTurn(g, c)
      PROVE  Goal
  BY <1>3, <1>4
  DEF RecvTurn, RecvOrWait, Return, Wait, TrySendTurn, TryRecvTurn, Points
<1>5. ASSUME NEW g \in Goroutines, NotifyRx(g) \/ NotifyTx(g) \/ LeaveTurn(g)
      PROVE  Goal
  BY <1>3, <1>5 DEF NotifyRx, NotifyTx, LeaveTurn, Points
<1>6. ASSUME NEW g \in Goroutines, ResumeRendezvous(g)  PROVE Goal
  BY <1>1, <1>6 DEF ResumeRendezvous, Return, Wait, Goto
<1>7. ASSUME UNCHANGED <<pc, at, sends>>  PROVE Goal
  BY <1>7
<1>8. QED
  BY <1>2, <1>4, <1>5, <1>6, <1>7, StepCases
  DEF SpuriousWakeup, CloseTurn, vars, TypeInv

LEMMA HandingOverStep ==
  ASSUME TypeInv, HandingOver, [Next]_vars
  PROVE  HandingOver'
<1> SUFFICES ASSUME NEW k \in Goroutines, pc'[k] = "rv_wait"
             PROVE  Contains(sent'[at'[k]], <<k, sends'[k]>>)
  BY DEF HandingOver, Contains
<1>1. CASE pc[k] = "rv_wait" /\ at'[k] = at[k] /\ sends'[k] = sends[k]
  <2>1. at[k] \in Chans /\ Contains(sent[at[k]], <<k, sends[k]>>)
    BY <1>1 DEF TypeInv, AtOK, InsidePoints, BlockedPoints, HandingOver
  <2>2. QED
    BY <1>1, <2>1, SentStays
<1>2. ASSUME NEW c \in Chans, Value(k) \in Values, Push(c, Value(k)), at'[k] = c
      PROVE  Contains(sent'[at'[k]], <<k, sends'[k]>>)
  BY <1>2, PushSends DEF Value
<1>3. QED
  BY <1>1, <1>2, RendezvousEntered

\* Only senders on buffered channels wait for a free slot.
SlotWaitOK == \A g \in Goroutines : pc[g] = "tx_wait" => Capacity[at[g]] > 0

LEMMA SlotWaitStep ==
  ASSUME TypeInv, SlotWaitOK, [Next]_vars
  PROVE  SlotWaitOK'
<1>1. /\ pc \in [Goroutines -> Points] /\ at \in [Goroutines -> Handles]
  BY DEF TypeInv, TypeOK
<1>2. ASSUME NEW g \in Goroutines, NEW c \in Chans, SendTurn(g, c)
      PROVE  SlotWaitOK'
  BY <1>1, <1>2
  DEF SendTurn, SendOrWait, Return, Wait, PushAndNotify, Goto, Full, SlotWaitOK
<1>3. ASSUME NEW g \in Goroutines, NEW c, NEW point, point # "tx_wait", Goto(g, c, point)
      PROVE  SlotWaitOK'
  BY <1>1, <1>3 DEF Goto, SlotWaitOK
<1>4. ASSUME NEW g \in Goroutines, NEW c \in Chans,
             RecvTurn(g, c) \/ TrySendTurn(g, c) \/ TryRecvTurn(g, c)
      PROVE  SlotWaitOK'
  BY <1>3, <1>4 DEF RecvTurn, RecvOrWait, Return, Wait, TrySendTurn, TryRecvTurn
<1>5. ASSUME NEW g \in Goroutines,
             NotifyRx(g) \/ NotifyTx(g) \/ LeaveTurn(g) \/ ResumeRendezvous(g)
      PROVE  SlotWaitOK'
  BY <1>3, <1>5 DEF NotifyRx, NotifyTx, LeaveTurn, ResumeRendezvous, Return, Wait
<1>6. ASSUME UNCHANGED <<pc, at>>  PROVE SlotWaitOK'
  BY <1>6 DEF SlotWaitOK
<1>7. QED
  BY <1>2, <1>4, <1>5, <1>6, StepCases DEF SpuriousWakeup, CloseTurn, vars, TypeInv

\* The channel keeps the wakeup of a sender that has it for itself.
LoneSafe(d) == Capacity[d] = 0 /\ LoneSender(d) /\ TxWaiters(d) # {} =>
                 buf[d] # <<>> \/ At(d, {"tx_notify"}) # {}

LoneInv == WaitInv /\ HandingOver /\ SlotWaitOK

\* A channel with one sender after a step had no other before it.
LEMMA LoneBefore ==
  ASSUME TypeInv, [Next]_vars, NEW d \in Chans, LoneSender(d)'
  PROVE  LoneSender(d)
<1>1. sent \in [Chans -> Seq(Values)]
  BY DEF TypeInv, TypeOK
<1>2. ASSUME NEW c \in Chans, NEW w \in Values, Push(c, w)
      PROVE  LoneSender(d)
  <2>1. CASE d # c
    BY <1>1, <1>2, <2>1 DEF Push, LoneSender
  <2>2. CASE d = c
    <3>1. sent[d] \in Seq(Values) /\ sent'[d] = Append(sent[d], w)
      BY <1>1, <1>2, <2>2 DEF Push
    <3>2. \A i \in DOMAIN sent[d] : i \in DOMAIN sent'[d] /\ sent'[d][i] = sent[d][i]
      BY <3>1, AppendProperties, LenProperties
    <3>3. QED
      BY <3>2 DEF LoneSender
  <2>3. QED
    BY <2>1, <2>2
<1>3. QED
  BY <1>2, QueueStep DEF Pop, LoneSender

\* One notification reaches the only sender there is.
LEMMA LoneWoken ==
  ASSUME LoneInv, NEW d \in Chans, Capacity[d] = 0, LoneSender(d),
         NEW woken \in NotifyOne(TxWaiters(d))
  PROVE  TxWaiters(d) \subseteq woken
<1>1. \A k \in TxWaiters(d) : Contains(sent[d], <<k, sends[k]>>)
  BY DEF LoneInv, TxWaiters, At, SlotWaitOK, HandingOver
<1>2. ASSUME NEW j \in TxWaiters(d), NEW k \in TxWaiters(d)  PROVE j = k
  <2>1. PICK m, n \in DOMAIN sent[d] :
          sent[d][m] = <<j, sends[j]>> /\ sent[d][n] = <<k, sends[k]>>
    BY <1>1 DEF Contains
  <2>2. sent[d][m][1] = j /\ sent[d][n][1] = k
    BY <2>1
  <2>3. QED
    BY <2>1, <2>2 DEF LoneSender
<1>3. QED
  BY <1>2 DEF NotifyOne

\* The turns of goroutine g on d itself.
LEMMA LoneHere ==
  ASSUME LoneInv, LoneInv', NEW g \in Goroutines, NEW d \in Chans,
         LoneSender(d), LoneSafe(d),
         \/ SendTurn(g, d) \/ RecvTurn(g, d)
         \/ TrySendTurn(g, d) \/ TryRecvTurn(g, d)
         \/ at[g] = d /\ (ResumeRendezvous(g) \/ NotifyRx(g) \/ NotifyTx(g))
  PROVE  LoneSafe(d)'
<1> SUFFICES ASSUME Capacity[d] = 0, TxWaiters(d)' # {}, buf'[d] = <<>>,
                    At(d, {"tx_notify"})' = {}
             PROVE  FALSE
  BY DEF LoneSafe
<1>1. /\ TypeInv /\ buf[d] \in Seq(Values) /\ buf \in [Chans -> Seq(Values)]
      /\ ~closed'[d]
  BY DEF LoneInv, WaitInv, TypeInv, TypeOK, SleepInv, ClosedWakesAll
<1>2. \A v : ~Push(d, v)
  <2> SUFFICES ASSUME NEW v, Push(d, v)  PROVE FALSE
    OBVIOUS
  <2>1. Len(buf'[d]) = Len(buf[d]) + 1 /\ Len(buf[d]) \in Nat /\ Len(buf'[d]) = 0
    BY <1>1, PushedLen, LenProperties, EmptySeq
  <2>2. QED
    BY <2>1
<1>3. ASSUME NEW point, point # "rv_wait", point # "tx_wait", Goto(g, d, point),
             asleep' \subseteq asleep \/ asleep' = asleep \cup {g}
      PROVE  TxWaiters(d)' \subseteq TxWaiters(d)
  BY <1>1, <1>3, Moved DEF TxWaiters, At
<1>4. ASSUME NEW woken \in NotifyOne(TxWaiters(d)), asleep' = asleep \ woken,
             Goto(g, d, "run")
      PROVE  FALSE
  <2>1. TxWaiters(d) \subseteq woken
    BY <1>4, LoneWoken
  <2>2. TxWaiters(d)' = {}
    BY <1>1, <1>4, <2>1, Moved DEF TxWaiters, At
  <2>3. QED
    BY <2>2
<1>5. ASSUME NEW point, Goto(g, d, point), pc[g] # "tx_notify", buf'[d] = buf[d],
             TxWaiters(d)' \subseteq TxWaiters(d)
      PROVE  FALSE
  <2>1. At(d, {"tx_notify"}) \subseteq At(d, {"tx_notify"})'
    BY <1>1, <1>5, Moved DEF At
  <2>2. QED
    BY <1>5, <2>1 DEF LoneSafe
<1>6. CASE SendTurn(g, d)
  <2>1. /\ Goto(g, d, "run") /\ asleep' = asleep /\ buf' = buf
        /\ pc[g] # "tx_notify"
    BY <1>2, <1>6 DEF SendTurn, SendOrWait, Full, PushAndNotify, Return, chanVars
  <2>2. QED
    BY <1>3, <1>5, <2>1
<1>7. CASE RecvTurn(g, d)
  <2>1. CASE \E woken \in NotifyOne(TxWaiters(d)) :
               asleep' = asleep \ woken /\ Goto(g, d, "run")
    BY <1>4, <2>1
  <2>2. CASE Return(g, d) \/ Wait(g, d, "rx_wait")
    <3>1. PICK point \in {"run", "rx_wait"} :
            /\ Goto(g, d, point) /\ buf' = buf
            /\ asleep' = asleep \/ asleep' = asleep \cup {g}
      BY <2>2 DEF Return, Wait, chanVars
    <3>2. TxWaiters(d)' \subseteq TxWaiters(d)
      BY <1>3, <3>1
    <3>3. QED
      BY <1>5, <1>7, <3>1, <3>2 DEF RecvTurn
  <2>3. QED
    BY <1>7, <2>1, <2>2 DEF RecvTurn, RecvOrWait
<1>8. CASE TrySendTurn(g, d)
  BY <1>2, <1>8 DEF TrySendTurn
<1>9. CASE TryRecvTurn(g, d)
  BY <1>1, <1>9, Moved DEF TryRecvTurn, At
<1>10. CASE at[g] = d /\ ResumeRendezvous(g)
  <2>1. /\ Goto(g, d, "run") /\ asleep' = asleep /\ buf' = buf
        /\ pc[g] # "tx_notify"
    BY <1>1, <1>10 DEF ResumeRendezvous, Wait, Return, chanVars
  <2>2. QED
    BY <1>3, <1>5, <2>1
<1>11. CASE at[g] = d /\ NotifyRx(g)
  <2>1. /\ Goto(g, d, "run") /\ asleep' \subseteq asleep /\ buf' = buf
        /\ pc[g] # "tx_notify"
    BY <1>11 DEF NotifyRx, chanVars
  <2>2. QED
    BY <1>3, <1>5, <2>1
<1>12. CASE at[g] = d /\ NotifyTx(g)
  BY <1>4, <1>12 DEF NotifyTx
<1>13. QED
  BY <1>6, <1>7, <1>8, <1>9, <1>10, <1>11, <1>12

LEMMA LoneStep ==
  ASSUME LoneInv, LoneInv', [Next]_vars, NEW d \in Chans, LoneSafe(d)
  PROVE  LoneSafe(d)'
<1> SUFFICES ASSUME LoneSender(d)'  PROVE LoneSafe(d)'
  BY DEF LoneSafe
<1>1. TypeInv /\ AtOK /\ LoneSender(d)
  BY LoneBefore DEF LoneInv, WaitInv, TypeInv
<1>2. ASSUME NEW g \in Goroutines, NEW c, c # d, NEW point,
             pc[g] = "run" \/ at[g] = c, Goto(g, c, point),
             \A k \in Goroutines \ {g} : at[k] = d => (k \in asleep' <=> k \in asleep),
             buf'[d] = buf[d]
      PROVE  LoneSafe(d)'
  <2>1. TxWaiters(d)' = TxWaiters(d) /\ At(d, {"tx_notify"})' = At(d, {"tx_notify"})
    BY <1>1, <1>2, OtherChannel
  <2>2. QED
    BY <1>1, <1>2, <2>1 DEF LoneSafe
<1>3. ASSUME NEW g \in Goroutines, NEW c \in Chans,
             \/ SendTurn(g, c) \/ RecvTurn(g, c)
             \/ TrySendTurn(g, c) \/ TryRecvTurn(g, c)
             \/ at[g] = c /\ (ResumeRendezvous(g) \/ NotifyRx(g) \/ NotifyTx(g))
      PROVE  LoneSafe(d)'
  <2>1. CASE c = d
    BY <1>1, <1>3, <2>1, LoneHere
  <2>2. CASE c # d
    BY <1>1, <1>2, <1>3, <2>2, TurnElsewhere
  <2>3. QED
    BY <2>1, <2>2
<1>4. ASSUME NEW g \in Goroutines, ResumeRendezvous(g) \/ NotifyRx(g) \/ NotifyTx(g)
      PROVE  LoneSafe(d)'
  <2>1. PICK c \in Chans : at[g] = c
    BY <1>1, <1>4 DEF AtOK, InsidePoints, BlockedPoints, ResumeRendezvous, NotifyRx, NotifyTx
  <2>2. QED
    BY <1>3, <1>4, <2>1
<1>5. ASSUME NEW g \in Goroutines, LeaveTurn(g)  PROVE LoneSafe(d)'
  <2>1. PICK point : Goto(g, Nil, point)
    BY <1>5 DEF LeaveTurn
  <2>2. pc[g] = "run" /\ asleep' = asleep /\ buf' = buf /\ d # Nil
    BY <1>5, ChanAssumption DEF LeaveTurn, chanVars
  <2>3. QED
    BY <1>2, <2>1, <2>2
<1>6. ASSUME buf' = buf, pc' = pc, at' = at, asleep' \subseteq asleep
      PROVE  LoneSafe(d)'
  BY <1>1, <1>6 DEF LoneSafe, TxWaiters, At
<1>7. QED
  BY <1>1, <1>3, <1>4, <1>5, <1>6, StepCases DEF SpuriousWakeup, CloseTurn, vars

LEMMA LoneInvariant == Spec => []LoneInv
<1>1. Init => HandingOver /\ SlotWaitOK
  BY DEF Init, HandingOver, SlotWaitOK
<1>2. WaitInv /\ HandingOver /\ SlotWaitOK /\ [Next]_vars => HandingOver' /\ SlotWaitOK'
  BY HandingOverStep, SlotWaitStep DEF WaitInv
<1>3. QED
  BY <1>1, <1>2, WaitInvariant, PTL DEF Spec, LoneInv

\* No wakeup of a receiver, of a sender on a buffered channel, or of the only
\* sender of an unbuffered one is lost: while the receiver sleeps each value
\* has somebody on the way to it, while the sender sleeps each free slot has,
\* and a sender alone sleeps beside its own value.  notify_one, notifications
\* after unlock and spurious wakeups together lose none of these.
THEOREM NoLostWakeupAlways == Spec => []NoLostWakeup
<1>1. NoLostWakeup <=> \A d \in Chans : Safe(d) /\ LoneSafe(d)
  BY DEF NoLostWakeup, NoLostRxWakeup, NoLostTxWakeup, NoLostRendezvousWakeup,
     Safe, RxSafe, TxSafe, LoneSafe
<1>2. Init => \A d \in Chans : Safe(d) /\ LoneSafe(d)
  BY DEF Init, Safe, RxSafe, TxSafe, LoneSafe, RxWaiters, TxWaiters
<1>3. LoneInv /\ LoneInv' /\ (\A d \in Chans : Safe(d) /\ LoneSafe(d)) /\ [Next]_vars
        => (\A d \in Chans : Safe(d) /\ LoneSafe(d))'
  BY SafeStep, LoneStep DEF LoneInv
<1>4. QED
  BY <1>1, <1>2, <1>3, LoneInvariant, PTL DEF Spec

\* A goroutine only leaves the rendezvous of an open channel with its buffer
\* empty, and takes nothing with it.
LEMMA RendezvousLeft ==
  ASSUME TypeInv, [Next]_vars, NEW k \in Goroutines,
         pc[k] = "rv_wait", pc'[k] = "run", ~closed[at[k]]
  PROVE  buf[at[k]] = <<>> /\ UNCHANGED rcvd
<1>1. /\ pc \in [Goroutines -> Points] /\ at \in [Goroutines -> Handles]
  BY DEF TypeInv, TypeOK
<1>2. ASSUME NEW g \in Goroutines, NEW c, NEW point, Goto(g, c, point), pc[g] # "rv_wait"
      PROVE  FALSE
  BY <1>1, <1>2 DEF Goto
<1>3. ASSUME NEW g \in Goroutines, NEW c \in Chans,
             \/ SendTurn(g, c) \/ RecvTurn(g, c)
             \/ TrySendTurn(g, c) \/ TryRecvTurn(g, c)
      PROVE  FALSE
  BY <1>2, <1>3 DEF SendTurn, SendOrWait, RecvTurn, RecvOrWait, TrySendTurn,
                    TryRecvTurn, Return, Wait, PushAndNotify
<1>4. ASSUME NEW g \in Goroutines, NotifyRx(g) \/ NotifyTx(g) \/ LeaveTurn(g)
      PROVE  FALSE
  BY <1>2, <1>4 DEF NotifyRx, NotifyTx, LeaveTurn
<1>5. ASSUME NEW g \in Goroutines, ResumeRendezvous(g)
      PROVE  buf[at[k]] = <<>> /\ UNCHANGED rcvd
  <2>1. k = g
    BY <1>1, <1>5 DEF ResumeRendezvous, Return, Wait, Goto
  <2>2. QED
    BY <1>1, <1>5, <2>1 DEF ResumeRendezvous, Return, Wait, Goto, chanVars
<1>6. ~UNCHANGED pc
  BY <1>1
<1>7. QED
  BY <1>3, <1>4, <1>5, <1>6, StepCases
  DEF SpuriousWakeup, CloseTurn, vars, TypeInv

LEMMA RendezvousStep ==
  ASSUME TypeInv, Fifo, HandingOver, [Next]_vars, NEW g \in Goroutines,
         pc[g] = "rv_wait", pc'[g] = "run", ~closed[at[g]]
  PROVE  \E i \in DOMAIN rcvd[at[g]] : rcvd[at[g]][i] = <<g, sends[g]>>
<1>1. at[g] \in Chans
  BY DEF TypeInv, AtOK, InsidePoints, BlockedPoints
<1>2. sent[at[g]] = rcvd[at[g]] \o <<>> /\ rcvd[at[g]] \in Seq(Values)
  BY <1>1, RendezvousLeft DEF Fifo, TypeInv, TypeOK
<1>3. sent[at[g]] = rcvd[at[g]]
  BY <1>2, ConcatEmptySeq
<1>4. QED
  BY <1>3 DEF HandingOver, Contains

\* A send on an unbuffered channel that comes back while the channel is open
\* comes back after its own value was received, however many senders wait on
\* the channel and whichever of them a receive wakes (Chan::send).
THEOREM RendezvousHandsOverAlways == Spec => RendezvousHandsOver
<1>1. Init => HandingOver
  BY DEF Init, HandingOver
<1>2. TypeInv /\ HandingOver /\ [Next]_vars => HandingOver'
  BY HandingOverStep
<1>3. TypeInv /\ Fifo /\ HandingOver /\ [Next]_vars
        => [\A g \in Goroutines :
              pc[g] = "rv_wait" /\ pc'[g] = "run" /\ ~closed[at[g]] =>
                \E i \in DOMAIN rcvd[at[g]] : rcvd[at[g]][i] = <<g, sends[g]>>]_vars
  BY RendezvousStep
<1>4. QED
  BY <1>1, <1>2, <1>3, TypeInvariant, FifoAlways, PTL DEF Spec, RendezvousHandsOver

-----------------------------------------------------------------------------
(***************************************************************************)
(* Selects.                                                                *)
(***************************************************************************)

\* A goroutine in a select is at one of its communications or past the last.
Trying(g) ==
  /\ g \in Selectors /\ stmt[g] \in Selects
  /\ arm[g] \in 1..(Len(stmt[g].arms) + 1)

SelectInv ==
  /\ stmt \in [Goroutines -> Selects \cup {None}]
  /\ arm \in [Goroutines -> Nat]
  /\ missed \in [Goroutines -> SUBSET Nat]
  /\ \A g \in Goroutines : stmt[g] # None => Trying(g)

\* It has missed the communications before.
MissedOK == \A g \in Goroutines : stmt[g] # None => 1..(arm[g] - 1) \subseteq missed[g]

\* No select sends on an unbuffered channel, which its try always refuses.
SendsBuffered ==
  \A s \in Selects : \A i \in DOMAIN s.arms :
    s.arms[i].dir = "send" /\ s.arms[i].chan # Nil => Capacity[s.arms[i].chan] > 0

LEMMA ArmFacts ==
  ASSUME NEW s \in Selects
  PROVE  /\ s # None /\ s.default \in BOOLEAN
         /\ Len(s.arms) \in Nat /\ DOMAIN s.arms = 1..Len(s.arms)
         /\ \A i \in DOMAIN s.arms : s.arms[i].chan \in Handles /\ s.arms[i].dir \in {"send", "recv"}
<1>1. s # None /\ s.default \in BOOLEAN /\ s.arms \in Seq([dir : {"send", "recv"}, chan : Handles])
  BY SelectAssumption
<1> DEFINE q == s.arms
           S == [dir : {"send", "recv"}, chan : Handles]
<1>2. q \in Seq(S)
  BY <1>1
<1> HIDE DEF q
<1>3. \A i \in DOMAIN q : q[i] \in S
  <2> HIDE DEF S
  <2> QED
    BY <1>2
<1>4. Len(q) \in Nat /\ DOMAIN q = 1..Len(q)
  BY <1>2
<1> QED
  BY <1>1, <1>3, <1>4 DEF q

\* A communication that fails is unready at that instant.
LEMMA FailedUnready ==
  ASSUME TypeOK, NEW h \in Handles, NEW dir \in {"send", "recv"},
         dir = "send" /\ h # Nil => Capacity[h] > 0,
         UNCHANGED vars,
         IF dir = "recv" THEN ~(h # Nil /\ (buf[h] # <<>> \/ closed[h])) ELSE TrySendRefused(h),
         NEW a, a.dir = dir, a.chan = h
  PROVE  ~Ready(a)'
<1>1. UNCHANGED <<buf, closed>>
  BY DEF vars
<1>2. CASE h = Nil
  BY <1>2 DEF Ready
<1>3. CASE h # Nil /\ dir = "recv"
  BY <1>1, <1>3 DEF Ready
<1>4. CASE h # Nil /\ dir = "send"
  <2>1. h \in Chans /\ Capacity[h] > 0 /\ Capacity[h] \in Nat
    BY <1>4, ChanAssumption DEF Handles
  <2>2. closed[h] \/ Len(buf[h]) >= Capacity[h]
    BY <1>4, <2>1 DEF TrySendRefused
  <2> QED
    BY <1>1, <1>4, <2>1, <2>2 DEF Ready, Full
<1> QED
  BY <1>2, <1>3, <1>4

\* What a step of g's own select does to it.
LEMMA TryStep ==
  ASSUME SelectInv, NEW g \in Goroutines, NEW s \in Selects \cup {None}, NEW i \in Nat,
         Try(g, s, i), Observe,
         s # None => g \in Selectors /\ i \in 1..(Len(s.arms) + 1)
  PROVE  /\ SelectInv'
         /\ MissedOK /\ (s # None => 1..(i - 1) \subseteq missed[g] \cup Unready(g)') => MissedOK'
<1>1. /\ stmt' \in [Goroutines -> Selects \cup {None}] /\ stmt'[g] = s
      /\ arm' \in [Goroutines -> Nat] /\ arm'[g] = i
      /\ \A h \in Goroutines \ {g} : stmt'[h] = stmt[h] /\ arm'[h] = arm[h]
  BY DEF Try, SelectInv
<1>2. \A h \in Goroutines : missed'[h] = IF stmt'[h] = None THEN {} ELSE missed[h] \cup Unready(h)'
  BY DEF Observe
<1>3. \A h \in Goroutines : stmt'[h] # None => Unready(h)' \subseteq Nat
  <2> SUFFICES ASSUME NEW h \in Goroutines, stmt'[h] # None PROVE Unready(h)' \subseteq Nat
    OBVIOUS
  <2>1. stmt'[h] \in Selects
    BY <1>1
  <2>2. \A t \in Selects : DOMAIN t.arms \subseteq Nat
    BY ArmFacts
  <2> QED
    BY <2>1, <2>2 DEF Unready
<1>4. missed' \in [Goroutines -> SUBSET Nat]
  <2>1. \A h \in Goroutines : missed'[h] \in SUBSET Nat
    BY <1>2, <1>3 DEF SelectInv
  <2>2. missed' = [h \in Goroutines |-> missed'[h]]
    BY DEF Observe
  <2> QED
    BY <2>1, <2>2
<1>5. ASSUME NEW h \in Goroutines, stmt'[h] # None PROVE Trying(h)'
  BY <1>1, <1>5 DEF SelectInv, Trying
<1>6. ASSUME MissedOK, s # None => 1..(i - 1) \subseteq missed[g] \cup Unready(g)',
             NEW h \in Goroutines, stmt'[h] # None
      PROVE  1..(arm'[h] - 1) \subseteq missed'[h]
  <2>1. CASE h = g
    BY <1>1, <1>2, <1>6, <2>1
  <2>2. CASE h # g
    BY <1>1, <1>2, <1>6, <2>2 DEF MissedOK
  <2> QED
    BY <2>1, <2>2
<1> QED
  BY <1>1, <1>4, <1>5, <1>6 DEF SelectInv, MissedOK

LEMMA PollStep ==
  ASSUME SelectInv, NEW g \in Goroutines, Poll(g), Observe
  PROVE  SelectInv' /\ (TypeOK /\ SendsBuffered /\ MissedOK => MissedOK')
<1>1. PICK s, i, a : s = stmt[g] /\ i = arm[g] /\ a = s.arms[i]
  OBVIOUS
<1>2. s \in Selects /\ g \in Selectors /\ i \in DOMAIN s.arms /\ PollArm(g, a)
  BY <1>1 DEF Poll, Polling, SelectInv, Trying
<1>3. /\ a.chan \in Handles /\ a.dir \in {"send", "recv"} /\ s # None
      /\ i \in 1..Len(s.arms) /\ Len(s.arms) \in Nat
  BY <1>1, <1>2, ArmFacts
<1>4. CASE Choose(g)
  BY <1>4, TryStep DEF Choose
<1>5. CASE /\ Try(g, s, i + 1) /\ UNCHANGED vars
           /\ IF a.dir = "recv" THEN ~(a.chan # Nil /\ (buf[a.chan] # <<>> \/ closed[a.chan]))
                                ELSE TrySendRefused(a.chan)
  <2>1. 1..(i + 1 - 1) = 1..(i - 1) \cup {i} /\ i + 1 \in 1..(Len(s.arms) + 1)
    BY <1>3
  <2>2. ASSUME TypeOK, SendsBuffered, MissedOK
        PROVE  1..(i + 1 - 1) \subseteq missed[g] \cup Unready(g)'
    <3>1. a.dir = "send" /\ a.chan # Nil => Capacity[a.chan] > 0
      BY <1>1, <1>2, <2>2 DEF SendsBuffered
    <3>2. ~Ready(a)'
      BY <1>3, <1>5, <2>2, <3>1, FailedUnready
    <3>3. i \in Unready(g)'
      <4>1. stmt'[g] = s
        BY <1>5 DEF Try, SelectInv
      <4> QED
        BY <1>1, <1>2, <3>2, <4>1 DEF Unready
    <3>4. 1..(i - 1) \subseteq missed[g]
      BY <1>1, <1>3, <2>2 DEF MissedOK
    <3> QED
      BY <2>1, <3>3, <3>4
  <2> QED
    BY <1>2, <1>5, <2>1, <2>2, TryStep
<1>6. \/ Choose(g)
      \/ /\ Try(g, s, i + 1) /\ UNCHANGED vars
         /\ IF a.dir = "recv" THEN ~(a.chan # Nil /\ (buf[a.chan] # <<>> \/ closed[a.chan]))
                              ELSE TrySendRefused(a.chan)
  BY <1>1, <1>2 DEF PollArm, TryRecv, TrySend
<1> QED
  BY <1>4, <1>5, <1>6

LEMMA SelectInvStep ==
  ASSUME SelectInv, [SelectNext]_allVars
  PROVE  SelectInv' /\ (TypeOK /\ SendsBuffered /\ MissedOK => MissedOK')
<1>1. CASE UNCHANGED allVars
  BY <1>1 DEF allVars, selectVars, SelectInv, Trying, MissedOK
<1>2. ASSUME NEW g \in Goroutines, UNCHANGED <<stmt, arm>>, Observe
      PROVE  SelectInv' /\ (MissedOK => MissedOK')
  <2>1. Try(g, stmt[g], arm[g])
    BY <1>2 DEF Try, SelectInv
  <2>2. stmt[g] # None => Trying(g)
    BY DEF SelectInv
  <2>3. MissedOK => (stmt[g] # None => 1..(arm[g] - 1) \subseteq missed[g])
    BY DEF MissedOK
  <2>4. \A s \in Selects \cup {None} : \A i \in Nat :
          s = stmt[g] /\ i = arm[g] => SelectInv' /\ (MissedOK => MissedOK')
    BY <1>2, <2>1, <2>2, <2>3, TryStep DEF Trying
  <2> QED
    BY <2>4 DEF SelectInv
<1>3. ASSUME NEW g \in Goroutines, NEW s \in Selects, g \in Selectors, Begin(g, s), Observe
      PROVE  SelectInv' /\ (MissedOK => MissedOK')
  <2>1. UNCHANGED <<stmt, arm>> \/ (Try(g, s, 1) /\ Len(s.arms) >= 1)
    BY <1>3, ArmFacts DEF Begin
  <2>2. CASE Try(g, s, 1) /\ Len(s.arms) >= 1
    <3>1. 1 \in 1..(Len(s.arms) + 1) /\ 1..(1 - 1) = {}
      BY <1>3, <2>2, ArmFacts
    <3> QED
      BY <1>3, <2>2, <3>1, TryStep
  <2> QED
    BY <1>2, <1>3, <2>1, <2>2
<1>4. ASSUME NEW g \in Goroutines, Fallback(g), Observe
      PROVE  SelectInv' /\ (MissedOK => MissedOK')
  <2>1. stmt[g] \in Selects /\ g \in Selectors
    BY <1>4 DEF Fallback, Polling, SelectInv, Trying
  <2>2. CASE Choose(g)
    BY <1>4, <2>2, TryStep DEF Choose
  <2>3. CASE Try(g, stmt[g], 1)
    <3>1. PICK s \in Selects : s = stmt[g]
      BY <2>1
    <3>2. 1 \in 1..(Len(s.arms) + 1) /\ 1..(1 - 1) = {}
      BY ArmFacts
    <3> QED
      BY <1>4, <2>1, <2>3, <3>1, <3>2, TryStep
  <2> QED
    BY <1>4, <2>2, <2>3 DEF Fallback
<1> QED
  BY <1>1, <1>2, <1>3, <1>4, PollStep DEF SelectNext, SelectStep, ChanStep

\* Whatever a goroutine does in a select, the channels see an operation of
\* theirs, or nothing.
LEMMA SelectToChan ==
  ASSUME SelectInv, Selectors \subseteq Senders \cap Receivers, [SelectNext]_allVars
  PROVE  [Next]_vars
<1>1. CASE UNCHANGED allVars
  BY <1>1 DEF allVars
<1>2. ASSUME NEW g \in Goroutines, NEW s \in Selects, g \in Selectors, Begin(g, s)
      PROVE  [Next]_vars
  <2>1. g \in Senders /\ g \in Receivers
    BY <1>2
  <2>2. CASE UNCHANGED vars
    BY <2>2
  <2>3. CASE Park(g) /\ UNCHANGED sends
    <3>1. Recv(g, Nil) /\ Nil \in Handles
      BY <1>2, <2>3 DEF Begin, Recv, Handles
    <3> QED
      BY <2>1, <3>1 DEF Next, Call
  <2>4. CASE /\ Len(s.arms) = 1
             /\ IF s.arms[1].dir = "send" THEN Send(g, s.arms[1].chan) ELSE Recv(g, s.arms[1].chan)
    <3>1. s.arms[1].chan \in Handles
      BY <2>4, ArmFacts
    <3> QED
      BY <2>1, <2>4, <3>1 DEF Next, Call
  <2> QED
    BY <1>2, <2>2, <2>3, <2>4 DEF Begin
<1>3. ASSUME NEW g \in Goroutines, Poll(g) PROVE [Next]_vars
  <2>1. stmt[g] \in Selects /\ g \in Senders /\ g \in Receivers /\ arm[g] \in DOMAIN stmt[g].arms
    BY <1>3 DEF Poll, Polling, SelectInv, Trying
  <2>2. stmt[g].arms[arm[g]].chan \in Handles
    BY <2>1, ArmFacts
  <2>3. TryRecv(g, stmt[g].arms[arm[g]].chan) \/ TrySend(g, stmt[g].arms[arm[g]].chan)
    BY <1>3 DEF Poll, PollArm
  <2> QED
    BY <2>1, <2>2, <2>3 DEF Next, Call
<1>4. ASSUME NEW g \in Goroutines, Fallback(g) PROVE [Next]_vars
  BY <1>4 DEF Fallback
<1>5. ASSUME NEW g \in Goroutines, ChanStep(g) PROVE [Next]_vars
  BY <1>5 DEF ChanStep, Next
<1> QED
  BY <1>1, <1>2, <1>3, <1>4, <1>5 DEF SelectNext, SelectStep

LEMMA SelectInitInv == SelectInit => SelectInv /\ MissedOK
  BY DEF SelectInit, SelectInv, MissedOK

LEMMA SelectInvAlways == SelectSpec => []SelectInv
<1>1. SelectInv /\ [SelectNext]_allVars => SelectInv'
  BY SelectInvStep
<1> QED
  BY <1>1, SelectInitInv, PTL DEF SelectSpec

\* Goroutines that select use the channels only as Chan says goroutines do,
\* whatever the selects are: the lowering adds no operation of its own.
THEOREM SelectImplementsChan ==
  ASSUME Selectors \subseteq Senders \cap Receivers
  PROVE  SelectSpec => Spec
<1>1. SelectInit => Init
  BY DEF SelectInit
<1>2. SelectInv /\ [SelectNext]_allVars => [Next]_vars
  BY SelectToChan
<1> QED
  BY <1>1, <1>2, SelectInvAlways, PTL DEF SelectSpec, Spec

\* So the channels of a program with selects keep what channels promise: no
\* value is lost or reordered, no buffer overflows, close wakes everybody,
\* and no wakeup is lost of receivers, of senders on buffered channels and of
\* the only sender of an unbuffered one.
THEOREM SelectKeepsChannels ==
  ASSUME Selectors \subseteq Senders \cap Receivers
  PROVE  SelectSpec => [](Fifo /\ CapacityBound /\ NoLostWakeup /\ ClosedWakesAll)
  BY SelectImplementsChan, FifoAlways, CapacityAlways, NoLostWakeupAlways, ClosedWakesAllAlways, PTL

\* For all selects, but those that send on an unbuffered channel: a later
\* communication or the default is chosen only after every earlier one was
\* unready at some instant of the select (compile_select_stmt).
THEOREM EarlierArmsMissedAlways ==
  ASSUME Selectors \subseteq Senders \cap Receivers, SendsBuffered
  PROVE  SelectSpec => EarlierArmsMissed
<1>1. TypeOK /\ SelectInv /\ MissedOK /\ [SelectNext]_allVars => MissedOK'
  BY SelectInvStep
<1>2. MissedOK => [\A g \in Goroutines : Chosen(g) => 1..(arm[g] - 1) \subseteq missed[g]]_allVars
  BY DEF MissedOK, Chosen
<1> QED
  BY <1>1, <1>2, SelectInitInv, SelectInvAlways, SelectImplementsChan, TypeCorrect, PTL
  DEF SelectSpec, EarlierArmsMissed
=============================================================================
