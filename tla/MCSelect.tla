------------------------------ MODULE MCSelect ------------------------------
(* Instances of Select for TLC: one selecting goroutine beside another.    *)
EXTENDS Select, TLC

CONSTANTS g1, g2, c1, c2

TwoGoroutines == {g1, g2}
OnlyG1 == {g1}
ButG1 == Goroutines \ {g1}
Nobody == {}
OneChan == {c1}
TwoChans == {c1, c2}
Unbuffered == [c \in Chans |-> 0]
BufferOfOne == [c \in Chans |-> 1]

RecvArm(c) == [dir |-> "recv", chan |-> c]
SendArm(c) == [dir |-> "send", chan |-> c]
Stmt(arms, default) == [arms |-> arms, default |-> default]

\* Every shape of the lowering, over buffered channels.
EveryShape == {
  Stmt(<<>>, TRUE), Stmt(<<>>, FALSE),
  Stmt(<<SendArm(c1)>>, FALSE), Stmt(<<RecvArm(c1)>>, FALSE),
  Stmt(<<RecvArm(c1)>>, TRUE), Stmt(<<SendArm(c1)>>, TRUE),
  Stmt(<<RecvArm(c1), SendArm(c2)>>, TRUE), Stmt(<<RecvArm(c1), RecvArm(c2)>>, FALSE),
  Stmt(<<RecvArm(c2), RecvArm(Nil), RecvArm(c1)>>, FALSE)}

SendOrReceive == {Stmt(<<SendArm(c1), RecvArm(Nil)>>, FALSE)}
=============================================================================
