------------------------------- MODULE MCChan -------------------------------
(* Instances of Chan for TLC: a few goroutines on one or two channels.     *)
EXTENDS Chan, TLC

CONSTANTS g1, g2, g3, c1, c2

TwoGoroutines == {g1, g2}
ThreeGoroutines == {g1, g2, g3}
LastTwo == {g2, g3}
OneChan == {c1}
TwoChans == {c1, c2}

Unbuffered == [c \in Chans |-> 0]
Mixed == [c \in Chans |-> IF c = c1 THEN 0 ELSE 1]
=============================================================================
