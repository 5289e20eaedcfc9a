----------------------------- MODULE MCPointer -----------------------------
(* Instances of Pointer for TLC, and what is asked of them.  Cell c1 holds  *)
(* a struct {f struct {x, y}; z}, cell c2 a single integer w.               *)
EXTENDS Pointer, TLC

CONSTANTS g1, g2, c1, c2, x, y, z, w

TwoGoroutines == {g1, g2}
TwoCells == {c1, c2}
Struct == [c \in Cells |-> IF c = c1 THEN {x, y, z} ELSE {w}]

To(c, path) == [cell |-> c, path |-> path]
F == To(c1, <<{x, y}>>)
FX == To(c1, <<{x, y}, {x}>>)
FY == To(c1, <<{x, y}, {y}>>)
Z == To(c1, <<{z}>>)
S == To(c1, <<>>)
W == To(c2, <<>>)

Plain(access, ptr) == [access |-> access, ptr |-> ptr, under |-> Nil]
Call(under, access, ptr) == [access |-> access, ptr |-> ptr, under |-> under]

Increment(ptr) == <<Plain("read", ptr), Plain("write", ptr)>>

\* What one goroutine may do: plain and atomic accesses at every depth, the
\* read-modify-write that a method call through a copy of its receiver makes,
\* methods that run under the guard of their receiver, and faults.
Bodies ==
  {<<Plain("add", p), Plain("add", q)>> : p \in {W, FX}, q \in {S, Z, FY, FX}}
    \cup {<<Plain("add", FX), Plain("cas", p)>> : p \in {Z, FX}}
    \cup {Increment(p) : p \in {W, Z, FX}}
    \cup {<<Call(p, "add", q)>> : p \in {S, W, FX}, q \in {S, W, FY, Nil}}
    \cup {<<Plain("cas", W), Plain("add", W), Plain("read", W)>>}

AllPairs == {[g \in Goroutines |-> IF g = g1 THEN b ELSE c] : b, c \in Bodies}
=============================================================================
