------------------------------- MODULE Memory -------------------------------
(***************************************************************************)
(* What Go variables promise to goroutines that reach them through         *)
(* pointers: an access is one step on the whole value it covers, it sees   *)
(* what the latest access left there, and it changes nothing else.         *)
(*                                                                         *)
(* "raced" is the memory given up: on those leaves nothing is promised.    *)
(***************************************************************************)
EXTENDS Naturals

CONSTANTS Goroutines, Leaves, MaxVal

VARIABLES
  mem,    \* mem[l]: the value of leaf l
  seen,   \* seen[g][l]: what g's latest read of leaf l returned
  raced   \* the leaves nothing is promised about any more

vars == <<mem, seen, raced>>

Values == 0..MaxVal

\* The accesses: *p += 1 (AddInt32), a compare-and-swap of 0 by MaxVal, the
\* read of *p, and the store of one more than what was read.
Accesses == {"add", "cas", "read", "write"}

Written(access, old, register) ==
  CASE access = "add" -> old + 1
    [] access = "cas" -> IF old = 0 THEN MaxVal ELSE old
    [] access = "read" -> old
    [] access = "write" -> (register + 1) % (MaxVal + 1)

Init ==
  /\ mem = [l \in Leaves |-> 0]
  /\ seen = [g \in Goroutines |-> [l \in Leaves |-> 0]]
  /\ raced = {}

Access(g, access, region) ==
  /\ raced \subseteq raced'
  /\ \A l \in Leaves \ raced' :
       /\ mem'[l] = IF l \in region THEN Written(access, mem[l], seen[g][l]) ELSE mem[l]
       /\ seen'[g][l] = IF l \in region /\ access = "read" THEN mem[l] ELSE seen[g][l]
       /\ \A h \in Goroutines \ {g} : seen'[h][l] = seen[h][l]

\* More of the memory is given up; the rest stays.
GiveUp ==
  /\ raced \subseteq raced'
  /\ \A l \in Leaves \ raced' : mem'[l] = mem[l] /\ \A g \in Goroutines : seen'[g][l] = seen[g][l]

Next == \/ \E g \in Goroutines, access \in Accesses, region \in SUBSET Leaves :
             region # {} /\ Access(g, access, region)
        \/ GiveUp

Spec == Init /\ [][Next]_vars
=============================================================================
