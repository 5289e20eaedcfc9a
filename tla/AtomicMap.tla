----------------------------- MODULE AtomicMap -----------------------------
(***************************************************************************)
(* What sync.Map promises: a map whose operations each happen at one       *)
(* instant.  Once "broken", nothing is promised any more.                  *)
(***************************************************************************)
EXTENDS Sequences

CONSTANTS
  Goroutines, Keys, Values, None,
  Calls  \* the calls that are made: [op, key, val, old]

VARIABLES
  map,     \* map[k]: the value of key k, or None
  result,  \* result[g]: g's latest operation, <<call, value, ok>>
  broken   \* nothing is promised any more

vars == <<map, result, broken>>

\* The result of a call is a value and whether the key was found (or the swap
\* or deletion took place).
Found(k) == map[k] # None
Matches(c) == Found(c.key) /\ map[c.key] = c.old
Nothing == <<None, FALSE>>

Result(c) ==
  CASE c.op \in {"Load", "LoadAndDelete", "Swap"} ->
         IF Found(c.key) THEN <<map[c.key], TRUE>> ELSE Nothing
    [] c.op = "LoadOrStore" -> IF Found(c.key) THEN <<map[c.key], TRUE>> ELSE <<c.val, FALSE>>
    [] c.op \in {"CompareAndSwap", "CompareAndDelete"} -> <<None, Matches(c)>>
    [] c.op = "Clear" -> Nothing

After(c) ==
  CASE c.op = "Load" -> map
    [] c.op = "Swap" -> [map EXCEPT ![c.key] = c.val]
    [] c.op = "LoadAndDelete" -> [map EXCEPT ![c.key] = None]
    [] c.op = "LoadOrStore" -> IF Found(c.key) THEN map ELSE [map EXCEPT ![c.key] = c.val]
    [] c.op = "CompareAndSwap" -> IF Matches(c) THEN [map EXCEPT ![c.key] = c.val] ELSE map
    [] c.op = "CompareAndDelete" -> IF Matches(c) THEN [map EXCEPT ![c.key] = None] ELSE map
    [] c.op = "Clear" -> [k \in Keys |-> None]

Init ==
  /\ map = [k \in Keys |-> None]
  /\ result = [g \in Goroutines |-> <<None, None, FALSE>>]
  /\ broken = FALSE

Do(g, c) ==
  /\ map' = After(c)
  /\ result' = [result EXCEPT ![g] = <<c>> \o Result(c)]

\* Operations on keys that are not in Keys return something and change nothing.
Other(g, c) ==
  /\ map' = map
  /\ \E value \in Values \cup {None}, ok \in BOOLEAN :
       result' = [result EXCEPT ![g] = <<c, value, ok>>]

Next ==
  \/ /\ ~broken /\ ~broken'
     /\ \E g \in Goroutines, c \in Calls :
          IF c.key \in Keys \/ c.op = "Clear" THEN Do(g, c) ELSE Other(g, c)
  \/ broken'

Spec == Init /\ [][Next]_vars
=============================================================================
