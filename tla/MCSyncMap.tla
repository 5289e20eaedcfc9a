----------------------------- MODULE MCSyncMap -----------------------------
(* Instances of SyncMap for TLC.                                           *)
EXTENDS SyncMap, FiniteSets, TLC

CONSTANTS g1, g2, a, b, v1, v2

TwoGoroutines == {g1, g2}
TwoKeys == {a, b}
TwoValues == {v1, v2}

Call(op, key, val, old) == [op |-> op, key |-> key, val |-> val, old |-> old, body |-> None]
Each(body) == [op |-> "Range", key |-> None, val |-> None, old |-> None, body |-> body]

\* One goroutine ranges over what it stored, deleting or adding from f; the
\* other makes any two calls.
Setup == <<Call("Swap", a, v1, None), Call("Swap", b, v1, None)>>
Rangers == {Setup \o <<Each(body)>> : body \in {None, Call("LoadAndDelete", None, None, None)}}
             \cup {<<Call("Swap", a, v1, None), Each(Call("Swap", b, v2, None))>>,
                   <<Call("Swap", Alien, v2, None), Call("Swap", Slice, v1, None)>>}
Ops == {Call("Load", a, None, None), Call("Swap", a, v2, None), Call("Swap", Alien, v1, None),
        Call("LoadOrStore", a, v2, None), Call("LoadAndDelete", a, None, None),
        Call("CompareAndSwap", a, v2, v1), Call("CompareAndDelete", a, None, v1),
        Call("CompareAndDelete", a, None, v2), Call("Clear", None, None, None)}
Pairs == {<<c, d>> : c, d \in Ops}

RangeAndPairs == {[g \in Goroutines |-> IF g = g1 THEN r ELSE p] : r \in Rangers \cup {<<c>> : c \in Ops}, p \in Pairs}
=============================================================================
