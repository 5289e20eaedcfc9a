------------------------------ MODULE SyncMap ------------------------------
(***************************************************************************)
(* gors' replacement of sync.Map: an Arc of a mutex around a vector of     *)
(* entries, in a struct that is reached through a pointer.                 *)
(*                                                                         *)
(* Every operation first clones the Arc out of the struct and then works   *)
(* on the vector in one critical section.  When the map is a variable, the *)
(* first step is one step.  When it is a field of a struct, the pointer is *)
(* projected (see Pointer): the map is moved out, which leaves a default,  *)
(* that is a map with a vector of its own, and moved back afterwards.      *)
(***************************************************************************)
EXTENDS Naturals, Sequences, SequencesExt

CONSTANTS
  Goroutines,
  Keys,      \* keys that compare and clone
  Alien,     \* a key of a type that any_eq and clone_any do not list
  Slice,     \* a key of a type that does not compare (a slice)
  NilKey,    \* the nil interface, also what clone_any makes of Alien
  Values, None,
  Programs   \* the calls of each goroutine

\* The calls of a program; f calls with the key it is passed where a call has
\* None, and makes no Range of its own.
Storing == {"Swap", "LoadOrStore", "CompareAndSwap"}
Operations == Storing \cup {"Load", "LoadAndDelete", "CompareAndDelete", "Clear"}
AnyKey == Keys \cup {Alien, Slice, NilKey}
PlainCalls ==
  {c \in [op : Operations, key : AnyKey \cup {None}, val : Values \cup {None},
          old : Values \cup {None}, body : {None}] : c.op \in Storing => c.val \in Values}
Ranges == [op : {"Range"}, key : {None}, val : {None}, old : {None}, body : PlainCalls \cup {None}]

ASSUME SyncMapAssumption ==
  /\ None \notin Values \cup AnyKey \cup PlainCalls
  /\ {Alien, Slice, NilKey} \cap Keys = {}
  /\ \A p \in Programs :
       /\ p \in [Goroutines -> Seq(PlainCalls \cup Ranges)]
       /\ \A g \in Goroutines : \A i \in DOMAIN p[g] :
            p[g][i].key = None => p[g][i].op \in {"Clear", "Range"}

VARIABLES
  projected, \* whether the map is a field
  todo,      \* todo[g]: the calls g has not finished, the running one first
  pc,        \* pc[g]: "call", "cloned" (the map is to be moved back) or "section"
  handle,    \* handle[g]: the vector whose Arc g has cloned
  field,     \* the vector of the map in the struct, as an index of entries
  entries,   \* entries[e]: a vector, the sequence of its <<key, value>>
  ranging,   \* ranging[g]: g's Range past its snapshot: its list, the next entry
             \* to pass to f, the keys passed; or None
  result,    \* result[g]: g's latest operation and what it returned
  broken,    \* history: two goroutines had the map out of the field at once
  due        \* history: due[g] is the keys present ever since g's Range began

vars == <<projected, todo, pc, handle, field, entries, ranging, result, broken, due>>

Init ==
  /\ projected \in BOOLEAN
  /\ todo \in Programs
  /\ pc = [g \in Goroutines |-> "call"]
  /\ handle = [g \in Goroutines |-> 1]
  /\ field = 1
  /\ entries = << <<>> >>
  /\ ranging = [g \in Goroutines |-> None]
  /\ result = [g \in Goroutines |-> <<None, None, FALSE>>]
  /\ broken = FALSE
  /\ due = [g \in Goroutines |-> {}]

-----------------------------------------------------------------------------
(* Keys.                                                                   *)

any_eq(a, b) == a = b /\ a \in Keys \cup {NilKey}

clone_any(key) == IF key = Alien THEN NilKey ELSE key

find_key(vector, key) == SelectInSeq(vector, LAMBDA e : any_eq(e[1], key))

KeysOf(vector) == {vector[i][1] : i \in DOMAIN vector}

-----------------------------------------------------------------------------
(* A call: [op, key, val, old], and "body" for Range, the call f makes.    *)

Now(g) == Head(todo[g])
InRange(g) == todo[g] # <<>> /\ Now(g).op = "Range" /\ ranging[g] # None
Calling(g) == todo[g] # <<>> /\ ~InRange(g)

\* panic_value("hash of unhashable type"): before any lock; ends the goroutine.
Unhashable(g) ==
  /\ Calling(g) /\ pc[g] = "call" /\ Now(g).op \notin {"Clear", "Range"} /\ Now(g).key = Slice
  /\ todo' = [todo EXCEPT ![g] = <<>>]
  /\ ranging' = [ranging EXCEPT ![g] = None]
  /\ UNCHANGED <<projected, pc, handle, field, entries, result, broken, due>>

\* __gors_entries: the map is moved out of the field and its Arc cloned, or
\* cloned under the mutex of the variable.
Entries(g) ==
  /\ Calling(g) /\ pc[g] = "call"
  /\ Now(g).op \in {"Clear", "Range"} \/ Now(g).key # Slice
  /\ handle' = [handle EXCEPT ![g] = field]
  /\ due' = IF Now(g).op = "Range" THEN [due EXCEPT ![g] = KeysOf(entries[field])] ELSE due
  /\ IF projected
     THEN /\ entries' = Append(entries, <<>>)
          /\ field' = Len(entries')
          /\ pc' = [pc EXCEPT ![g] = "cloned"]
          /\ broken' = (broken \/ \E h \in Goroutines : pc[h] = "cloned")
     ELSE pc' = [pc EXCEPT ![g] = "section"] /\ UNCHANGED <<entries, field, broken>>
  /\ UNCHANGED <<projected, todo, ranging, result>>

\* The guard of the projected pointer is dropped: the map is back.
PutBack(g) ==
  /\ pc[g] = "cloned"
  /\ field' = handle[g]
  /\ pc' = [pc EXCEPT ![g] = "section"]
  /\ UNCHANGED <<projected, todo, handle, entries, ranging, result, broken, due>>

\* The running call returns r and leaves vector.
Return(g, vector, r) ==
  /\ entries' = [entries EXCEPT ![handle[g]] = vector]
  /\ result' = [result EXCEPT ![g] = <<Now(g)>> \o r]
  /\ due' = [h \in Goroutines |-> due[h] \cap KeysOf(vector)]
  /\ todo' = [todo EXCEPT ![g] = Tail(@)]
  /\ pc' = [pc EXCEPT ![g] = "call"]
  /\ UNCHANGED <<projected, handle, field, ranging, broken>>

Section(g, op) == Calling(g) /\ pc[g] = "section" /\ Now(g).op = op

Vector(g) == entries[handle[g]]
Index(g) == find_key(Vector(g), Now(g).key)
Stored(g) == Vector(g)[Index(g)][2]
With(g, val) == [Vector(g) EXCEPT ![Index(g)][2] = val]
Without(g) == RemoveAt(Vector(g), Index(g))
Pushed(g) == Append(Vector(g), <<clone_any(Now(g).key), Now(g).val>>)
Missing == <<None, FALSE>>

Load(g) ==
  /\ Section(g, "Load")
  /\ Return(g, Vector(g), IF Index(g) = 0 THEN Missing ELSE <<Stored(g), TRUE>>)

Clear(g) == Section(g, "Clear") /\ Return(g, <<>>, Missing)

LoadOrStore(g) ==
  /\ Section(g, "LoadOrStore")
  /\ IF Index(g) = 0 THEN Return(g, Pushed(g), <<Now(g).val, FALSE>>)
                     ELSE Return(g, Vector(g), <<Stored(g), TRUE>>)

\* LoadAndDelete, and Delete, which drops the result.
LoadAndDelete(g) ==
  /\ Section(g, "LoadAndDelete")
  /\ IF Index(g) = 0 THEN Return(g, Vector(g), Missing)
                     ELSE Return(g, Without(g), <<Stored(g), TRUE>>)

\* Swap, and Store, which drops the result.
Swap(g) ==
  /\ Section(g, "Swap")
  /\ IF Index(g) = 0 THEN Return(g, Pushed(g), Missing)
                     ELSE Return(g, With(g, Now(g).val), <<Stored(g), TRUE>>)

CompareAndSwap(g) ==
  /\ Section(g, "CompareAndSwap")
  /\ IF Index(g) # 0 /\ Stored(g) = Now(g).old
     THEN Return(g, With(g, Now(g).val), <<None, TRUE>>)
     ELSE Return(g, Vector(g), Missing)

\* Mutant: the old value is not compared.
DeleteWithoutCompare(g) ==
  /\ Section(g, "CompareAndDelete")
  /\ IF Index(g) # 0 THEN Return(g, Without(g), <<None, TRUE>>)
                     ELSE Return(g, Vector(g), Missing)

CompareAndDelete(g) ==
  /\ Section(g, "CompareAndDelete")
  /\ IF Index(g) # 0 /\ Stored(g) = Now(g).old
     THEN Return(g, Without(g), <<None, TRUE>>)
     ELSE Return(g, Vector(g), Missing)

\* Range: the snapshot is taken under the lock and handed to f without it.
Snapshot(g) ==
  /\ Section(g, "Range")
  /\ ranging' = [ranging EXCEPT ![g] = [list |-> Vector(g), next |-> 1, visited |-> <<>>]]
  /\ pc' = [pc EXCEPT ![g] = "call"]
  /\ UNCHANGED <<projected, todo, handle, field, entries, result, broken, due>>

\* Mutant: f is called on the entries as they are.
LiveList(g) == Vector(g)

List(g) == ranging[g].list

\* f is called on the next entry and may call the map itself.
Visit(g) ==
  /\ InRange(g) /\ ranging[g].next <= Len(List(g))
  /\ LET key == List(g)[ranging[g].next][1]
         body == Now(g).body
     IN  /\ ranging' = [ranging EXCEPT ![g].next = @ + 1, ![g].visited = Append(@, key)]
         /\ todo' = IF body = None THEN todo
                    ELSE [todo EXCEPT ![g] =
                            <<IF body.key = None THEN [body EXCEPT !.key = key] ELSE body>> \o @]
  /\ UNCHANGED <<projected, pc, handle, field, entries, result, broken, due>>

\* f has returned false, or there is no entry left.
EndRange(g) ==
  /\ InRange(g) /\ (ranging[g].next > 1 \/ List(g) = <<>>)
  /\ ranging' = [ranging EXCEPT ![g] = None]
  /\ todo' = [todo EXCEPT ![g] = Tail(@)]
  /\ UNCHANGED <<projected, pc, handle, field, entries, result, broken, due>>

Advance(g) ==
  \/ Unhashable(g) \/ Entries(g) \/ PutBack(g)
  \/ Load(g) \/ Clear(g) \/ LoadOrStore(g) \/ LoadAndDelete(g) \/ Swap(g)
  \/ CompareAndSwap(g) \/ CompareAndDelete(g)
  \/ Snapshot(g) \/ Visit(g) \/ EndRange(g)

Done == (\A g \in Goroutines : todo[g] = <<>>) /\ UNCHANGED vars

Next == (\E g \in Goroutines : Advance(g)) \/ Done

Spec == Init /\ [][Next]_vars

-----------------------------------------------------------------------------
\* The vector of the map, which a goroutine may have out of the field.
Out == {g \in Goroutines : pc[g] = "cloned"}
Current == entries[IF Out = {} THEN field ELSE handle[CHOOSE g \in Out : TRUE]]
Lookup(vector, k) == LET i == find_key(vector, k) IN IF i = 0 THEN None ELSE vector[i][2]
Contents == [k \in Keys |-> Lookup(Current, k)]

\* The calls that the programs make, those of f with every key it may be passed.
Given == UNION {UNION {ToSet(p[g]) : g \in Goroutines} : p \in Programs}
Ranging == {c \in Given : c.op = "Range"}
Made == (Given \ Ranging) \cup
  {[c.body EXCEPT !.key = IF @ = None THEN k ELSE @] :
     c \in {d \in Ranging : d.body # None}, k \in Keys \cup {NilKey}}

Promised == INSTANCE AtomicMap WITH map <- Contents, Calls <- Made

\* A map that is a variable, and one that is a field until two goroutines have
\* it out of the field at once, is an atomic map: each operation happens at
\* its critical section, whatever other keys and interleaved Ranges do.
ImplementsMap == Promised!Spec

\* A Range that was not stopped has passed f every key that was there for its
\* whole duration, and no key twice, whatever f and others did meanwhile.
RangeVisitsAll ==
  \A g \in Goroutines :
    InRange(g) /\ ranging[g].next > Len(List(g)) /\ ~broken =>
      LET visited == ranging[g].visited
      IN  /\ due[g] \cap Keys \subseteq ToSet(visited)
          /\ \A i, j \in DOMAIN visited : visited[i] = visited[j] /\ visited[i] \in Keys => i = j
=============================================================================
