------------------------------ MODULE Pointer ------------------------------
(***************************************************************************)
(* The pointers of generated programs: gors-builtin's GorsPtr<T>.          *)
(*                                                                         *)
(* A direct pointer is an Arc<Mutex<T>>, a cell; its guard is the mutex's. *)
(* A pointer to a field or to an element of a value behind a pointer is    *)
(* projected: taking its guard locks the owner, takes the value out, which *)
(* leaves the type's default there, and unlocks the owner; dropping the    *)
(* guard locks the owner again and puts the value back.  The owner may be  *)
(* projected itself, and then each of these steps takes and drops a guard  *)
(* of the owner.                                                           *)
(*                                                                         *)
(* A pointer is [cell, path]: the regions, sets of the cell's leaves, that *)
(* the chain of projections selects, outermost first.  A goroutine works   *)
(* through a list of statements, each compiled to steps; a step between    *)
(* acquire and release is one no other user of that cell can see.          *)
(***************************************************************************)
EXTENDS Naturals, Sequences

CONSTANTS
  Goroutines,
  Cells,       \* the allocated cells
  LeavesOf,    \* LeavesOf[c]: the leaves (integer fields) of the value in c
  Programs,    \* the programs: what each goroutine executes
  MaxVal,      \* the largest integer; adding to it panics (debug builds)
  Nil          \* a nil pointer; also: nobody

Leaves == UNION {LeavesOf[c] : c \in Cells}
Pointers == [cell : Cells, path : Seq(SUBSET Leaves)]

ASSUME PointerAssumption ==
  /\ MaxVal \in Nat \ {0}
  /\ Nil \notin Goroutines \cup Cells \cup Pointers
  /\ \A c, d \in Cells : c # d => LeavesOf[c] \cap LeavesOf[d] = {}

VARIABLES
  program,  \* program[g]: the statements of g, chosen at the start
  begun,    \* begun[g]: how many of them g has begun
  steps,    \* steps[g]: the steps left of g's statement
  owner,    \* owner[c]: who holds the mutex of cell c, or Nil
  mem,      \* mem[l]: the value of leaf l in its cell
  taken,    \* taken[g]: the projected guards alive in g, [slot, n, val] with
            \* val a function on the leaves of the region
  seen,     \* seen[g][l]: what g's latest read of leaf l returned
  raced     \* history: the leaves reached while somebody's guard had them out

vars == <<program, begun, steps, owner, mem, taken, seen, raced>>

Register == INSTANCE Memory

\* Mutant: the projection selects the whole cell.
WholeCell(ptr, n) == LeavesOf[ptr.cell]

\* What the first n projections of a pointer select.
Region(ptr, n) == IF n = 0 THEN LeavesOf[ptr.cell] ELSE ptr.path[n]

\* A projection selects a part of what the ones before it do.
Nested(ptr) == \A n \in 0..Len(ptr.path) :
  /\ Region(ptr, n) # {}
  /\ n # 0 => Region(ptr, n) \subseteq Region(ptr, n - 1)

Statements == [access : Register!Accesses, ptr : Pointers \cup {Nil}, under : Pointers \cup {Nil}]

ASSUME ProgramsAssumption == \A p \in Programs :
  /\ p \in [Goroutines -> Seq(Statements)]
  /\ \A g \in Goroutines : \A i \in DOMAIN p[g] : \A ptr \in {p[g][i].ptr, p[g][i].under} \ {Nil} :
       Nested(ptr)

-----------------------------------------------------------------------------
(* Compilation of a statement to steps.                                    *)

Step(do, slot, ptr, n) == [do |-> do, slot |-> slot, ptr |-> ptr, n |-> n]

\* Mutant: the guard of the owner is kept until the projected guard is dropped.
KeepsOwnerGuard(slot, ptr) ==
  LET at[n \in 0..Len(ptr.path)] ==
        IF n = 0
        THEN [lock |-> <<Step("acquire", slot, ptr, 0)>>,
              drop |-> <<Step("release", slot, ptr, 0)>>]
        ELSE [lock |-> at[n - 1].lock \o <<Step("take", slot, ptr, n)>>,
              drop |-> <<Step("put", slot, ptr, n)>> \o at[n - 1].drop]
  IN  at[Len(ptr.path)]

\* The steps that take the guard of ptr, and those that drop it: at depth n
\* the guard of depth n - 1 is taken and dropped around the transfer.
Guard(slot, ptr) ==
  LET at[n \in 0..Len(ptr.path)] ==
        IF n = 0
        THEN [lock |-> <<Step("acquire", slot, ptr, 0)>>,
              drop |-> <<Step("release", slot, ptr, 0)>>]
        ELSE LET o == at[n - 1]
             IN  [lock |-> o.lock \o <<Step("take", slot, ptr, n)>> \o o.drop,
                  drop |-> o.lock \o <<Step("put", slot, ptr, n)>> \o o.drop]
  IN  at[Len(ptr.path)]

\* An access under the guard of ptr.
Accessing(slot, ptr, access) ==
  IF ptr = Nil
  THEN <<[do |-> "nil_panic"]>>
  ELSE Guard(slot, ptr).lock \o <<Step(access, slot, ptr, Len(ptr.path))>>
         \o Guard(slot, ptr).drop

\* A statement is an access, alone or inside a method whose receiver's guard,
\* that of "under", stays alive for the whole call.
Compile(s) ==
  IF s.under = Nil
  THEN Accessing("main", s.ptr, s.access)
  ELSE Guard("under", s.under).lock \o Accessing("main", s.ptr, s.access)
         \o Guard("under", s.under).drop

Init ==
  /\ program \in Programs
  /\ begun = [g \in Goroutines |-> 0]
  /\ steps = [g \in Goroutines |-> <<>>]
  /\ owner = [c \in Cells |-> Nil]
  /\ mem = [l \in Leaves |-> 0]
  /\ taken = [g \in Goroutines |-> {}]
  /\ seen = [g \in Goroutines |-> [l \in Leaves |-> 0]]
  /\ raced = {}

-----------------------------------------------------------------------------
(* Who has what.                                                           *)

\* The leaves of a region that a guard of another goroutine, or of another
\* slot of the same one, has taken out.
OutElsewhere(g, slot, region) ==
  {l \in region : \E h \in Goroutines : \E v \in taken[h] :
     <<h, v.slot>> # <<g, slot>> /\ l \in DOMAIN v.val}

\* What is found at level n of a slot of g: in the cell, or in its guard.
GuardAt(g, slot, n) == CHOOSE v \in taken[g] : v.slot = slot /\ v.n = n
Found(g, slot, n, l) == IF n = 0 THEN mem[l] ELSE GuardAt(g, slot, n).val[l]

\* The guards of g after the values at level n of slot become val, on val's
\* domain; level 0 is the cell, changed by SetMem.
SetGuards(g, slot, n, val) ==
  {IF v.slot = slot /\ v.n = n
   THEN [v EXCEPT !.val = [l \in DOMAIN @ |-> IF l \in DOMAIN val THEN val[l] ELSE @[l]]]
   ELSE v : v \in taken[g]}

SetMem(val) == [l \in Leaves |-> IF l \in DOMAIN val THEN val[l] ELSE mem[l]]

Set(g, slot, n, val) ==
  IF n = 0 THEN mem' = SetMem(val) /\ UNCHANGED taken
           ELSE taken' = [taken EXCEPT ![g] = SetGuards(g, slot, n, val)] /\ UNCHANGED mem

-----------------------------------------------------------------------------
(* The steps.                                                              *)

Begin(g) ==
  /\ steps[g] = <<>> /\ begun[g] < Len(program[g])
  /\ begun' = [begun EXCEPT ![g] = @ + 1]
  /\ steps' = [steps EXCEPT ![g] = Compile(program[g][begun'[g]])]
  /\ UNCHANGED <<program, owner, mem, taken, seen, raced>>

\* g is about to execute a step of this kind, and goes past it.
At(g, do) == steps[g] # <<>> /\ Head(steps[g]).do = do
Past(g) == steps' = [steps EXCEPT ![g] = Tail(@)] /\ UNCHANGED <<program, begun>>

\* Mutex::lock; a goroutine that holds the mutex already waits for itself.
Acquire(g) ==
  /\ At(g, "acquire") /\ owner[Head(steps[g]).ptr.cell] = Nil
  /\ Past(g)
  /\ owner' = [owner EXCEPT ![Head(steps[g]).ptr.cell] = g]
  /\ UNCHANGED <<mem, taken, seen, raced>>

Release(g) ==
  /\ At(g, "release")
  /\ Past(g)
  /\ owner' = [owner EXCEPT ![Head(steps[g]).ptr.cell] = Nil]
  /\ UNCHANGED <<mem, taken, seen, raced>>

Default(region) == [l \in region |-> 0]

\* mem::take through the owner's guard: the region moves to a guard of its own.
Take(g) ==
  /\ At(g, "take")
  /\ Past(g)
  /\ LET s == Head(steps[g])
         region == Region(s.ptr, s.n)
         val == [l \in region |-> Found(g, s.slot, s.n - 1, l)]
         new == [slot |-> s.slot, n |-> s.n, val |-> val]
     IN  /\ raced' = raced \cup OutElsewhere(g, s.slot, region)
         /\ IF s.n = 1
            THEN /\ mem' = SetMem(Default(region))
                 /\ taken' = [taken EXCEPT ![g] = @ \cup {new}]
            ELSE /\ taken' = [taken EXCEPT ![g] =
                               SetGuards(g, s.slot, s.n - 1, Default(region)) \cup {new}]
                 /\ UNCHANGED mem
  /\ UNCHANGED <<owner, seen>>

\* Mutant: the drop leaves the default in the owner.
PutLeavesDefault(g) ==
  /\ At(g, "put")
  /\ Past(g)
  /\ LET s == Head(steps[g])
     IN  taken' = [taken EXCEPT ![g] = @ \ {GuardAt(g, s.slot, s.n)}]
  /\ UNCHANGED <<owner, mem, seen, raced>>

\* Drop of the projected guard: its value moves back into the owner.
Put(g) ==
  /\ At(g, "put")
  /\ Past(g)
  /\ LET s == Head(steps[g])
         v == GuardAt(g, s.slot, s.n)
     IN  IF s.n = 1
         THEN /\ mem' = SetMem(v.val)
              /\ taken' = [taken EXCEPT ![g] = @ \ {v}]
         ELSE /\ taken' = [taken EXCEPT ![g] = SetGuards(g, s.slot, s.n - 1, v.val) \ {v}]
              /\ UNCHANGED mem
  /\ UNCHANGED <<owner, seen, raced>>

\* The access itself, on the value under the guard.
Access(g, access) ==
  /\ At(g, access)
  /\ LET s == Head(steps[g])
         region == Region(s.ptr, s.n)
         old(l) == Found(g, s.slot, s.n, l)
     IN  /\ access = "add" => \A l \in region : old(l) < MaxVal
         /\ Set(g, s.slot, s.n, [l \in region |-> Register!Written(access, old(l), seen[g][l])])
         /\ seen' = IF access = "read"
                    THEN [seen EXCEPT ![g] = [l \in Leaves |-> IF l \in region THEN old(l) ELSE @[l]]]
                    ELSE seen
         /\ raced' = raced \cup OutElsewhere(g, s.slot, region)
  /\ Past(g)
  /\ UNCHANGED owner

Faults(g) ==
  \/ At(g, "nil_panic")
  \/ /\ At(g, "add")
     /\ \E l \in Region(Head(steps[g]).ptr, Head(steps[g]).n) :
          Found(g, Head(steps[g]).slot, Head(steps[g]).n, l) = MaxVal

\* Mutant: a panic forgets the guards that are alive.
PanicLeaks(g) ==
  /\ Faults(g)
  /\ begun' = [begun EXCEPT ![g] = Len(program[g])]
  /\ steps' = [steps EXCEPT ![g] = <<>>]
  /\ UNCHANGED <<program, owner, mem, taken, seen, raced>>

\* lock().unwrap() on a nil pointer, or an overflowing addition: the unwinding
\* drops the guards that are alive, which is what is left of the statement,
\* and the goroutine ends.  A poisoned mutex is locked like any other.
Panic(g) ==
  /\ Faults(g)
  /\ begun' = [begun EXCEPT ![g] = Len(program[g])]
  /\ steps' = [steps EXCEPT ![g] = Tail(@)]
  /\ UNCHANGED <<program, owner, mem, taken, seen, raced>>

Advance(g) ==
  \/ Begin(g) \/ Acquire(g) \/ Release(g) \/ Take(g) \/ Put(g) \/ Panic(g)
  \/ \E access \in Register!Accesses : Access(g, access)

Done(g) == steps[g] = <<>> /\ begun[g] = Len(program[g])

Finished == (\A g \in Goroutines : Done(g)) /\ UNCHANGED vars

Next == (\E g \in Goroutines : Advance(g)) \/ Finished

Spec == Init /\ [][Next]_vars

-----------------------------------------------------------------------------
\* The value of a variable, wherever it is: in the deepest guard that has it
\* out, or in its cell.
Holders(l) == UNION {{v \in taken[g] : l \in DOMAIN v.val} : g \in Goroutines}
ValueOf(l) ==
  IF Holders(l) = {} THEN mem[l]
  ELSE (CHOOSE v \in Holders(l) : \A u \in Holders(l) : u.n <= v.n).val[l]

Variables == INSTANCE Memory WITH mem <- [l \in Leaves |-> ValueOf(l)]

\* Accesses through direct and projected pointers are atomic and lose nothing:
\* the cells, guards and steps implement plain variables, up to the leaves
\* that were reached while the guard of somebody else had them out.
ImplementsMemory == Variables!Spec

Blocked(g) == At(g, "acquire") /\ owner[Head(steps[g]).ptr.cell] # Nil

\* The goroutine runs a method under the guard of a direct pointer.
InCall(g) == \E i \in DOMAIN steps[g] :
  /\ "slot" \in DOMAIN steps[g][i]
  /\ steps[g][i].slot = "under" /\ steps[g][i].ptr.path = <<>> /\ steps[g][i].do = "release"

\* Goroutines get stuck only when each of them waits for one that is in such a
\* method, the waiting one itself included.
StuckOnlyInCalls ==
  (\A g \in Goroutines : Done(g) \/ Blocked(g)) =>
    \A g \in Goroutines : Blocked(g) => InCall(owner[Head(steps[g]).ptr.cell])

\* The outermost projections of the pointers that g's program names in a slot.
Outer(ptr) ==
  IF ptr = Nil THEN {} ELSE IF ptr.path = <<>> THEN LeavesOf[ptr.cell] ELSE ptr.path[1]
Reaches(g, slot) == UNION {Outer(program[g][i][slot]) : i \in DOMAIN program[g]}

\* Memory is given up only where two goroutines, or a method and its receiver,
\* name pointers whose outermost projections overlap: different fields of one
\* struct are as good as different variables.
RacedWhereShared ==
  \A l \in raced : \E g, h \in Goroutines, a, b \in {"ptr", "under"} :
    <<g, a>> # <<h, b>> /\ l \in Reaches(g, a) \cap Reaches(h, b)
=============================================================================
