--------------------------- MODULE Pointer_proofs ---------------------------
(***************************************************************************)
(* Proofs about pointers, for any number of goroutines and cells, any      *)
(* depth of projections and any programs.                                  *)
(***************************************************************************)
EXTENDS Pointer, SequenceTheorems, WellFoundedInduction, TLAPS

-----------------------------------------------------------------------------
(* Lists.                                                                  *)

Joined(a, b) == a \o b

\* A concatenation: its length and its elements.
LEMMA ConcatIs ==
  ASSUME NEW S, NEW a \in Seq(S), NEW b \in Seq(S)
  PROVE  /\ Joined(a, b) \in Seq(S) /\ Len(a) \in Nat /\ Len(b) \in Nat
         /\ Len(Joined(a, b)) = Len(a) + Len(b)
         /\ DOMAIN a = 1..Len(a) /\ DOMAIN b = 1..Len(b) /\ DOMAIN Joined(a, b) = 1..Len(a) + Len(b)
         /\ \A i \in 1..Len(a) + Len(b) : Joined(a, b)[i] = IF i <= Len(a) THEN a[i] ELSE b[i - Len(a)]
<1>1. /\ a \o b \in Seq(S) /\ Len(a \o b) = Len(a) + Len(b)
      /\ \A i \in 1..Len(a) + Len(b) : (a \o b)[i] = IF i <= Len(a) THEN a[i] ELSE b[i - Len(a)]
  BY ConcatProperties
<1> DEFINE c == Joined(a, b)
<1>2. /\ c \in Seq(S) /\ Len(c) = Len(a) + Len(b)
      /\ \A i \in 1..Len(a) + Len(b) : c[i] = IF i <= Len(a) THEN a[i] ELSE b[i - Len(a)]
  BY <1>1, Zenon DEF Joined
<1> HIDE DEF c
<1>3. /\ Len(a) \in Nat /\ Len(b) \in Nat /\ DOMAIN a = 1..Len(a) /\ DOMAIN b = 1..Len(b)
      /\ DOMAIN c = 1..Len(c)
  BY <1>2
<1> QED BY <1>2, <1>3 DEF c

\* What is left of a list without its head.
LEMMA TailIs ==
  ASSUME NEW S, NEW s \in Seq(S), s # <<>>
  PROVE  /\ Tail(s) \in Seq(S) /\ Len(s) \in Nat \ {0} /\ Len(Tail(s)) = Len(s) - 1
         /\ DOMAIN s = 1..Len(s) /\ DOMAIN Tail(s) = 1..Len(s) - 1
         /\ Head(s) = s[1] /\ Head(s) \in S
         /\ \A i \in 1..Len(s) - 1 : Tail(s)[i] = s[i + 1]
<1>1. Tail(s) \in Seq(S) /\ Len(Tail(s)) = Len(s) - 1 /\ Len(s) \in Nat \ {0}
  OBVIOUS
<1>2. \A i \in 1..Len(s) - 1 : Tail(s)[i] = s[i + 1]
  BY <1>1
<1>3. DOMAIN s = 1..Len(s) /\ DOMAIN Tail(s) = 1..Len(s) - 1 /\ Head(s) = s[1] /\ Head(s) \in S
  BY <1>1
<1> QED BY <1>1, <1>2, <1>3

-----------------------------------------------------------------------------
(* What a goroutine holds as it goes through its steps: level 0 of a slot   *)
(* is the mutex of the cell, level n the guard of the n-th projection.      *)

Slots == {"main", "under"}

Hold(slot, ptr, n) == [slot |-> slot, ptr |-> ptr, n |-> n]

\* The mutexes held are those of methods that run under a direct pointer.
OnlyMethods(F) == \A e \in F : e.n = 0 => e.slot = "under" /\ e.ptr.path = <<>>

\* p[slot]: the pointers used in a slot.
IsStep(p, x) == /\ x = Step(x.do, x.slot, x.ptr, x.n)
                /\ x.slot \in Slots /\ x.ptr \in p[x.slot] /\ x.n \in 0..Len(x.ptr.path)

\* The step x is taken with F held and leaves G held.
Moved(x, F, G) ==
  LET here  == Hold(x.slot, x.ptr, x.n)
      below == Hold(x.slot, x.ptr, x.n - 1)
  IN  \/ x.do = "acquire" /\ x.n = 0 /\ OnlyMethods(F) /\ G = F \cup {here}
      \/ x.do = "release" /\ x.n = 0 /\ here \in F /\ G = F \ {here}
      \/ x.do = "take" /\ x.n # 0 /\ below \in F /\ here \notin F /\ G = F \cup {here}
      \/ x.do = "put" /\ x.n # 0 /\ below \in F /\ here \in F /\ G = F \ {here}
      \/ x.do \in Register!Accesses /\ x.n = Len(x.ptr.path) /\ here \in F /\ G = F

OnePointer(x, F) == \A e \in F : e.slot = x.slot => e.ptr = x.ptr

Legal(p, x, F, G) ==
  \/ x = [do |-> "nil_panic"] /\ G = F
  \/ IsStep(p, x) /\ OnePointer(x, F) /\ Moved(x, F, G)

\* The steps l lead from F to G.
Leads(p, l, F, G, t) ==
  t[0] = F /\ t[Len(l)] = G /\ \A i \in 1..Len(l) : Legal(p, l[i], t[i - 1], t[i])
Moves(p, l, F, G) == \E t : Leads(p, l, F, G, t)

\* One list of steps after another.
LEMMA MovesConcat ==
  ASSUME NEW S, NEW a \in Seq(S), NEW b \in Seq(S), NEW p, NEW F, NEW G, NEW H,
         Moves(p, a, F, G), Moves(p, b, G, H)
  PROVE  Moves(p, Joined(a, b), F, H)
<1>1. PICK ta : Leads(p, a, F, G, ta)
  BY DEF Moves
<1>2. PICK tb : Leads(p, b, G, H, tb)
  BY DEF Moves
<1> DEFINE m == Len(a)
           n == Len(b)
           c == Joined(a, b)
           t == [i \in 0..m + n |-> IF i <= m THEN ta[i] ELSE tb[i - m]]
<1>3. /\ m \in Nat /\ n \in Nat /\ Len(c) = m + n
      /\ \A i \in 1..m + n : c[i] = IF i <= m THEN a[i] ELSE b[i - m]
  BY ConcatIs
<1>4. \A i \in 0..m + n : t[i] = IF i <= m THEN ta[i] ELSE tb[i - m]
  OBVIOUS
<1>5. /\ ta[0] = F /\ ta[m] = G /\ \A i \in 1..m : Legal(p, a[i], ta[i - 1], ta[i])
      /\ tb[0] = G /\ tb[n] = H /\ \A i \in 1..n : Legal(p, b[i], tb[i - 1], tb[i])
  BY <1>1, <1>2 DEF Leads
<1> HIDE DEF m, n, c, t
<1>6. t[0] = F
  <2>1. 0 \in 0..m + n /\ 0 <= m
    BY <1>3
  <2> QED BY <1>4, <1>5, <2>1
<1>7. t[m + n] = H
  <2>1. m + n \in 0..m + n /\ (m + n <= m => n = 0) /\ m + n - m = n
    BY <1>3
  <2> QED BY <1>3, <1>4, <1>5, <2>1
<1>8. ASSUME NEW i \in 1..m + n PROVE Legal(p, c[i], t[i - 1], t[i])
  <2>1. i \in 0..m + n /\ i - 1 \in 0..m + n /\ i \in Int
    BY <1>3
  <2>2. CASE i <= m
    <3>1. i \in 1..m /\ i - 1 <= m
      BY <1>3, <2>1, <2>2
    <3> QED BY <1>3, <1>4, <1>5, <2>1, <2>2, <3>1
  <2>3. CASE ~(i <= m)
    <3>1. i - m \in 1..n /\ i - 1 - m = i - m - 1
      BY <1>3, <2>1, <2>3
    <3>2. t[i] = tb[i - m] /\ c[i] = b[i - m]
      BY <1>3, <1>4, <2>1, <2>3
    <3>3. t[i - 1] = tb[i - m - 1]
      <4>1. CASE i - 1 <= m
        <5>1. i - 1 = m /\ i - m - 1 = 0
          BY <1>3, <2>1, <2>3, <4>1
        <5> QED BY <1>4, <1>5, <2>1, <4>1, <5>1
      <4> QED BY <1>4, <2>1, <3>1, <4>1
    <3> QED BY <1>5, <3>1, <3>2, <3>3
  <2> QED BY <2>2, <2>3
<1>9. Leads(p, c, F, H, t)
  BY <1>3, <1>6, <1>7, <1>8 DEF Leads
<1> QED BY <1>9 DEF Moves, c

\* A list of one step.
LEMMA MovesOne ==
  ASSUME NEW p, NEW x, NEW F, NEW G, Legal(p, x, F, G)
  PROVE  Moves(p, <<x>>, F, G)
<1> DEFINE t == [i \in {0, 1} |-> IF i = 0 THEN F ELSE G]
<1>1. Leads(p, <<x>>, F, G, t)
  BY DEF Leads
<1> QED BY <1>1 DEF Moves

\* Nothing left to do leaves what is held as it is.
LEMMA MovesNone ==
  ASSUME NEW p
  PROVE  /\ \A F : Moves(p, <<>>, F, F)
         /\ \A F, G : Moves(p, <<>>, F, G) => F = G
<1>1. ASSUME NEW F PROVE Moves(p, <<>>, F, F)
  <2> DEFINE t == [i \in {0} |-> F]
  <2>1. Leads(p, <<>>, F, F, t)
    BY DEF Leads
  <2> QED BY <2>1 DEF Moves
<1>2. ASSUME NEW F, NEW G, Moves(p, <<>>, F, G) PROVE F = G
  BY <1>2 DEF Moves, Leads
<1> QED BY <1>1, <1>2

\* The first step is legal, and so are the rest after it.
LEMMA MovesTail ==
  ASSUME NEW S, NEW s \in Seq(S), s # <<>>, NEW p, NEW F, NEW H, Moves(p, s, F, H)
  PROVE  \E G : Legal(p, Head(s), F, G) /\ Moves(p, Tail(s), G, H)
<1>1. PICK t : Leads(p, s, F, H, t)
  BY DEF Moves
<1> DEFINE n == Len(s)
           u == [i \in 0..n - 1 |-> t[i + 1]]
           r == Tail(s)
<1>2. /\ n \in Nat \ {0} /\ Len(r) = n - 1 /\ Head(s) = s[1]
      /\ \A i \in 1..n - 1 : r[i] = s[i + 1]
  BY TailIs
<1>3. /\ t[0] = F /\ t[n] = H /\ \A i \in 1..n : Legal(p, s[i], t[i - 1], t[i])
  BY <1>1 DEF Leads
<1>4. \A i \in 0..n - 1 : u[i] = t[i + 1]
  OBVIOUS
<1> HIDE DEF n, u, r
<1>5. Legal(p, Head(s), F, t[1])
  <2>1. 1 \in 1..n /\ 1 - 1 = 0
    BY <1>2
  <2> QED BY <1>2, <1>3, <2>1
<1>6. u[0] = t[1] /\ u[n - 1] = H
  <2>1. 0 \in 0..n - 1 /\ n - 1 \in 0..n - 1 /\ n - 1 + 1 = n /\ 0 + 1 = 1
    BY <1>2
  <2> QED BY <1>3, <1>4, <2>1
<1>7. ASSUME NEW i \in 1..n - 1 PROVE Legal(p, r[i], u[i - 1], u[i])
  <2>1. i + 1 \in 1..n /\ i \in 0..n - 1 /\ i - 1 \in 0..n - 1 /\ i - 1 + 1 = i /\ i + 1 - 1 = i
    BY <1>2
  <2>2. Legal(p, s[i + 1], t[i], t[i + 1])
    BY <1>3, <2>1
  <2> QED BY <1>2, <1>4, <2>1, <2>2
<1>8. Leads(p, r, t[1], H, u)
  BY <1>2, <1>6, <1>7 DEF Leads
<1>9. Moves(p, Tail(s), t[1], H)
  BY <1>8 DEF Moves, r
<1> QED BY <1>5, <1>9

\* Induction: a set of numbers that is not empty has a least one.
LEMMA LeastOfNat ==
  ASSUME NEW T \in SUBSET Nat, T # {}
  PROVE  \E k \in T : \A j \in T : k <= j
<1>1. PICK k \in T : \A j \in T : ~(<<j, k>> \in OpToRel(<, Nat))
  BY NatLessThanWellFounded, WFMin
<1>2. \A j \in T : ~(j < k)
  BY <1>1 DEF OpToRel
<1> QED BY <1>2

\* Who is left with nothing has released what he held.
LEMMA MovesReleases ==
  ASSUME NEW p, NEW s, NEW F, Moves(p, s, F, {}), Len(s) \in Nat, NEW e \in F, e.n = 0
  PROVE  \E i \in 1..Len(s) : /\ s[i] = Step("release", s[i].slot, s[i].ptr, s[i].n)
                              /\ e = Hold(s[i].slot, s[i].ptr, 0)
<1> DEFINE n == Len(s)
<1>1. PICK t : Leads(p, s, F, {}, t)
  BY DEF Moves
<1> DEFINE T == {k \in 0..n : e \notin t[k]}
<1>2. PICK k \in T : \A j \in T : k <= j
  <2>1. n \in T
    BY <1>1 DEF Leads
  <2>2. T \in SUBSET Nat
    OBVIOUS
  <2> HIDE DEF T
  <2> QED BY <2>1, <2>2, LeastOfNat
<1>3. k \in 1..n /\ k - 1 \in 0..n
  <2>1. k # 0
    BY <1>1 DEF Leads
  <2> QED BY <2>1
<1>4. e \in t[k - 1] /\ e \notin t[k]
  <2>1. k - 1 \notin T
    BY <1>2
  <2> QED BY <1>3, <2>1
<1>5. Legal(p, s[k], t[k - 1], t[k])
  BY <1>1, <1>3 DEF Leads
<1> DEFINE x == s[k]
<1>6. IsStep(p, x) /\ Moved(x, t[k - 1], t[k])
  BY <1>4, <1>5 DEF Legal
<1>7. /\ x.do \in {"release", "put"} /\ e = Hold(x.slot, x.ptr, x.n)
      /\ x.do = "put" => x.n # 0
      /\ x.do = "release" => x.n = 0
  BY <1>4, <1>6 DEF Moved
<1>8. x.n = 0 /\ x.do = "release" /\ e = Hold(x.slot, x.ptr, 0)
  <2>1. e.n = x.n
    BY <1>7 DEF Hold
  <2> QED BY <1>7, <2>1
<1>9. x = Step("release", x.slot, x.ptr, x.n)
  BY <1>6, <1>8 DEF IsStep
<1> QED BY <1>3, <1>8, <1>9

-----------------------------------------------------------------------------
(* The guard of a pointer, one projection after the other.                 *)

Level(slot, ptr, n, o) ==
  IF n = 0
  THEN [lock |-> <<Step("acquire", slot, ptr, 0)>>,
        drop |-> <<Step("release", slot, ptr, 0)>>]
  ELSE [lock |-> o.lock \o <<Step("take", slot, ptr, n)>> \o o.drop,
        drop |-> o.lock \o <<Step("put", slot, ptr, n)>> \o o.drop]

IsLevels(slot, ptr, k, f) == f = [n \in 0..k |-> Level(slot, ptr, n, f[n - 1])]

\* The recursive function that Guard defines exists.
LEMMA LevelsExist ==
  ASSUME NEW slot, NEW ptr, NEW k \in Nat
  PROVE  \E f : IsLevels(slot, ptr, k, f)
<1> DEFINE T == {j \in Nat : ~\E f : IsLevels(slot, ptr, j, f)}
<1>1. SUFFICES ASSUME T # {} PROVE FALSE
  OBVIOUS
<1>2. PICK m \in T : \A j \in T : m <= j
  <2>1. T \in SUBSET Nat
    OBVIOUS
  <2> HIDE DEF T
  <2> QED BY <1>1, <2>1, LeastOfNat
<1>3. \A o, q : Level(slot, ptr, 0, o) = Level(slot, ptr, 0, q)
  BY DEF Level
<1>4. CASE m = 0
  <2> DEFINE f == [n \in 0..m |-> Level(slot, ptr, n, 0)]
  <2>1. f = [n \in 0..m |-> Level(slot, ptr, n, f[n - 1])]
    <3>1. \A n \in 0..m : Level(slot, ptr, n, 0) = Level(slot, ptr, n, f[n - 1])
      BY <1>3, <1>4
    <3> QED BY <3>1, Zenon
  <2>2. IsLevels(slot, ptr, m, f)
    BY <2>1 DEF IsLevels
  <2> QED BY <2>2
<1>5. CASE m # 0
  <2>1. m - 1 \in Nat /\ ~(m <= m - 1)
    BY <1>5
  <2>2. PICK f : IsLevels(slot, ptr, m - 1, f)
    BY <1>2, <2>1
  <2> DEFINE last == Level(slot, ptr, m, f[m - 1])
             g == [n \in 0..m |-> IF n < m THEN f[n] ELSE last]
  <2>3. f = [n \in 0..m - 1 |-> Level(slot, ptr, n, f[n - 1])]
    BY <2>2 DEF IsLevels
  <2>4. \A n \in 0..m - 1 : f[n] = Level(slot, ptr, n, f[n - 1])
    BY <2>3, Zenon
  <2>5. \A n \in 0..m : g[n] = IF n < m THEN f[n] ELSE last
    OBVIOUS
  <2>6. ASSUME NEW n \in 0..m PROVE g[n] = Level(slot, ptr, n, g[n - 1])
    <3>0. CASE n = 0
      <4>1. 0 \in 0..m - 1 /\ 0 < m /\ g[0] = f[0]
        BY <1>5, <2>5
      <4>2. f[0] = Level(slot, ptr, 0, f[0 - 1])
        BY <2>4, <4>1
      <4> HIDE DEF g
      <4> QED BY <1>3, <3>0, <4>1, <4>2
    <3>1. CASE n # 0 /\ n < m
      <4>1. n \in 0..m - 1 /\ n - 1 \in 0..m /\ n - 1 < m
        BY <3>1
      <4> HIDE DEF g
      <4>2. g[n] = f[n] /\ g[n - 1] = f[n - 1]
        BY <2>5, <3>1, <4>1
      <4> QED BY <2>4, <4>1, <4>2
    <3>2. CASE ~(n < m)
      <4>1. n = m /\ m - 1 \in 0..m /\ m - 1 < m /\ m \in 0..m /\ ~(m < m)
        BY <1>5, <3>2
      <4> HIDE DEF g
      <4>2. g[m] = last /\ g[m - 1] = f[m - 1]
        BY <2>5, <4>1
      <4> QED BY <4>1, <4>2
    <3> QED BY <3>0, <3>1, <3>2
  <2>7. g = [n \in 0..m |-> g[n]]
    OBVIOUS
  <2> HIDE DEF g
  <2>8. g = [n \in 0..m |-> Level(slot, ptr, n, g[n - 1])]
    BY <2>6, <2>7, Zenon
  <2>9. IsLevels(slot, ptr, m, g)
    BY <2>8 DEF IsLevels
  <2> QED BY <2>9
<1> QED BY <1>4, <1>5

Kinds == {"acquire", "release", "take", "put"} \cup Register!Accesses
StepSet == [do : Kinds, slot : Slots, ptr : Pointers, n : Nat] \cup {[do |-> "nil_panic"]}

\* Room for the levels up to n of a slot.
Free(F, slot, ptr, n) ==
  /\ \A e \in F : e.n \in Nat /\ (e.slot = slot => e.ptr = ptr /\ e.n > n)
  /\ OnlyMethods(F)

\* The steps o take and drop the guard of level n, whatever else is held.
Fits(p, slot, ptr, n, o) ==
  /\ o.lock \in Seq(StepSet) /\ o.drop \in Seq(StepSet)
  /\ \A F : Free(F, slot, ptr, n) =>
       /\ Moves(p, o.lock, F, F \cup {Hold(slot, ptr, n)})
       /\ Moves(p, o.drop, F \cup {Hold(slot, ptr, n)}, F)

\* Locking and unlocking the cell's mutex.
LEMMA FitsFirst ==
  ASSUME NEW p, NEW slot \in Slots, NEW ptr \in p[slot], ptr \in Pointers, NEW o
  PROVE  Fits(p, slot, ptr, 0, Level(slot, ptr, 0, o))
<1> DEFINE lock == Step("acquire", slot, ptr, 0)
           drop == Step("release", slot, ptr, 0)
           here == Hold(slot, ptr, 0)
<1>0. Len(ptr.path) \in Nat
  BY DEF Pointers
<1>1. lock \in StepSet /\ drop \in StepSet /\ IsStep(p, lock) /\ IsStep(p, drop)
  BY <1>0 DEF Step, StepSet, Kinds, IsStep
<1>2. ASSUME NEW F, Free(F, slot, ptr, 0)
      PROVE  Legal(p, lock, F, F \cup {here}) /\ Legal(p, drop, F \cup {here}, F)
  <2>1. here \notin F /\ here.slot = slot /\ here.ptr = ptr /\ here.n = 0
    <3>1. here.slot = slot /\ here.ptr = ptr /\ here.n = 0
      BY DEF Hold
    <3>2. ~(0 > 0)
      OBVIOUS
    <3> QED BY <1>2, <3>1, <3>2 DEF Free
  <2>2. /\ lock.do = "acquire" /\ lock.n = 0 /\ lock.slot = slot /\ lock.ptr = ptr
        /\ drop.do = "release" /\ drop.n = 0 /\ drop.slot = slot /\ drop.ptr = ptr
    BY DEF Step
  <2> HIDE DEF lock, drop, here
  <2>3. /\ \A e \in F \cup {here} : e.slot = slot => e.ptr = ptr
        /\ OnlyMethods(F)
    BY <1>2, <2>1 DEF Free
  <2>4. Moved(lock, F, F \cup {here}) /\ Moved(drop, F \cup {here}, F)
    <3>1. (F \cup {here}) \ {here} = F
      BY <2>1
    <3> QED BY <2>2, <2>3, <3>1 DEF Moved, here
  <2> QED BY <1>1, <2>2, <2>3, <2>4 DEF Legal, OnePointer
<1>3. Level(slot, ptr, 0, o).lock = <<lock>> /\ Level(slot, ptr, 0, o).drop = <<drop>>
  BY DEF Level
<1> HIDE DEF lock, drop
<1>4. <<lock>> \in Seq(StepSet) /\ <<drop>> \in Seq(StepSet)
  BY <1>1
<1>5. ASSUME NEW F, Free(F, slot, ptr, 0)
      PROVE  Moves(p, <<lock>>, F, F \cup {here}) /\ Moves(p, <<drop>>, F \cup {here}, F)
  BY <1>2, <1>5, MovesOne
<1> QED BY <1>3, <1>4, <1>5 DEF Fits

\* A projection: the guard below is taken and dropped around the transfer.
LEMMA FitsNext ==
  ASSUME NEW p, NEW slot \in Slots, NEW ptr \in p[slot], ptr \in Pointers,
         NEW n \in 0..Len(ptr.path), n # 0, NEW o, Fits(p, slot, ptr, n - 1, o)
  PROVE  Fits(p, slot, ptr, n, Level(slot, ptr, n, o))
<1> DEFINE take == Step("take", slot, ptr, n)
           put == Step("put", slot, ptr, n)
           here == Hold(slot, ptr, n)
           below == Hold(slot, ptr, n - 1)
           lock == Joined(Joined(o.lock, <<take>>), o.drop)
           drop == Joined(Joined(o.lock, <<put>>), o.drop)
<1>0. Len(ptr.path) \in Nat /\ n \in Nat /\ n - 1 \in Nat /\ n > n - 1 /\ n # n - 1
  BY DEF Pointers
<1>1. take \in StepSet /\ put \in StepSet /\ IsStep(p, take) /\ IsStep(p, put)
  BY <1>0 DEF Step, StepSet, Kinds, IsStep
<1>2. /\ take.do = "take" /\ take.n = n /\ take.slot = slot /\ take.ptr = ptr
      /\ put.do = "put" /\ put.n = n /\ put.slot = slot /\ put.ptr = ptr
  BY DEF Step
<1>3. /\ here.slot = slot /\ here.ptr = ptr /\ here.n = n
      /\ below.slot = slot /\ below.ptr = ptr /\ below.n = n - 1
      /\ here # below
  BY <1>0 DEF Hold
<1>4. Level(slot, ptr, n, o).lock = lock /\ Level(slot, ptr, n, o).drop = drop
  <2>1. /\ Level(slot, ptr, n, o).lock = o.lock \o <<take>> \o o.drop
        /\ Level(slot, ptr, n, o).drop = o.lock \o <<put>> \o o.drop
    BY DEF Level
  <2> QED BY <2>1, Zenon DEF Joined
<1>5. <<take>> \in Seq(StepSet) /\ <<put>> \in Seq(StepSet)
  BY <1>1
<1>6. o.lock \in Seq(StepSet) /\ o.drop \in Seq(StepSet)
  BY DEF Fits
<1> HIDE DEF take, put, lock, drop, here, below
<1>7. Joined(o.lock, <<take>>) \in Seq(StepSet) /\ Joined(o.lock, <<put>>) \in Seq(StepSet)
  BY <1>5, <1>6, ConcatIs
<1>8. lock \in Seq(StepSet) /\ drop \in Seq(StepSet)
  BY <1>6, <1>7, ConcatIs DEF lock, drop
<1>9. ASSUME NEW F, Free(F, slot, ptr, n)
      PROVE  Moves(p, lock, F, F \cup {here}) /\ Moves(p, drop, F \cup {here}, F)
  <2> DEFINE G == F \cup {here}
  <2>1. here \notin F /\ below \notin F
    <3>1. ~(n > n) /\ ~(n - 1 > n)
      BY <1>0
    <3> QED BY <1>3, <1>9, <3>1 DEF Free
  <2>2. Free(F, slot, ptr, n - 1) /\ Free(G, slot, ptr, n - 1)
    <3>1. \A e \in F : e.n \in Nat /\ (e.slot = slot => e.ptr = ptr /\ e.n > n)
      BY <1>9 DEF Free
    <3>2. ASSUME NEW e \in F, e.slot = slot PROVE e.n > n - 1
      BY <3>1, <3>2, <1>0
    <3>3. OnlyMethods(F) /\ OnlyMethods(G)
      BY <1>3, <1>9 DEF Free, OnlyMethods
    <3>4. \A e \in G : e.n \in Nat /\ (e.slot = slot => e.ptr = ptr /\ e.n > n - 1)
      BY <3>1, <3>2, <1>0, <1>3
    <3> QED BY <3>1, <3>2, <3>3, <3>4 DEF Free
  <2>3. \A H : Free(H, slot, ptr, n - 1) =>
          Moves(p, o.lock, H, H \cup {below}) /\ Moves(p, o.drop, H \cup {below}, H)
    BY DEF Fits, below
  <2>4. \A e \in F \cup {here} \cup {below} : e.slot = slot => e.ptr = ptr
    BY <1>3, <1>9 DEF Free
  <2>5. Moved(take, F \cup {below}, G \cup {below}) /\ Moved(put, G \cup {below}, F \cup {below})
    <3>1. /\ (G \cup {below}) \ {here} = F \cup {below}
          /\ G \cup {below} = (F \cup {below}) \cup {here}
          /\ here \notin F \cup {below}
      BY <1>3, <2>1
    <3> QED BY <1>2, <3>1 DEF Moved, here, below
  <2>6. Legal(p, take, F \cup {below}, G \cup {below}) /\ Legal(p, put, G \cup {below}, F \cup {below})
    BY <1>1, <1>2, <2>4, <2>5 DEF Legal, OnePointer
  <2> HIDE DEF G
  <2>7. /\ Moves(p, <<take>>, F \cup {below}, G \cup {below})
        /\ Moves(p, <<put>>, G \cup {below}, F \cup {below})
    BY <2>6, MovesOne
  <2>8. Moves(p, lock, F, G)
    <3>1. Moves(p, Joined(o.lock, <<take>>), F, G \cup {below})
      BY <1>5, <1>6, <2>2, <2>3, <2>7, MovesConcat
    <3> QED BY <1>6, <1>7, <2>2, <2>3, <3>1, MovesConcat DEF lock
  <2>9. Moves(p, drop, G, F)
    <3>1. Moves(p, Joined(o.lock, <<put>>), G, F \cup {below})
      BY <1>5, <1>6, <2>2, <2>3, <2>7, MovesConcat
    <3> QED BY <1>6, <1>7, <2>2, <2>3, <3>1, MovesConcat DEF drop
  <2> QED BY <2>8, <2>9 DEF G
<1> QED BY <1>4, <1>8, <1>9 DEF Fits, here

\* The steps that Guard makes of a pointer take and drop its guard, at
\* any depth, and hold the mutex of the cell in between only if it is direct.
LEMMA GuardFits ==
  ASSUME NEW p, NEW slot \in Slots, NEW ptr \in p[slot], ptr \in Pointers
  PROVE  Fits(p, slot, ptr, Len(ptr.path), Guard(slot, ptr))
<1> DEFINE L == Len(ptr.path)
<1>1. L \in Nat
  BY DEF Pointers
<1>2. PICK f : IsLevels(slot, ptr, L, f) /\ Guard(slot, ptr) = f[L]
  <2>1. \E f : IsLevels(slot, ptr, L, f)
    BY <1>1, LevelsExist
  <2> QED BY <2>1 DEF Guard, IsLevels, Level
<1> DEFINE T == {j \in 0..L : ~Fits(p, slot, ptr, j, f[j])}
<1>3. \A n \in 0..L : f[n] = Level(slot, ptr, n, f[n - 1])
  BY <1>2, Zenon DEF IsLevels
<1>4. T = {}
  <2> SUFFICES ASSUME T # {} PROVE FALSE
    OBVIOUS
  <2>1. PICK m \in T : \A j \in T : m <= j
    <3>1. T \in SUBSET Nat
      OBVIOUS
    <3> HIDE DEF T
    <3> QED BY <3>1, LeastOfNat
  <2>2. f[m] = Level(slot, ptr, m, f[m - 1]) /\ m \in 0..L /\ ~Fits(p, slot, ptr, m, f[m])
    BY <1>3
  <2>3. CASE m = 0
    BY <2>2, <2>3, FitsFirst
  <2>4. CASE m # 0
    <3>1. m - 1 \in 0..L /\ ~(m <= m - 1)
      BY <1>1, <2>2, <2>4
    <3>2. Fits(p, slot, ptr, m - 1, f[m - 1])
      BY <2>1, <3>1
    <3> QED BY <2>2, <2>4, <3>2, FitsNext
  <2> QED BY <2>3, <2>4
<1>5. L \in 0..L
  BY <1>1
<1> HIDE DEF L
<1>6. Fits(p, slot, ptr, L, f[L])
  BY <1>4, <1>5
<1> QED BY <1>2, <1>6 DEF L

-----------------------------------------------------------------------------
(* A statement begins and ends with nothing held.                          *)

NotMain(F) == OnlyMethods(F) /\ \A e \in F : e.n \in Nat /\ e.slot # "main"

\* An access takes its guard, works under it and drops it.
LEMMA AccessingMoves ==
  ASSUME NEW p, NEW ptr, ptr = Nil \/ (ptr \in p["main"] /\ ptr \in Pointers),
         NEW access \in Register!Accesses, NEW F, NotMain(F)
  PROVE  /\ Accessing("main", ptr, access) \in Seq(StepSet)
         /\ Moves(p, Accessing("main", ptr, access), F, F)
<1>1. CASE ptr = Nil
  <2> DEFINE x == [do |-> "nil_panic"]
  <2>1. x \in StepSet
    BY DEF StepSet
  <2>2. Legal(p, x, F, F)
    BY DEF Legal, OnePointer
  <2>3. Accessing("main", ptr, access) = <<x>>
    BY <1>1 DEF Accessing
  <2> HIDE DEF x
  <2>4. <<x>> \in Seq(StepSet) /\ Moves(p, <<x>>, F, F)
    BY <2>1, <2>2, MovesOne
  <2> QED BY <2>3, <2>4
<1>2. CASE ptr # Nil
  <2> DEFINE n == Len(ptr.path)
             o == Guard("main", ptr)
             x == Step(access, "main", ptr, n)
             here == Hold("main", ptr, n)
             G == F \cup {here}
  <2>1. n \in Nat /\ ptr \in p["main"] /\ ptr \in Pointers /\ "main" \in Slots
    BY <1>2 DEF Pointers, Slots
  <2>2. Fits(p, "main", ptr, n, o)
    BY <2>1, GuardFits
  <2>3. x \in StepSet /\ IsStep(p, x)
    BY <2>1 DEF Step, StepSet, Kinds, IsStep
  <2>4. x.do = access /\ x.slot = "main" /\ x.ptr = ptr /\ x.n = n
    BY DEF Step
  <2>5. here.slot = "main" /\ here.ptr = ptr
    BY DEF Hold
  <2>6. Accessing("main", ptr, access) = Joined(Joined(o.lock, <<x>>), o.drop)
    <3>1. Accessing("main", ptr, access) = o.lock \o <<x>> \o o.drop
      BY <1>2 DEF Accessing
    <3> QED BY <3>1, Zenon DEF Joined
  <2> HIDE DEF n, o, x, here
  <2>7. Legal(p, x, G, G)
    <3>1. \A e \in G : e.slot = x.slot => e.ptr = x.ptr
      BY <2>4, <2>5 DEF NotMain
    <3>2. Moved(x, G, G)
      BY <2>4 DEF Moved, here, n
    <3> QED BY <2>3, <3>1, <3>2 DEF Legal, OnePointer
  <2> HIDE DEF G
  <2>8. /\ o.lock \in Seq(StepSet) /\ o.drop \in Seq(StepSet) /\ <<x>> \in Seq(StepSet)
        /\ Moves(p, <<x>>, G, G)
    BY <2>2, <2>3, <2>7, MovesOne DEF Fits
  <2>9. Moves(p, o.lock, F, G) /\ Moves(p, o.drop, G, F)
    <3>1. Free(F, "main", ptr, n)
      BY DEF Free, NotMain
    <3> QED BY <2>2, <3>1 DEF Fits, G, here
  <2>10. Joined(o.lock, <<x>>) \in Seq(StepSet) /\ Moves(p, Joined(o.lock, <<x>>), F, G)
    BY <2>8, <2>9, ConcatIs, MovesConcat
  <2>11. /\ Joined(Joined(o.lock, <<x>>), o.drop) \in Seq(StepSet)
         /\ Moves(p, Joined(Joined(o.lock, <<x>>), o.drop), F, F)
    BY <2>8, <2>9, <2>10, ConcatIs, MovesConcat
  <2> QED BY <2>6, <2>11
<1> QED BY <1>1, <1>2

\* So does a statement, with the receiver of its method around the access.
LEMMA CompileMoves ==
  ASSUME NEW p, NEW s \in Statements,
         s.ptr = Nil \/ s.ptr \in p["main"], s.under = Nil \/ s.under \in p["under"]
  PROVE  Compile(s) \in Seq(StepSet) /\ Moves(p, Compile(s), {}, {})
<1> DEFINE a == Accessing("main", s.ptr, s.access)
<1>0. /\ s.access \in Register!Accesses
      /\ s.ptr = Nil \/ (s.ptr \in p["main"] /\ s.ptr \in Pointers)
      /\ s.under = Nil \/ (s.under \in p["under"] /\ s.under \in Pointers)
  BY DEF Statements
<1>1. CASE s.under = Nil
  <2>1. NotMain({})
    BY DEF NotMain, OnlyMethods
  <2> QED BY <1>0, <1>1, <2>1, AccessingMoves DEF Compile
<1>2. CASE s.under # Nil
  <2> DEFINE n == Len(s.under.path)
             o == Guard("under", s.under)
             here == Hold("under", s.under, n)
  <2>1. n \in Nat /\ s.under \in p["under"] /\ s.under \in Pointers /\ "under" \in Slots
    BY <1>0, <1>2 DEF Pointers, Slots
  <2>2. Fits(p, "under", s.under, n, o)
    BY <2>1, GuardFits
  <2>3. NotMain({here}) /\ Free({}, "under", s.under, n)
    <3>1. here.slot = "under" /\ here.ptr = s.under /\ here.n = n /\ "under" # "main"
      BY DEF Hold
    <3>2. n = 0 => s.under.path = <<>>
      BY <2>1 DEF Pointers
    <3> HIDE DEF here
    <3> QED BY <2>1, <3>1, <3>2 DEF NotMain, OnlyMethods, Free
  <2>4. Compile(s) = Joined(Joined(o.lock, a), o.drop)
    <3>1. Compile(s) = o.lock \o a \o o.drop
      BY <1>2 DEF Compile
    <3> QED BY <3>1, Zenon DEF Joined
  <2>5. a \in Seq(StepSet) /\ Moves(p, a, {here}, {here})
    BY <1>0, <2>3, AccessingMoves
  <2> HIDE DEF a, o
  <2>6. /\ o.lock \in Seq(StepSet) /\ o.drop \in Seq(StepSet) /\ Moves(p, o.lock, {}, {here})
        /\ Moves(p, o.drop, {here}, {})
    <3>1. Moves(p, o.lock, {}, {} \cup {here}) /\ Moves(p, o.drop, {} \cup {here}, {})
      BY <2>2, <2>3 DEF Fits
    <3>2. {} \cup {here} = {here}
      OBVIOUS
    <3> QED BY <2>2, <3>1, <3>2 DEF Fits
  <2> HIDE DEF here
  <2>7. Joined(o.lock, a) \in Seq(StepSet) /\ Moves(p, Joined(o.lock, a), {}, {here})
    BY <2>5, <2>6, ConcatIs, MovesConcat
  <2>8. /\ Joined(Joined(o.lock, a), o.drop) \in Seq(StepSet)
        /\ Moves(p, Joined(Joined(o.lock, a), o.drop), {}, {})
    BY <2>6, <2>7, ConcatIs, MovesConcat
  <2> QED BY <2>4, <2>8
<1> QED BY <1>1, <1>2

-----------------------------------------------------------------------------
(* The invariant.                                                          *)

Field(slot) == IF slot = "main" THEN "ptr" ELSE "under"
Used(g) == [slot \in Slots |-> {program[g][i][Field(slot)] : i \in DOMAIN program[g]} \ {Nil}]

Guarded == [slot : Slots, n : Nat \ {0}, val : UNION {[R -> 0..MaxVal] : R \in SUBSET Leaves}]

TypeOK ==
  /\ program \in Programs
  /\ begun \in [Goroutines -> Nat]
  /\ steps \in [Goroutines -> Seq(StepSet)]
  /\ owner \in [Cells -> Goroutines \cup {Nil}]
  /\ mem \in [Leaves -> 0..MaxVal]
  /\ taken \in [Goroutines -> SUBSET Guarded]
  /\ seen \in [Goroutines -> [Leaves -> 0..MaxVal]]
  /\ raced \subseteq Leaves

\* F is made of levels of pointers that are used, of one pointer per slot.
Levels(p, F) ==
  /\ \A e \in F : /\ e = Hold(e.slot, e.ptr, e.n)
                  /\ e.slot \in Slots /\ e.ptr \in p[e.slot] /\ e.n \in 0..Len(e.ptr.path)
  /\ \A e, f \in F : e.slot = f.slot => e.ptr = f.ptr

\* The level 0 of F is the mutexes that g owns.
Owns(g, own, F) ==
  /\ \A c \in Cells : own[c] = g <=> \E e \in F : e.n = 0 /\ e.ptr.cell = c
  /\ \A e, f \in F : e.n = 0 /\ f.n = 0 /\ e.ptr.cell = f.ptr.cell => e = f

\* The other levels of F are the guards of T, each of its region.
Match(T, F) ==
  /\ T \subseteq Guarded
  /\ \A v \in T : \E e \in F : e.slot = v.slot /\ e.n = v.n /\ DOMAIN v.val = Region(e.ptr, e.n)
  /\ \A e \in F : e.n # 0 => \E v \in T : v.slot = e.slot /\ v.n = e.n
  /\ \A u, v \in T : u.slot = v.slot /\ u.n = v.n => u = v

\* What g holds, and what its steps do with it.
Holding(g, F) == Levels(Used(g), F) /\ Owns(g, owner, F) /\ Match(taken[g], F)
GoesOn(g) == \E F : Holding(g, F) /\ Moves(Used(g), steps[g], F, {})

\* What is out and has not been raced for is out once, for one goroutine and
\* slot; what has been raced for is shared.
OutOnce ==
  \A l \in Leaves \ raced : \A g, h \in Goroutines : \A u \in taken[g], v \in taken[h] :
    l \in DOMAIN u.val /\ l \in DOMAIN v.val => g = h /\ u.slot = v.slot

IInv == TypeOK /\ (\A g \in Goroutines : GoesOn(g)) /\ OutOnce /\ RacedWhereShared

-----------------------------------------------------------------------------
(* Guards that are set, added and dropped.                                 *)

Kept(v, slot, n, val) ==
  IF v.slot = slot /\ v.n = n
  THEN [v EXCEPT !.val = [l \in DOMAIN @ |-> IF l \in DOMAIN val THEN val[l] ELSE @[l]]]
  ELSE v

KeptAll(T, slot, n, val) == {Kept(v, slot, n, val) : v \in T}

\* A guard that is set keeps its place and the other leaves it has.
LEMMA KeptIs ==
  ASSUME NEW v \in Guarded, NEW slot, NEW n, NEW val, \A l \in DOMAIN val : val[l] \in 0..MaxVal
  PROVE  /\ Kept(v, slot, n, val) \in Guarded
         /\ Kept(v, slot, n, val).slot = v.slot /\ Kept(v, slot, n, val).n = v.n
         /\ DOMAIN Kept(v, slot, n, val).val = DOMAIN v.val
         /\ \A l \in DOMAIN v.val : Kept(v, slot, n, val).val[l] =
              IF v.slot = slot /\ v.n = n /\ l \in DOMAIN val THEN val[l] ELSE v.val[l]
<1>1. CASE v.slot = slot /\ v.n = n
  <2> DEFINE new == [l \in DOMAIN v.val |-> IF l \in DOMAIN val THEN val[l] ELSE v.val[l]]
             w == Kept(v, slot, n, val)
  <2>1. PICK R \in SUBSET Leaves : v.val \in [R -> 0..MaxVal]
    BY DEF Guarded
  <2>2. new \in [R -> 0..MaxVal] /\ DOMAIN new = DOMAIN v.val
    BY <2>1
  <2>3. \A l \in DOMAIN v.val : new[l] = IF l \in DOMAIN val THEN val[l] ELSE v.val[l]
    OBVIOUS
  <2>4. w = [v EXCEPT !.val = new]
    BY <1>1, Zenon DEF Kept
  <2> HIDE DEF new, w
  <2>5. v \in [slot : Slots, n : Nat \ {0}, val : UNION {[Q -> 0..MaxVal] : Q \in SUBSET Leaves}]
    BY DEF Guarded
  <2>6. new \in UNION {[Q -> 0..MaxVal] : Q \in SUBSET Leaves}
    BY <2>1, <2>2
  <2>7. w \in Guarded /\ w.slot = v.slot /\ w.n = v.n /\ w.val = new
    <3> DEFINE V == UNION {[Q -> 0..MaxVal] : Q \in SUBSET Leaves}
    <3>1. new \in V /\ v \in [slot : Slots, n : Nat \ {0}, val : V]
      BY <2>5, <2>6
    <3> HIDE DEF V
    <3>2. w \in [slot : Slots, n : Nat \ {0}, val : V] /\ w.slot = v.slot /\ w.n = v.n /\ w.val = new
      BY <2>4, <3>1
    <3> QED BY <3>2 DEF Guarded, V
  <2> QED BY <1>1, <2>2, <2>3, <2>7 DEF w
<1>2. CASE ~(v.slot = slot /\ v.n = n)
  <2>1. Kept(v, slot, n, val) = v
    BY <1>2, Zenon DEF Kept
  <2> QED BY <1>2, <2>1
<1> QED BY <1>1, <1>2

\* Setting the values of guards changes nothing about who holds what.
LEMMA MatchKept ==
  ASSUME NEW T, NEW F, Match(T, F), NEW slot, NEW n, NEW val, \A l \in DOMAIN val : val[l] \in 0..MaxVal
  PROVE  Match(KeptAll(T, slot, n, val), F)
<1> DEFINE k(v) == Kept(v, slot, n, val)
           K == KeptAll(T, slot, n, val)
<1>1. T \subseteq Guarded
  BY DEF Match
<1>2. \A v \in T : /\ k(v) \in Guarded /\ k(v).slot = v.slot /\ k(v).n = v.n
                   /\ DOMAIN k(v).val = DOMAIN v.val
  BY <1>1, KeptIs
<1>3. \A w : w \in K <=> \E v \in T : w = k(v)
  BY DEF KeptAll
<1> HIDE DEF k, K
<1>4. K \subseteq Guarded
  BY <1>2, <1>3
<1>5. ASSUME NEW w \in K
      PROVE  \E e \in F : e.slot = w.slot /\ e.n = w.n /\ DOMAIN w.val = Region(e.ptr, e.n)
  BY <1>2, <1>3 DEF Match
<1>6. ASSUME NEW e \in F, e.n # 0 PROVE \E w \in K : w.slot = e.slot /\ w.n = e.n
  BY <1>2, <1>3, <1>6 DEF Match
<1>7. ASSUME NEW u \in K, NEW w \in K, u.slot = w.slot, u.n = w.n PROVE u = w
  BY <1>2, <1>3, <1>7 DEF Match
<1>8. Match(K, F)
  BY <1>4, <1>5, <1>6, <1>7 DEF Match
<1> QED BY <1>8 DEF K

\* A new guard is one more level held.
LEMMA MatchAdd ==
  ASSUME NEW T, NEW F, Match(T, F), NEW p, NEW slot, NEW ptr, NEW n, n # 0,
         Levels(p, F), Hold(slot, ptr, n) \notin F, \A e \in F : e.slot = slot => e.ptr = ptr,
         NEW v \in Guarded, v.slot = slot, v.n = n, DOMAIN v.val = Region(ptr, n)
  PROVE  Match(T \cup {v}, F \cup {Hold(slot, ptr, n)})
<1> DEFINE here == Hold(slot, ptr, n)
<1>1. here.slot = slot /\ here.ptr = ptr /\ here.n = n
  BY DEF Hold
<1>2. \A e \in F : ~(e.slot = slot /\ e.n = n)
  <2> SUFFICES ASSUME NEW e \in F, e.slot = slot, e.n = n PROVE FALSE
    OBVIOUS
  <2>1. e = Hold(e.slot, e.ptr, e.n)
    BY DEF Levels
  <2> QED BY <2>1
<1> HIDE DEF here
<1>3. \A u \in T : ~(u.slot = slot /\ u.n = n)
  BY <1>2 DEF Match
<1>4. Match(T \cup {v}, F \cup {here})
  BY <1>1, <1>3 DEF Match
<1> QED BY <1>4 DEF here

\* A guard that is dropped is one level less.
LEMMA MatchDrop ==
  ASSUME NEW T, NEW F, Match(T, F), NEW p, NEW slot, NEW ptr, NEW n,
         Levels(p, F), Hold(slot, ptr, n) \in F, NEW v \in T, v.slot = slot, v.n = n
  PROVE  Match(T \ {v}, F \ {Hold(slot, ptr, n)})
<1> DEFINE here == Hold(slot, ptr, n)
<1>1. here.slot = slot /\ here.ptr = ptr /\ here.n = n
  BY DEF Hold
<1>2. \A e \in F : e.slot = slot /\ e.n = n => e = here
  <2> SUFFICES ASSUME NEW e \in F, e.slot = slot, e.n = n PROVE e = here
    OBVIOUS
  <2>1. e = Hold(e.slot, e.ptr, e.n) /\ e.ptr = ptr
    BY <1>1 DEF Levels
  <2> QED BY <2>1
<1> HIDE DEF here
<1>3. Match(T \ {v}, F \ {here})
  <2>1. ASSUME NEW u \in T \ {v}
        PROVE \E e \in F \ {here} : e.slot = u.slot /\ e.n = u.n /\ DOMAIN u.val = Region(e.ptr, e.n)
    <3>1. PICK e \in F : e.slot = u.slot /\ e.n = u.n /\ DOMAIN u.val = Region(e.ptr, e.n)
      BY DEF Match
    <3>2. e # here
      BY <1>1, <3>1 DEF Match
    <3> QED BY <3>1, <3>2
  <2>2. ASSUME NEW e \in F \ {here}, e.n # 0 PROVE \E u \in T \ {v} : u.slot = e.slot /\ u.n = e.n
    <3>1. PICK u \in T : u.slot = e.slot /\ u.n = e.n
      BY <2>2 DEF Match
    <3>2. u # v
      BY <1>2, <3>1
    <3> QED BY <3>1, <3>2
  <2> QED BY <2>1, <2>2 DEF Match
<1> QED BY <1>3 DEF here

\* Locking the mutex of a cell changes no guard.
LEMMA MatchLock ==
  ASSUME NEW T, NEW F, Match(T, F), NEW e, e.n = 0
  PROVE  Match(T, F \cup {e}) /\ Match(T, F \ {e})
<1>1. \A v \in T : v.n # 0
  BY DEF Match, Guarded
<1> QED BY <1>1 DEF Match

\* What is held, after a level was added or dropped.
LEMMA LevelsChange ==
  ASSUME NEW p, NEW F, Levels(p, F), NEW x, IsStep(p, x), \A e \in F : e.slot = x.slot => e.ptr = x.ptr,
         NEW G, G \subseteq F \/ G = F \cup {Hold(x.slot, x.ptr, x.n)}
  PROVE  Levels(p, G)
<1> DEFINE here == Hold(x.slot, x.ptr, x.n)
<1>1. here.slot = x.slot /\ here.ptr = x.ptr /\ here.n = x.n /\ here = Hold(here.slot, here.ptr, here.n)
  BY DEF Hold
<1>2. x.slot \in Slots /\ x.ptr \in p[x.slot] /\ x.n \in 0..Len(x.ptr.path)
  BY DEF IsStep
<1> HIDE DEF here
<1>3. CASE G \subseteq F
  BY <1>3 DEF Levels
<1>4. CASE G = F \cup {here}
  BY <1>1, <1>2, <1>4 DEF Levels
<1> QED BY <1>3, <1>4 DEF here

-----------------------------------------------------------------------------
(* What is known of a pointer that is used, and of a guard that is held.   *)

\* The pointers that programs use are pointers, and nested.
LEMMA UsedIs ==
  ASSUME TypeOK, NEW g \in Goroutines, NEW slot \in Slots, NEW ptr \in Used(g)[slot]
  PROVE  ptr \in Pointers /\ Nested(ptr) /\ \E i \in DOMAIN program[g] : ptr = program[g][i][Field(slot)]
<1>1. ptr # Nil /\ \E i \in DOMAIN program[g] : ptr = program[g][i][Field(slot)]
  BY DEF Used
<1>2. PICK i \in DOMAIN program[g] : ptr = program[g][i][Field(slot)]
  BY <1>1
<1>3. program[g] \in Seq(Statements) /\ program \in Programs
  BY ProgramsAssumption DEF TypeOK
<1>4. program[g][i] \in Statements
  BY <1>2, <1>3
<1>5. ptr \in {program[g][i].ptr, program[g][i].under} \ {Nil}
  BY <1>1, <1>2 DEF Field
<1>6. ptr \in Pointers
  BY <1>4, <1>5 DEF Statements
<1>7. Nested(ptr)
  BY <1>2, <1>3, <1>5, ProgramsAssumption
<1> QED BY <1>1, <1>6, <1>7

\* A region is a part of the cell, and of the region above it.
LEMMA RegionIs ==
  ASSUME TypeOK, NEW g \in Goroutines, NEW slot \in Slots, NEW ptr \in Used(g)[slot],
         NEW n \in 0..Len(ptr.path)
  PROVE  /\ Region(ptr, n) \subseteq Leaves /\ Region(ptr, n) # {}
         /\ n # 0 => Region(ptr, n) \subseteq Region(ptr, n - 1)
<1>1. ptr \in Pointers /\ Nested(ptr)
  BY UsedIs
<1>2. Region(ptr, n) \subseteq Leaves
  <2>1. CASE n = 0
    BY <1>1, <2>1 DEF Pointers, Region, Leaves
  <2>2. CASE n # 0
    <3>1. ptr.path \in Seq(SUBSET Leaves) /\ n \in 1..Len(ptr.path)
      BY <1>1, <2>2 DEF Pointers
    <3>2. ptr.path[n] \in SUBSET Leaves
      BY <3>1
    <3> QED BY <2>2, <3>2 DEF Region
  <2> QED BY <2>1, <2>2
<1> QED BY <1>1, <1>2 DEF Nested

\* Where a step reaches, the pointer's outermost projection does.
LEMMA RegionReached ==
  ASSUME TypeOK, NEW g \in Goroutines, NEW slot \in Slots, NEW ptr \in Used(g)[slot],
         NEW n \in 0..Len(ptr.path), n # 0 \/ n = Len(ptr.path)
  PROVE  Region(ptr, n) \subseteq Reaches(g, Field(slot))
<1>0. ptr \in Pointers /\ Len(ptr.path) \in Nat
  BY UsedIs DEF Pointers
<1>1. Outer(ptr) \subseteq Reaches(g, Field(slot))
  <2>1. PICK i \in DOMAIN program[g] : ptr = program[g][i][Field(slot)]
    BY UsedIs
  <2> QED BY <2>1 DEF Reaches
<1>2. ptr # Nil
  BY <1>0, PointerAssumption
<1>3. CASE n = 0
  <2>1. ptr.path = <<>>
    BY <1>0, <1>3 DEF Pointers
  <2> QED BY <1>1, <1>2, <1>3, <2>1 DEF Outer, Region
<1>4. CASE n # 0
  <2> DEFINE T == {j \in 1..Len(ptr.path) : ~(Region(ptr, j) \subseteq ptr.path[1])}
  <2>1. T = {}
    <3> SUFFICES ASSUME T # {} PROVE FALSE
      OBVIOUS
    <3>1. PICK m \in T : \A j \in T : m <= j
      <4>1. T \in SUBSET Nat
        OBVIOUS
      <4> HIDE DEF T
      <4> QED BY <4>1, LeastOfNat
    <3>2. m # 1
      BY DEF Region
    <3>3. m - 1 \in 1..Len(ptr.path) /\ ~(m <= m - 1) /\ m \in 0..Len(ptr.path)
      BY <1>0, <3>2
    <3>4. Region(ptr, m - 1) \subseteq ptr.path[1]
      BY <3>1, <3>3
    <3>5. Region(ptr, m) \subseteq Region(ptr, m - 1)
      BY <3>3, RegionIs
    <3> QED BY <3>4, <3>5
  <2>2. n \in 1..Len(ptr.path) /\ ptr.path # <<>>
    BY <1>0, <1>4
  <2>3. Region(ptr, n) \subseteq ptr.path[1]
    BY <2>1, <2>2
  <2> QED BY <1>1, <1>2, <2>2, <2>3 DEF Outer
<1> QED BY <1>3, <1>4

\* The guard of a level that is held.
LEMMA GuardAtIs ==
  ASSUME TypeOK, NEW g \in Goroutines, NEW F, Holding(g, F), NEW slot, NEW ptr, NEW n,
         Hold(slot, ptr, n) \in F, n # 0
  PROVE  /\ GuardAt(g, slot, n) \in taken[g] /\ GuardAt(g, slot, n) \in Guarded
         /\ GuardAt(g, slot, n).slot = slot /\ GuardAt(g, slot, n).n = n
         /\ DOMAIN GuardAt(g, slot, n).val = Region(ptr, n)
         /\ \A v \in taken[g] : v.slot = slot /\ v.n = n => v = GuardAt(g, slot, n)
         /\ \A l \in Region(ptr, n) : GuardAt(g, slot, n).val[l] \in 0..MaxVal
<1> DEFINE here == Hold(slot, ptr, n)
           w == GuardAt(g, slot, n)
<1>1. here.slot = slot /\ here.ptr = ptr /\ here.n = n
  BY DEF Hold
<1>2. Match(taken[g], F) /\ Levels(Used(g), F)
  BY DEF Holding
<1> HIDE DEF here
<1>3. \E v \in taken[g] : v.slot = slot /\ v.n = n
  BY <1>1, <1>2 DEF Match, here
<1>4. w \in taken[g] /\ w.slot = slot /\ w.n = n
  BY <1>3 DEF GuardAt
<1> HIDE DEF w
<1>5. w \in Guarded
  BY <1>2, <1>4 DEF Match
<1>6. DOMAIN w.val = Region(ptr, n)
  <2>1. PICK e \in F : e.slot = w.slot /\ e.n = w.n /\ DOMAIN w.val = Region(e.ptr, e.n)
    BY <1>2, <1>4 DEF Match
  <2>2. e.ptr = ptr
    BY <1>1, <1>2, <1>4, <2>1 DEF Levels, here
  <2> QED BY <1>4, <2>1, <2>2
<1>7. \A v \in taken[g] : v.slot = slot /\ v.n = n => v = w
  BY <1>2, <1>4 DEF Match
<1>8. \A l \in DOMAIN w.val : w.val[l] \in 0..MaxVal
  BY <1>5 DEF Guarded
<1> QED BY <1>4, <1>5, <1>6, <1>7, <1>8 DEF w

\* What an access or a transfer finds is a value.
LEMMA FoundIs ==
  ASSUME TypeOK, NEW g \in Goroutines, NEW F, Holding(g, F), NEW slot, NEW ptr, NEW n,
         Hold(slot, ptr, n) \in F, NEW l \in Region(ptr, n), l \in Leaves
  PROVE  Found(g, slot, n, l) \in 0..MaxVal
<1>1. CASE n = 0
  BY <1>1 DEF Found, TypeOK
<1>2. CASE n # 0
  BY <1>2, GuardAtIs DEF Found
<1> QED BY <1>1, <1>2

-----------------------------------------------------------------------------
(* A step, for the goroutine that takes it and for the others.             *)

\* The next step of a goroutine is a legal one.
LEMMA NextStep ==
  ASSUME TypeOK, NEW g \in Goroutines, GoesOn(g), steps[g] # <<>>
  PROVE  /\ Tail(steps[g]) \in Seq(StepSet) /\ Head(steps[g]) \in StepSet
         /\ \E F, G : /\ Holding(g, F) /\ Legal(Used(g), Head(steps[g]), F, G)
                      /\ Moves(Used(g), Tail(steps[g]), G, {})
<1>1. steps[g] \in Seq(StepSet)
  BY DEF TypeOK
<1>2. PICK F : Holding(g, F) /\ Moves(Used(g), steps[g], F, {})
  BY DEF GoesOn
<1>3. \E G : Legal(Used(g), Head(steps[g]), F, G) /\ Moves(Used(g), Tail(steps[g]), G, {})
  BY <1>1, <1>2, MovesTail
<1> QED BY <1>1, <1>2, <1>3, TailIs

\* A goroutine whose own part of the state is left alone goes on.
LEMMA GoesOnElse ==
  ASSUME NEW h \in Goroutines, GoesOn(h), program' = program, steps'[h] = steps[h], taken'[h] = taken[h],
         \A c \in Cells : owner'[c] = h <=> owner[c] = h
  PROVE  GoesOn(h)'
<1>1. PICK F : Holding(h, F) /\ Moves(Used(h), steps[h], F, {})
  BY DEF GoesOn
<1>2. Used(h)' = Used(h)
  BY DEF Used
<1>3. Owns(h, owner', F)
  BY <1>1 DEF Holding, Owns
<1>4. Holding(h, F)' /\ Moves(Used(h)', steps'[h], F, {})
  BY <1>1, <1>2, <1>3 DEF Holding
<1> QED BY <1>4 DEF GoesOn

\* A goroutine goes on when what it holds now is what its steps need.
LEMMA GoesOnHere ==
  ASSUME NEW g \in Goroutines, program' = program, NEW G, Levels(Used(g), G), Owns(g, owner', G),
         Match(taken'[g], G), Moves(Used(g), steps'[g], G, {})
  PROVE  GoesOn(g)'
<1>1. Used(g)' = Used(g)
  BY DEF Used
<1>2. Holding(g, G)' /\ Moves(Used(g)', steps'[g], G, {})
  BY <1>1 DEF Holding
<1> QED BY <1>2 DEF GoesOn

-----------------------------------------------------------------------------
(* Each action keeps the types and what the goroutines hold.               *)

\* A legal step that is no panic moves between two sets of levels.
LEMMA LegalHere ==
  ASSUME NEW p, NEW x, NEW F, NEW G, Legal(p, x, F, G), x.do \in Kinds
  PROVE  IsStep(p, x) /\ OnePointer(x, F) /\ Moved(x, F, G)
<1>1. x # [do |-> "nil_panic"]
  <2>1. "nil_panic" \notin Kinds
    BY DEF Kinds, Register!Accesses
  <2> QED BY <2>1
<1> QED BY <1>1 DEF Legal

\* A statement begins with nothing held.
LEMMA BeginGoesOn ==
  ASSUME TypeOK, \A h \in Goroutines : GoesOn(h), NEW g \in Goroutines, Begin(g)
  PROVE  TypeOK' /\ \A h \in Goroutines : GoesOn(h)'
<1> DEFINE k == begun[g] + 1
           s == program[g][k]
<1>1. /\ steps[g] = <<>> /\ begun[g] < Len(program[g])
      /\ begun' = [begun EXCEPT ![g] = @ + 1]
      /\ steps' = [steps EXCEPT ![g] = Compile(program[g][begun'[g]])]
      /\ UNCHANGED <<program, owner, mem, taken, seen, raced>>
  BY DEF Begin
<1>2. /\ program \in Programs /\ program[g] \in Seq(Statements)
      /\ begun \in [Goroutines -> Nat] /\ steps \in [Goroutines -> Seq(StepSet)]
  BY ProgramsAssumption DEF TypeOK
<1>3. k \in 1..Len(program[g]) /\ begun'[g] = k /\ begun' \in [Goroutines -> Nat]
  BY <1>1, <1>2
<1>4. s \in Statements /\ k \in DOMAIN program[g]
  BY <1>2, <1>3
<1> HIDE DEF k
<1>5. (s.ptr = Nil \/ s.ptr \in Used(g)["main"]) /\ (s.under = Nil \/ s.under \in Used(g)["under"])
  <2>1. "main" \in Slots /\ "under" \in Slots /\ Field("main") = "ptr" /\ Field("under") = "under"
    BY DEF Slots, Field
  <2>2. program[g][k]["ptr"] = s.ptr /\ program[g][k]["under"] = s.under
    OBVIOUS
  <2>3. /\ Used(g)["main"] = {program[g][i]["ptr"] : i \in DOMAIN program[g]} \ {Nil}
        /\ Used(g)["under"] = {program[g][i]["under"] : i \in DOMAIN program[g]} \ {Nil}
    BY <2>1 DEF Used
  <2> QED BY <1>4, <2>2, <2>3
<1>6. Compile(s) \in Seq(StepSet) /\ Moves(Used(g), Compile(s), {}, {})
  BY <1>4, <1>5, CompileMoves
<1>7. /\ steps'[g] = Compile(s) /\ steps' \in [Goroutines -> Seq(StepSet)]
      /\ \A h \in Goroutines \ {g} : steps'[h] = steps[h]
  BY <1>1, <1>2, <1>3, <1>6
<1>8. TypeOK'
  BY <1>1, <1>3, <1>7 DEF TypeOK
<1>9. GoesOn(g)'
  <2>1. PICK F : Holding(g, F) /\ Moves(Used(g), steps[g], F, {})
    BY DEF GoesOn
  <2>2. F = {}
    BY <1>1, <2>1, MovesNone
  <2> QED BY <1>1, <1>6, <1>7, <2>1, <2>2, GoesOnHere DEF Holding
<1>10. \A h \in Goroutines \ {g} : GoesOn(h)'
  BY <1>1, <1>7, GoesOnElse
<1> QED BY <1>8, <1>9, <1>10

\* A panic drops what is held: the rest of the statement stays.
LEMMA PanicGoesOn ==
  ASSUME TypeOK, \A h \in Goroutines : GoesOn(h), NEW g \in Goroutines, Panic(g)
  PROVE  TypeOK' /\ \A h \in Goroutines : GoesOn(h)'
<1> DEFINE x == Head(steps[g])
<1>1. /\ steps[g] # <<>> /\ x.do \in {"nil_panic", "add"}
      /\ begun' = [begun EXCEPT ![g] = Len(program[g])]
      /\ steps' = [steps EXCEPT ![g] = Tail(@)]
      /\ UNCHANGED <<program, owner, mem, taken, seen, raced>>
  BY DEF Panic, Faults, At
<1>2. PICK F, G : /\ Holding(g, F) /\ Legal(Used(g), x, F, G)
                  /\ Moves(Used(g), Tail(steps[g]), G, {}) /\ Tail(steps[g]) \in Seq(StepSet)
  BY <1>1, NextStep
<1>3. G = F
  <2>1. "add" \in Register!Accesses
    BY DEF Register!Accesses
  <2> HIDE DEF x
  <2>2. CASE x = [do |-> "nil_panic"] /\ G = F
    BY <2>2
  <2>3. CASE Moved(x, F, G)
    BY <1>1, <2>3 DEF Moved
  <2> QED BY <1>2, <2>2, <2>3 DEF Legal
<1>4. /\ steps'[g] = Tail(steps[g]) /\ steps' \in [Goroutines -> Seq(StepSet)]
      /\ \A h \in Goroutines \ {g} : steps'[h] = steps[h]
  BY <1>1, <1>2 DEF TypeOK
<1>5. begun' \in [Goroutines -> Nat]
  <2>1. program \in Programs /\ program[g] \in Seq(Statements)
    BY ProgramsAssumption DEF TypeOK
  <2>2. Len(program[g]) \in Nat
    BY <2>1
  <2> QED BY <1>1, <2>2 DEF TypeOK
<1>6. TypeOK'
  BY <1>1, <1>4, <1>5 DEF TypeOK
<1>7. GoesOn(g)'
  BY <1>1, <1>2, <1>3, <1>4, GoesOnHere DEF Holding
<1>8. \A h \in Goroutines \ {g} : GoesOn(h)'
  BY <1>1, <1>4, GoesOnElse
<1> QED BY <1>6, <1>7, <1>8

\* Going past a step.
LEMMA PastIs ==
  ASSUME TypeOK, \A h \in Goroutines : GoesOn(h), NEW g \in Goroutines, NEW do \in Kinds, At(g, do), Past(g)
  PROVE  /\ steps'[g] = Tail(steps[g]) /\ steps' \in [Goroutines -> Seq(StepSet)]
         /\ \A h \in Goroutines \ {g} : steps'[h] = steps[h]
         /\ program' = program /\ begun' = begun
         /\ Head(steps[g]).do = do
         /\ \E F, G : /\ Holding(g, F) /\ IsStep(Used(g), Head(steps[g])) /\ OnePointer(Head(steps[g]), F)
                      /\ Moved(Head(steps[g]), F, G)
                      /\ Moves(Used(g), Tail(steps[g]), G, {})
<1>1. steps[g] # <<>> /\ Head(steps[g]).do = do /\ steps' = [steps EXCEPT ![g] = Tail(@)]
      /\ program' = program /\ begun' = begun
  BY DEF At, Past
<1>2. PICK F, G : /\ Holding(g, F) /\ Legal(Used(g), Head(steps[g]), F, G)
                  /\ Moves(Used(g), Tail(steps[g]), G, {}) /\ Tail(steps[g]) \in Seq(StepSet)
  BY <1>1, NextStep
<1>3. IsStep(Used(g), Head(steps[g])) /\ OnePointer(Head(steps[g]), F) /\ Moved(Head(steps[g]), F, G)
  BY <1>1, <1>2, LegalHere
<1>4. /\ steps'[g] = Tail(steps[g]) /\ steps' \in [Goroutines -> Seq(StepSet)]
      /\ \A h \in Goroutines \ {g} : steps'[h] = steps[h]
  BY <1>1, <1>2 DEF TypeOK
<1> QED BY <1>1, <1>2, <1>3, <1>4

\* A mutex is locked.
LEMMA AcquireGoesOn ==
  ASSUME TypeOK, \A h \in Goroutines : GoesOn(h), NEW g \in Goroutines, Acquire(g)
  PROVE  TypeOK' /\ \A h \in Goroutines : GoesOn(h)'
<1> DEFINE x == Head(steps[g])
           here == Hold(x.slot, x.ptr, x.n)
           c == x.ptr.cell
<1>0. "acquire" \in Kinds
  BY DEF Kinds
<1>1. /\ At(g, "acquire") /\ Past(g) /\ owner[c] = Nil /\ owner' = [owner EXCEPT ![c] = g]
      /\ UNCHANGED <<mem, taken, seen, raced>>
  BY DEF Acquire
<1>2. /\ steps'[g] = Tail(steps[g]) /\ steps' \in [Goroutines -> Seq(StepSet)]
      /\ \A h \in Goroutines \ {g} : steps'[h] = steps[h]
      /\ program' = program /\ begun' = begun /\ x.do = "acquire"
  BY <1>0, <1>1, PastIs
<1>3. PICK F, G : /\ Holding(g, F) /\ IsStep(Used(g), x) /\ OnePointer(x, F) /\ Moved(x, F, G)
                  /\ Moves(Used(g), Tail(steps[g]), G, {})
  BY <1>0, <1>1, PastIs
<1>4. x.n = 0 /\ OnlyMethods(F) /\ G = F \cup {here}
  BY <1>2, <1>3 DEF Moved, Register!Accesses
<1>5. c \in Cells
  <2>1. x.ptr \in Pointers
    BY <1>3, UsedIs DEF IsStep
  <2> QED BY <2>1 DEF Pointers
<1>6. /\ owner' \in [Cells -> Goroutines \cup {Nil}] /\ owner'[c] = g
      /\ \A d \in Cells \ {c} : owner'[d] = owner[d]
      /\ \A h \in Goroutines : h # Nil
  BY <1>1, <1>5, PointerAssumption DEF TypeOK
<1>7. TypeOK'
  BY <1>1, <1>2, <1>6 DEF TypeOK
<1>8. here.n = 0 /\ here.ptr.cell = c
  BY <1>4 DEF Hold
<1> HIDE DEF c, here
<1>9. Owns(g, owner', G)
  <2>1. Owns(g, owner, F)
    BY <1>3 DEF Holding
  <2>2. \A e \in F : ~(e.n = 0 /\ e.ptr.cell = c)
    BY <1>1, <1>5, <1>6, <2>1 DEF Owns
  <2> QED BY <1>4, <1>5, <1>6, <1>8, <2>1, <2>2 DEF Owns
<1>10. Levels(Used(g), G)
  BY <1>3, <1>4, LevelsChange DEF Holding, OnePointer, here
<1>11. Match(taken'[g], G)
  BY <1>1, <1>3, <1>4, <1>8, MatchLock DEF Holding
<1>12. GoesOn(g)'
  BY <1>2, <1>3, <1>9, <1>10, <1>11, GoesOnHere
<1>13. \A h \in Goroutines \ {g} : GoesOn(h)'
  <2> SUFFICES ASSUME NEW h \in Goroutines \ {g} PROVE GoesOn(h)'
    OBVIOUS
  <2>1. \A d \in Cells : owner'[d] = h <=> owner[d] = h
    BY <1>1, <1>5, <1>6
  <2> QED BY <1>1, <1>2, <2>1, GoesOnElse
<1> QED BY <1>7, <1>12, <1>13

\* A mutex is unlocked.
LEMMA ReleaseGoesOn ==
  ASSUME TypeOK, \A h \in Goroutines : GoesOn(h), NEW g \in Goroutines, Release(g)
  PROVE  TypeOK' /\ \A h \in Goroutines : GoesOn(h)'
<1> DEFINE x == Head(steps[g])
           here == Hold(x.slot, x.ptr, x.n)
           c == x.ptr.cell
<1>0. "release" \in Kinds
  BY DEF Kinds
<1>1. /\ At(g, "release") /\ Past(g) /\ owner' = [owner EXCEPT ![c] = Nil]
      /\ UNCHANGED <<mem, taken, seen, raced>>
  BY DEF Release
<1>2. /\ steps'[g] = Tail(steps[g]) /\ steps' \in [Goroutines -> Seq(StepSet)]
      /\ \A h \in Goroutines \ {g} : steps'[h] = steps[h]
      /\ program' = program /\ begun' = begun /\ x.do = "release"
  BY <1>0, <1>1, PastIs
<1>3. PICK F, G : /\ Holding(g, F) /\ IsStep(Used(g), x) /\ OnePointer(x, F) /\ Moved(x, F, G)
                  /\ Moves(Used(g), Tail(steps[g]), G, {})
  BY <1>0, <1>1, PastIs
<1>4. x.n = 0 /\ here \in F /\ G = F \ {here}
  BY <1>2, <1>3 DEF Moved, Register!Accesses
<1>5. c \in Cells
  <2>1. x.ptr \in Pointers
    BY <1>3, UsedIs DEF IsStep
  <2> QED BY <2>1 DEF Pointers
<1>6. /\ owner' \in [Cells -> Goroutines \cup {Nil}] /\ owner'[c] = Nil
      /\ \A d \in Cells \ {c} : owner'[d] = owner[d]
      /\ \A h \in Goroutines : h # Nil
  BY <1>1, <1>5, PointerAssumption DEF TypeOK
<1>7. TypeOK'
  BY <1>1, <1>2, <1>6 DEF TypeOK
<1>8. here.n = 0 /\ here.ptr.cell = c
  BY <1>4 DEF Hold
<1> HIDE DEF c, here
<1>9. Owns(g, owner', G) /\ owner[c] = g
  <2>1. Owns(g, owner, F)
    BY <1>3 DEF Holding
  <2>2. owner[c] = g /\ \A e \in F : e.n = 0 /\ e.ptr.cell = c => e = here
    BY <1>4, <1>5, <1>8, <2>1 DEF Owns
  <2>3. ASSUME NEW d \in Cells PROVE owner'[d] = g <=> \E e \in G : e.n = 0 /\ e.ptr.cell = d
    <3>1. CASE d = c
      BY <1>4, <1>6, <2>2, <3>1
    <3>2. CASE d # c
      BY <1>4, <1>6, <1>8, <2>1, <3>2 DEF Owns
    <3> QED BY <3>1, <3>2
  <2> QED BY <1>4, <2>1, <2>2, <2>3 DEF Owns
<1>10. Levels(Used(g), G)
  BY <1>3, <1>4, LevelsChange DEF Holding, OnePointer
<1>11. Match(taken'[g], G)
  BY <1>1, <1>3, <1>4, <1>8, MatchLock DEF Holding
<1>12. GoesOn(g)'
  BY <1>2, <1>3, <1>9, <1>10, <1>11, GoesOnHere
<1>13. \A h \in Goroutines \ {g} : GoesOn(h)'
  <2> SUFFICES ASSUME NEW h \in Goroutines \ {g} PROVE GoesOn(h)'
    OBVIOUS
  <2>1. \A d \in Cells : owner'[d] = h <=> owner[d] = h
    BY <1>5, <1>6, <1>9
  <2> QED BY <1>1, <1>2, <2>1, GoesOnElse
<1> QED BY <1>7, <1>12, <1>13

\* The guards of one goroutine change, and memory.
LEMMA MovedGoesOn ==
  ASSUME TypeOK, \A h \in Goroutines : GoesOn(h), NEW g \in Goroutines, NEW x, NEW F, NEW G, NEW T,
         Holding(g, F), IsStep(Used(g), x), OnePointer(x, F),
         G \subseteq F \/ G = F \cup {Hold(x.slot, x.ptr, x.n)},
         \A e : e.n = 0 => (e \in F <=> e \in G),
         Moves(Used(g), steps'[g], G, {}), steps' \in [Goroutines -> Seq(StepSet)],
         \A h \in Goroutines \ {g} : steps'[h] = steps[h],
         program' = program, begun' = begun, owner' = owner,
         taken' = [taken EXCEPT ![g] = T], Match(T, G),
         mem' \in [Leaves -> 0..MaxVal], seen' \in [Goroutines -> [Leaves -> 0..MaxVal]],
         raced' \subseteq Leaves
  PROVE  TypeOK' /\ \A h \in Goroutines : GoesOn(h)'
<1>1. T \subseteq Guarded
  BY DEF Match
<1>2. /\ taken' \in [Goroutines -> SUBSET Guarded] /\ taken'[g] = T
      /\ \A h \in Goroutines \ {g} : taken'[h] = taken[h]
  BY <1>1 DEF TypeOK
<1>3. TypeOK'
  BY <1>2 DEF TypeOK
<1>4. Levels(Used(g), G)
  BY LevelsChange DEF Holding, OnePointer
<1>5. Owns(g, owner', G)
  <2>1. Owns(g, owner, F)
    BY DEF Holding
  <2> QED BY <2>1 DEF Owns
<1>6. GoesOn(g)'
  BY <1>2, <1>4, <1>5, GoesOnHere
<1>7. \A h \in Goroutines \ {g} : GoesOn(h)'
  BY <1>2, GoesOnElse
<1> QED BY <1>3, <1>6, <1>7

\* The cells after values moved into them.
LEMMA SetMemIs ==
  ASSUME TypeOK, NEW val, \A l \in DOMAIN val : val[l] \in 0..MaxVal
  PROVE  /\ SetMem(val) \in [Leaves -> 0..MaxVal]
         /\ \A l \in Leaves : SetMem(val)[l] = IF l \in DOMAIN val THEN val[l] ELSE mem[l]
  BY DEF SetMem, TypeOK

\* SetGuards sets the guards of one goroutine.
LEMMA SetGuardsIs ==
  ASSUME NEW g, NEW slot, NEW n, NEW val
  PROVE  SetGuards(g, slot, n, val) = KeptAll(taken[g], slot, n, val)
  BY Zenon DEF SetGuards, KeptAll, Kept

\* No guard is at level 0.
LEMMA KeptAllZero ==
  ASSUME NEW T \in SUBSET Guarded, NEW slot, NEW val
  PROVE  KeptAll(T, slot, 0, val) = T
<1>1. ASSUME NEW v \in T PROVE Kept(v, slot, 0, val) = v
  <2>1. v.n # 0
    BY DEF Guarded
  <2> QED BY <2>1, Zenon DEF Kept
<1> QED BY <1>1 DEF KeptAll

\* What the steps that touch memory do, in one form for all levels.
Took(g) == \E F, x :
  LET region == Region(x.ptr, x.n) IN
  /\ Holding(g, F) /\ IsStep(Used(g), x) /\ OnePointer(x, F) /\ x.n # 0
  /\ Hold(x.slot, x.ptr, x.n - 1) \in F /\ Hold(x.slot, x.ptr, x.n) \notin F
  /\ \E new \in Guarded :
       /\ new.slot = x.slot /\ new.n = x.n /\ DOMAIN new.val = region
       /\ \A l \in region : new.val[l] = Found(g, x.slot, x.n - 1, l)
       /\ taken' = [taken EXCEPT ![g] = KeptAll(taken[g], x.slot, x.n - 1, Default(region)) \cup {new}]
  /\ mem' = IF x.n = 1 THEN SetMem(Default(region)) ELSE mem
  /\ seen' = seen /\ raced' = raced \cup OutElsewhere(g, x.slot, region)

PutBack(g) == \E F, x :
  LET v == GuardAt(g, x.slot, x.n) IN
  /\ Holding(g, F) /\ IsStep(Used(g), x) /\ OnePointer(x, F) /\ x.n # 0
  /\ Hold(x.slot, x.ptr, x.n - 1) \in F /\ Hold(x.slot, x.ptr, x.n) \in F
  /\ taken' = [taken EXCEPT ![g] = KeptAll(taken[g], x.slot, x.n - 1, v.val) \ {v}]
  /\ mem' = IF x.n = 1 THEN SetMem(v.val) ELSE mem
  /\ seen' = seen /\ raced' = raced

Wrote(g, access, slot, n, region) == \E val :
  /\ DOMAIN val = region
  /\ \A l \in region : /\ val[l] = Register!Written(access, Found(g, slot, n, l), seen[g][l])
                        /\ val[l] \in 0..MaxVal
  /\ taken' = [taken EXCEPT ![g] = KeptAll(taken[g], slot, n, val)]
  /\ mem' = IF n = 0 THEN SetMem(val) ELSE mem

SeenAfter(g, access, slot, n, region) ==
  IF access = "read"
  THEN [seen EXCEPT ![g] = [l \in Leaves |-> IF l \in region THEN Found(g, slot, n, l) ELSE seen[g][l]]]
  ELSE seen

Accessed(g, access) == \E F, x :
  /\ Holding(g, F) /\ IsStep(Used(g), x) /\ OnePointer(x, F) /\ x.n = Len(x.ptr.path)
  /\ Hold(x.slot, x.ptr, x.n) \in F
  /\ Wrote(g, access, x.slot, x.n, Region(x.ptr, x.n))
  /\ seen' = SeenAfter(g, access, x.slot, x.n, Region(x.ptr, x.n))
  /\ raced' = raced \cup OutElsewhere(g, x.slot, Region(x.ptr, x.n))

\* A region moves into a guard of its own.
LEMMA TakeGoesOn ==
  ASSUME TypeOK, \A h \in Goroutines : GoesOn(h), NEW g \in Goroutines, Take(g)
  PROVE  TypeOK' /\ (\A h \in Goroutines : GoesOn(h)') /\ Took(g)
<1> DEFINE x == Head(steps[g])
           here == Hold(x.slot, x.ptr, x.n)
           below == Hold(x.slot, x.ptr, x.n - 1)
           region == Region(x.ptr, x.n)
           val == [l \in region |-> Found(g, x.slot, x.n - 1, l)]
           new == [slot |-> x.slot, n |-> x.n, val |-> val]
           T == KeptAll(taken[g], x.slot, x.n - 1, Default(region)) \cup {new}
<1>0. "take" \in Kinds /\ MaxVal \in Nat
  BY PointerAssumption DEF Kinds
<1>1. /\ At(g, "take") /\ Past(g)
      /\ raced' = raced \cup OutElsewhere(g, x.slot, region)
      /\ IF x.n = 1
         THEN mem' = SetMem(Default(region)) /\ taken' = [taken EXCEPT ![g] = @ \cup {new}]
         ELSE /\ taken' = [taken EXCEPT ![g] = SetGuards(g, x.slot, x.n - 1, Default(region)) \cup {new}]
              /\ mem' = mem
      /\ owner' = owner /\ seen' = seen
  BY DEF Take
<1>2. /\ steps'[g] = Tail(steps[g]) /\ steps' \in [Goroutines -> Seq(StepSet)]
      /\ \A h \in Goroutines \ {g} : steps'[h] = steps[h]
      /\ program' = program /\ begun' = begun /\ x.do = "take"
  BY <1>0, <1>1, PastIs
<1>3. PICK F, G : /\ Holding(g, F) /\ IsStep(Used(g), x) /\ OnePointer(x, F) /\ Moved(x, F, G)
                  /\ Moves(Used(g), Tail(steps[g]), G, {})
  BY <1>0, <1>1, PastIs
<1>4. x.n # 0 /\ below \in F /\ here \notin F /\ G = F \cup {here}
  BY <1>2, <1>3 DEF Moved, Register!Accesses
<1>5. /\ x.ptr \in Used(g)[x.slot] /\ x.slot \in Slots /\ x.n \in 0..Len(x.ptr.path) /\ x.ptr \in Pointers
      /\ Len(x.ptr.path) \in Nat
  BY <1>3, UsedIs DEF IsStep, Pointers
<1>6. region \subseteq Leaves /\ region \subseteq Region(x.ptr, x.n - 1)
  BY <1>4, <1>5, RegionIs
<1>7. \A l \in region : Found(g, x.slot, x.n - 1, l) \in 0..MaxVal
  BY <1>3, <1>4, <1>6, FoundIs
<1>8. /\ new \in Guarded /\ new.slot = x.slot /\ new.n = x.n /\ DOMAIN new.val = region
      /\ \A l \in region : new.val[l] = Found(g, x.slot, x.n - 1, l)
  <2>1. val \in [region -> 0..MaxVal] /\ \A l \in region : val[l] = Found(g, x.slot, x.n - 1, l)
    BY <1>7
  <2> HIDE DEF val
  <2>2. val \in UNION {[R -> 0..MaxVal] : R \in SUBSET Leaves}
    BY <1>6, <2>1
  <2>3. x.n \in Nat \ {0}
    BY <1>4, <1>5
  <2> DEFINE V == UNION {[R -> 0..MaxVal] : R \in SUBSET Leaves}
  <2>4. val \in V
    BY <2>2
  <2> HIDE DEF V
  <2>5. /\ new \in [slot : Slots, n : Nat \ {0}, val : V] /\ new.slot = x.slot /\ new.n = x.n
        /\ new.val = val
    BY <1>5, <2>3, <2>4
  <2> QED BY <2>1, <2>5 DEF Guarded, V
<1>9. \A l \in DOMAIN Default(region) : Default(region)[l] \in 0..MaxVal
  BY <1>0 DEF Default
<1> HIDE DEF region, new
<1>10. taken' = [taken EXCEPT ![g] = T]
  <2> DEFINE K == KeptAll(taken[g], x.slot, x.n - 1, Default(region))
  <2>1. x.n = 1 => K = taken[g]
    <3>1. taken[g] \in SUBSET Guarded
      BY DEF TypeOK
    <3> QED BY <3>1, KeptAllZero
  <2>2. SetGuards(g, x.slot, x.n - 1, Default(region)) = K
    BY SetGuardsIs
  <2> HIDE DEF K
  <2> QED BY <1>1, <2>1, <2>2 DEF K
<1>11. Match(T, G)
  <2>1. Match(taken[g], F) /\ Levels(Used(g), F)
    BY <1>3 DEF Holding
  <2> DEFINE K == KeptAll(taken[g], x.slot, x.n - 1, Default(region))
  <2>2. Match(K, F)
    BY <1>9, <2>1, MatchKept
  <2>3. \A e \in F : e.slot = x.slot => e.ptr = x.ptr
    BY <1>3 DEF OnePointer
  <2> HIDE DEF K
  <2>4. \A Q : Match(Q, F) => Match(Q \cup {new}, F \cup {here})
    BY <1>4, <1>8, <2>1, <2>3, MatchAdd DEF region
  <2>5. T = K \cup {new}
    BY DEF K
  <2> QED BY <1>4, <2>2, <2>4, <2>5
<1>12. mem' \in [Leaves -> 0..MaxVal]
  <2> DEFINE val0 == Default(region)
  <2>1. \A l \in DOMAIN val0 : val0[l] \in 0..MaxVal
    BY <1>9
  <2>2. mem' = SetMem(val0) \/ mem' = mem
    BY <1>1
  <2> HIDE DEF val0
  <2>3. SetMem(val0) \in [Leaves -> 0..MaxVal]
    BY <2>1, SetMemIs
  <2> QED BY <2>2, <2>3 DEF TypeOK
<1>13. raced' \subseteq Leaves
  BY <1>1, <1>6 DEF OutElsewhere, TypeOK
<1>14. seen' \in [Goroutines -> [Leaves -> 0..MaxVal]]
  BY <1>1 DEF TypeOK
<1>15. \A e : e.n = 0 => (e \in F <=> e \in G)
  BY <1>4 DEF Hold
<1>16. Took(g)
  <2>1. mem' = IF x.n = 1 THEN SetMem(Default(region)) ELSE mem
    BY <1>1
  <2>2. \E n \in Guarded :
          /\ n.slot = x.slot /\ n.n = x.n /\ DOMAIN n.val = region
          /\ \A l \in region : n.val[l] = Found(g, x.slot, x.n - 1, l)
          /\ taken' = [taken EXCEPT ![g] = KeptAll(taken[g], x.slot, x.n - 1, Default(region)) \cup {n}]
    BY <1>8, <1>10
  <2> HIDE DEF x, here, below
  <2> QED BY <1>1, <1>3, <1>4, <2>1, <2>2 DEF Took, region, here, below
<1> HIDE DEF T
<1> QED BY <1>1, <1>2, <1>3, <1>4, <1>10, <1>11, <1>12, <1>13, <1>14, <1>15, <1>16, MovedGoesOn

\* A guard is dropped, and its value moves back.
LEMMA PutGoesOn ==
  ASSUME TypeOK, \A h \in Goroutines : GoesOn(h), NEW g \in Goroutines, Put(g)
  PROVE  TypeOK' /\ (\A h \in Goroutines : GoesOn(h)') /\ PutBack(g)
<1> DEFINE x == Head(steps[g])
           here == Hold(x.slot, x.ptr, x.n)
           v == GuardAt(g, x.slot, x.n)
           T == KeptAll(taken[g], x.slot, x.n - 1, v.val) \ {v}
<1>0. "put" \in Kinds
  BY DEF Kinds
<1>1. /\ At(g, "put") /\ Past(g)
      /\ IF x.n = 1
         THEN mem' = SetMem(v.val) /\ taken' = [taken EXCEPT ![g] = @ \ {v}]
         ELSE taken' = [taken EXCEPT ![g] = SetGuards(g, x.slot, x.n - 1, v.val) \ {v}] /\ mem' = mem
      /\ owner' = owner /\ seen' = seen /\ raced' = raced
  BY DEF Put
<1>2. /\ steps'[g] = Tail(steps[g]) /\ steps' \in [Goroutines -> Seq(StepSet)]
      /\ \A h \in Goroutines \ {g} : steps'[h] = steps[h]
      /\ program' = program /\ begun' = begun /\ x.do = "put"
  BY <1>0, <1>1, PastIs
<1>3. PICK F, G : /\ Holding(g, F) /\ IsStep(Used(g), x) /\ OnePointer(x, F) /\ Moved(x, F, G)
                  /\ Moves(Used(g), Tail(steps[g]), G, {})
  BY <1>0, <1>1, PastIs
<1>4. x.n # 0 /\ here \in F /\ Hold(x.slot, x.ptr, x.n - 1) \in F /\ G = F \ {here}
  BY <1>2, <1>3 DEF Moved, Register!Accesses
<1>5. x.n \in Nat
  BY <1>3 DEF IsStep
<1>6. /\ v \in taken[g] /\ v \in Guarded /\ v.slot = x.slot /\ v.n = x.n
      /\ \A l \in DOMAIN v.val : v.val[l] \in 0..MaxVal
  BY <1>3, <1>4, GuardAtIs
<1> HIDE DEF v
<1>7. taken' = [taken EXCEPT ![g] = T]
  <2> DEFINE K == KeptAll(taken[g], x.slot, x.n - 1, v.val)
  <2>1. x.n = 1 => K = taken[g]
    <3>1. taken[g] \in SUBSET Guarded
      BY DEF TypeOK
    <3> QED BY <3>1, KeptAllZero
  <2>2. SetGuards(g, x.slot, x.n - 1, v.val) = K
    BY SetGuardsIs
  <2> HIDE DEF K
  <2> QED BY <1>1, <2>1, <2>2 DEF K
<1>8. Match(T, G)
  <2>1. Match(taken[g], F) /\ Levels(Used(g), F)
    BY <1>3 DEF Holding
  <2> DEFINE K == KeptAll(taken[g], x.slot, x.n - 1, v.val)
  <2>2. Match(K, F)
    BY <1>6, <2>1, MatchKept
  <2>3. v \in K
    <3>1. ~(v.slot = x.slot /\ v.n = x.n - 1)
      BY <1>5, <1>6
    <3>2. Kept(v, x.slot, x.n - 1, v.val) = v
      BY <3>1, Zenon DEF Kept
    <3>3. K = {Kept(u, x.slot, x.n - 1, v.val) : u \in taken[g]}
      BY DEF KeptAll
    <3> HIDE DEF K
    <3> QED BY <1>6, <3>2, <3>3
  <2> HIDE DEF K
  <2>4. \A Q : Match(Q, F) /\ v \in Q => Match(Q \ {v}, F \ {here})
    BY <1>4, <1>6, <2>1, MatchDrop
  <2>5. T = K \ {v}
    BY DEF K
  <2> QED BY <1>4, <2>2, <2>3, <2>4, <2>5
<1>9. mem' \in [Leaves -> 0..MaxVal]
  BY <1>1, <1>6, SetMemIs DEF TypeOK
<1>10. raced' \subseteq Leaves /\ seen' \in [Goroutines -> [Leaves -> 0..MaxVal]]
  BY <1>1 DEF TypeOK
<1>11. \A e : e.n = 0 => (e \in F <=> e \in G)
  BY <1>4 DEF Hold
<1>12. PutBack(g)
  <2>1. mem' = IF x.n = 1 THEN SetMem(v.val) ELSE mem
    BY <1>1
  <2> HIDE DEF x, here
  <2> QED BY <1>1, <1>3, <1>4, <1>7, <2>1 DEF PutBack, here, v
<1> HIDE DEF T
<1> QED BY <1>1, <1>2, <1>3, <1>4, <1>7, <1>8, <1>9, <1>10, <1>11, <1>12, MovedGoesOn

\* An access leaves a value: an addition at the largest one panics instead.
LEMMA WrittenIs ==
  ASSUME NEW access \in Register!Accesses, NEW old \in 0..MaxVal, NEW reg \in 0..MaxVal,
         access = "add" => old < MaxVal
  PROVE  Register!Written(access, old, reg) \in 0..MaxVal
<1>1. MaxVal \in Nat /\ MaxVal + 1 \in Nat /\ MaxVal + 1 > 0
  BY PointerAssumption
<1>2. CASE access = "add"
  BY <1>1, <1>2 DEF Register!Written
<1>3. CASE access = "cas"
  BY <1>1, <1>3 DEF Register!Written
<1>4. CASE access = "read"
  BY <1>1, <1>4 DEF Register!Written
<1>5. CASE access = "write"
  <2>1. (reg + 1) % (MaxVal + 1) \in 0..MaxVal
    BY <1>1
  <2> QED BY <1>5, <2>1 DEF Register!Written
<1> QED BY <1>2, <1>3, <1>4, <1>5 DEF Register!Accesses

\* A value is accessed under its guard.
LEMMA AccessGoesOn ==
  ASSUME TypeOK, \A h \in Goroutines : GoesOn(h), NEW g \in Goroutines,
         NEW access \in Register!Accesses, Access(g, access)
  PROVE  TypeOK' /\ (\A h \in Goroutines : GoesOn(h)') /\ Accessed(g, access)
<1> DEFINE x == Head(steps[g])
           here == Hold(x.slot, x.ptr, x.n)
           region == Region(x.ptr, x.n)
           old(l) == Found(g, x.slot, x.n, l)
           val == [l \in region |-> Register!Written(access, old(l), seen[g][l])]
           T == KeptAll(taken[g], x.slot, x.n, val)
<1>0. access \in Kinds
  BY DEF Kinds
<1>1. /\ At(g, access) /\ Past(g)
      /\ access = "add" => \A l \in region : old(l) < MaxVal
      /\ Set(g, x.slot, x.n, val)
      /\ seen' = IF access = "read"
                 THEN [seen EXCEPT ![g] = [l \in Leaves |-> IF l \in region THEN old(l) ELSE @[l]]]
                 ELSE seen
      /\ raced' = raced \cup OutElsewhere(g, x.slot, region)
      /\ owner' = owner
  BY DEF Access
<1>2. /\ steps'[g] = Tail(steps[g]) /\ steps' \in [Goroutines -> Seq(StepSet)]
      /\ \A h \in Goroutines \ {g} : steps'[h] = steps[h]
      /\ program' = program /\ begun' = begun /\ x.do = access
  BY <1>0, <1>1, PastIs
<1>3. PICK F, G : /\ Holding(g, F) /\ IsStep(Used(g), x) /\ OnePointer(x, F) /\ Moved(x, F, G)
                  /\ Moves(Used(g), Tail(steps[g]), G, {})
  BY <1>0, <1>1, PastIs
<1>4. here \in F /\ G = F /\ x.n = Len(x.ptr.path)
  BY <1>2, <1>3 DEF Moved, Register!Accesses
<1>5. x.ptr \in Used(g)[x.slot] /\ x.slot \in Slots /\ x.n \in 0..Len(x.ptr.path)
  BY <1>3 DEF IsStep
<1>6. region \subseteq Leaves
  BY <1>5, RegionIs
<1>7. \A l \in region : old(l) \in 0..MaxVal
  BY <1>3, <1>4, <1>6, FoundIs
<1>8. \A l \in region : seen[g][l] \in 0..MaxVal
  BY <1>6 DEF TypeOK
<1> HIDE DEF old
<1>9. DOMAIN val = region /\ \A l \in DOMAIN val : val[l] \in 0..MaxVal
  BY <1>1, <1>7, <1>8, WrittenIs
<1>10. \A l \in region : val[l] = Register!Written(access, old(l), seen[g][l])
  OBVIOUS
<1> HIDE DEF region, val
<1>11. /\ mem' \in [Leaves -> 0..MaxVal]
       /\ taken' = [taken EXCEPT ![g] = T]
       /\ Match(T, G)
  <2>1. Match(taken[g], F)
    BY <1>3 DEF Holding
  <2>2. CASE x.n = 0
    <3>1. mem' = SetMem(val) /\ taken' = taken
      BY <1>1, <2>2 DEF Set
    <3>2. taken = [taken EXCEPT ![g] = taken[g]]
      BY DEF TypeOK
    <3>3. SetMem(val) \in [Leaves -> 0..MaxVal]
      BY <1>9, SetMemIs
    <3>4. T = taken[g]
      <4>1. taken[g] \in SUBSET Guarded
        BY DEF TypeOK
      <4> QED BY <2>2, <4>1, KeptAllZero
    <3> HIDE DEF T
    <3> QED BY <1>4, <2>1, <3>1, <3>2, <3>3, <3>4
  <2>3. CASE x.n # 0
    <3>1. mem' = mem /\ taken' = [taken EXCEPT ![g] = SetGuards(g, x.slot, x.n, val)]
      BY <1>1, <2>3 DEF Set
    <3>2. Match(T, F)
      BY <1>9, <2>1, MatchKept
    <3>3. SetGuards(g, x.slot, x.n, val) = T
      BY SetGuardsIs
    <3> HIDE DEF T
    <3> QED BY <1>4, <3>1, <3>2, <3>3 DEF TypeOK
  <2> QED BY <2>2, <2>3
<1>12. Accessed(g, access)
  <2>1. mem' = IF x.n = 0 THEN SetMem(val) ELSE mem
    BY <1>1 DEF Set
  <2>2. Wrote(g, access, x.slot, x.n, region)
    BY <1>9, <1>11, <1>10, <2>1 DEF old, Wrote
  <2>3. seen' = SeenAfter(g, access, x.slot, x.n, region)
    BY <1>1 DEF old, SeenAfter
  <2> HIDE DEF x, here
  <2> QED BY <1>1, <1>3, <1>4, <2>2, <2>3 DEF Accessed, region, here
<1> HIDE DEF T
<1>13. raced' \subseteq Leaves
  BY <1>1, <1>6 DEF OutElsewhere, TypeOK
<1>14. seen' \in [Goroutines -> [Leaves -> 0..MaxVal]]
  <2>1. CASE access = "read"
    <3> DEFINE now == [l \in Leaves |-> IF l \in region THEN old(l) ELSE seen[g][l]]
    <3>1. seen' = [seen EXCEPT ![g] = now]
      BY <1>1, <2>1
    <3>2. now \in [Leaves -> 0..MaxVal]
      BY <1>7 DEF TypeOK
    <3> HIDE DEF now
    <3> QED BY <3>1, <3>2 DEF TypeOK
  <2>2. CASE access # "read"
    BY <1>1, <2>2 DEF TypeOK
  <2> QED BY <2>1, <2>2
<1> QED BY <1>1, <1>2, <1>3, <1>4, <1>11, <1>13, <1>14, <1>12, MovedGoesOn

-----------------------------------------------------------------------------
(* Memory is given up only where it is shared, and is out only once until  *)
(* then.                                                                   *)

\* The guards that were set, one by one.
LEMMA KeptAllIs ==
  ASSUME NEW T \in SUBSET Guarded, NEW slot, NEW n, NEW val, \A l \in DOMAIN val : val[l] \in 0..MaxVal,
         NEW w \in KeptAll(T, slot, n, val)
  PROVE  /\ w \in Guarded
         /\ \E v \in T : /\ w = Kept(v, slot, n, val)
                         /\ w.slot = v.slot /\ w.n = v.n /\ DOMAIN w.val = DOMAIN v.val
                         /\ \A l \in DOMAIN v.val : w.val[l] =
                              IF v.slot = slot /\ v.n = n /\ l \in DOMAIN val THEN val[l] ELSE v.val[l]
<1>1. PICK v \in T : w = Kept(v, slot, n, val)
  BY DEF KeptAll
<1> QED BY <1>1, KeptIs

\* A guard is new, or is on what a guard of that slot was on before.
OldOrNew(g, slot, region) ==
  \A h \in Goroutines : \A u \in taken'[h] :
    \/ h = g /\ u.slot = slot /\ DOMAIN u.val \subseteq region
    \/ \E v \in taken[h] : u.slot = v.slot /\ DOMAIN u.val = DOMAIN v.val

\* A step that gives up what it reaches elsewhere keeps the rest out once.
LEMMA OutOnceNext ==
  ASSUME OutOnce, NEW g \in Goroutines, NEW slot, NEW region,
         OldOrNew(g, slot, region), raced' = raced \cup OutElsewhere(g, slot, region)
  PROVE  OutOnce'
<1> SUFFICES ASSUME NEW l \in Leaves \ raced', NEW h \in Goroutines, NEW k \in Goroutines,
                    NEW u \in taken'[h], NEW v \in taken'[k], l \in DOMAIN u.val, l \in DOMAIN v.val
             PROVE  h = k /\ u.slot = v.slot
  BY DEF OutOnce
<1>1. l \in Leaves \ raced
  OBVIOUS
<1>2. ASSUME l \in region, NEW j \in Goroutines, NEW w \in taken[j], l \in DOMAIN w.val
      PROVE  j = g /\ w.slot = slot
  <2>1. l \notin OutElsewhere(g, slot, region)
    OBVIOUS
  <2>2. <<j, w.slot>> = <<g, slot>>
    BY <1>2, <2>1 DEF OutElsewhere
  <2> QED BY <2>2
<1>3. \/ h = g /\ u.slot = slot /\ l \in region
      \/ \E w \in taken[h] : u.slot = w.slot /\ l \in DOMAIN w.val
  BY DEF OldOrNew
<1>4. \/ k = g /\ v.slot = slot /\ l \in region
      \/ \E w \in taken[k] : v.slot = w.slot /\ l \in DOMAIN w.val
  BY DEF OldOrNew
<1>5. CASE h = g /\ u.slot = slot /\ l \in region
  BY <1>2, <1>4, <1>5
<1>6. CASE k = g /\ v.slot = slot /\ l \in region
  BY <1>2, <1>3, <1>6
<1>7. CASE /\ \E w \in taken[h] : u.slot = w.slot /\ l \in DOMAIN w.val
           /\ \E w \in taken[k] : v.slot = w.slot /\ l \in DOMAIN w.val
  BY <1>1, <1>7 DEF OutOnce
<1> QED BY <1>3, <1>4, <1>5, <1>6, <1>7

\* What a step reaches elsewhere is named by both programs.
LEMMA RacedNext ==
  ASSUME TypeOK, \A h \in Goroutines : GoesOn(h), RacedWhereShared, NEW g \in Goroutines, NEW x,
         IsStep(Used(g), x), x.n # 0 \/ x.n = Len(x.ptr.path), program' = program,
         raced' = raced \cup OutElsewhere(g, x.slot, Region(x.ptr, x.n))
  PROVE  RacedWhereShared'
<1> DEFINE Shared(l) == \E h, k \in Goroutines, a, b \in {"ptr", "under"} :
                          <<h, a>> # <<k, b>> /\ l \in Reaches(h, a) \cap Reaches(k, b)
<1>1. ASSUME NEW l \in OutElsewhere(g, x.slot, Region(x.ptr, x.n)) PROVE Shared(l)
  <2>0. PICK h \in Goroutines : \E v \in taken[h] : <<h, v.slot>> # <<g, x.slot>> /\ l \in DOMAIN v.val
    BY DEF OutElsewhere
  <2>1. PICK v \in taken[h] : <<h, v.slot>> # <<g, x.slot>> /\ l \in DOMAIN v.val
    BY <2>0
  <2>2. PICK F : Levels(Used(h), F) /\ Match(taken[h], F)
    BY DEF GoesOn, Holding
  <2>3. PICK e \in F : e.slot = v.slot /\ e.n = v.n /\ DOMAIN v.val = Region(e.ptr, e.n)
    BY <2>2 DEF Match
  <2>4. e.slot \in Slots /\ e.ptr \in Used(h)[e.slot] /\ e.n \in 0..Len(e.ptr.path)
    BY <2>2 DEF Levels
  <2>5. v.n # 0
    BY DEF TypeOK, Guarded
  <2>6. l \in Reaches(h, Field(v.slot))
    BY <2>1, <2>3, <2>4, <2>5, RegionReached
  <2>7. x.slot \in Slots /\ x.ptr \in Used(g)[x.slot] /\ x.n \in 0..Len(x.ptr.path)
    BY DEF IsStep
  <2>8. l \in Reaches(g, Field(x.slot))
    BY <2>7, RegionReached DEF OutElsewhere
  <2>9. /\ <<h, Field(v.slot)>> # <<g, Field(x.slot)>> /\ Field(v.slot) \in {"ptr", "under"}
        /\ Field(x.slot) \in {"ptr", "under"}
    BY <2>1, <2>3, <2>4, <2>7 DEF Field, Slots
  <2> QED BY <2>6, <2>8, <2>9
<1>2. \A l \in raced' : Shared(l)
  BY <1>1 DEF RacedWhereShared
<1>3. \A h, a : Reaches(h, a)' = Reaches(h, a)
  BY DEF Reaches
<1> QED BY <1>2, <1>3 DEF RacedWhereShared

\* Taking a guard.
LEMMA TookSafe ==
  ASSUME TypeOK, \A h \in Goroutines : GoesOn(h), OutOnce, RacedWhereShared, NEW g \in Goroutines,
         Took(g), program' = program
  PROVE  OutOnce' /\ RacedWhereShared'
<1>1. PICK F, x :
        /\ IsStep(Used(g), x) /\ x.n # 0
        /\ \E new \in Guarded :
             /\ new.slot = x.slot /\ new.n = x.n /\ DOMAIN new.val = Region(x.ptr, x.n)
             /\ taken' = [taken EXCEPT ![g] =
                  KeptAll(taken[g], x.slot, x.n - 1, Default(Region(x.ptr, x.n))) \cup {new}]
        /\ raced' = raced \cup OutElsewhere(g, x.slot, Region(x.ptr, x.n))
  BY DEF Took
<1> DEFINE region == Region(x.ptr, x.n)
           K == KeptAll(taken[g], x.slot, x.n - 1, Default(region))
<1>2. PICK new : new.slot = x.slot /\ DOMAIN new.val = region /\ taken' = [taken EXCEPT ![g] = K \cup {new}]
  BY <1>1
<1>3. \A w \in K : \E v \in taken[g] : w.slot = v.slot /\ DOMAIN w.val = DOMAIN v.val
  <2>1. DOMAIN Default(region) = region /\ \A l \in region : Default(region)[l] \in 0..MaxVal
    BY PointerAssumption DEF Default
  <2>2. taken[g] \in SUBSET Guarded
    BY DEF TypeOK
  <2> QED BY <2>1, <2>2, KeptAllIs
<1> HIDE DEF K
<1>4. taken'[g] = K \cup {new} /\ \A h \in Goroutines \ {g} : taken'[h] = taken[h]
  BY <1>2 DEF TypeOK
<1>5. OldOrNew(g, x.slot, region)
  BY <1>2, <1>3, <1>4 DEF OldOrNew
<1> QED BY <1>1, <1>5, OutOnceNext, RacedNext

\* Accessing a value.
LEMMA AccessedSafe ==
  ASSUME TypeOK, \A h \in Goroutines : GoesOn(h), OutOnce, RacedWhereShared, NEW g \in Goroutines,
         NEW access, Accessed(g, access), program' = program
  PROVE  OutOnce' /\ RacedWhereShared'
<1>1. PICK F, x :
        /\ IsStep(Used(g), x) /\ x.n = Len(x.ptr.path)
        /\ \E val : /\ DOMAIN val = Region(x.ptr, x.n)
                    /\ \A l \in Region(x.ptr, x.n) : val[l] \in 0..MaxVal
                    /\ taken' = [taken EXCEPT ![g] = KeptAll(taken[g], x.slot, x.n, val)]
        /\ raced' = raced \cup OutElsewhere(g, x.slot, Region(x.ptr, x.n))
  BY DEF Accessed, Wrote
<1>2. PICK val : /\ \A l \in DOMAIN val : val[l] \in 0..MaxVal
                 /\ taken' = [taken EXCEPT ![g] = KeptAll(taken[g], x.slot, x.n, val)]
  BY <1>1
<1> DEFINE K == KeptAll(taken[g], x.slot, x.n, val)
<1>3. \A w \in K : \E v \in taken[g] : w.slot = v.slot /\ DOMAIN w.val = DOMAIN v.val
  <2>1. taken[g] \in SUBSET Guarded
    BY DEF TypeOK
  <2> QED BY <1>2, <2>1, KeptAllIs
<1>4. taken'[g] = K /\ \A h \in Goroutines \ {g} : taken'[h] = taken[h]
  BY <1>2 DEF TypeOK
<1> HIDE DEF K
<1>5. OldOrNew(g, x.slot, Region(x.ptr, x.n))
  BY <1>3, <1>4 DEF OldOrNew
<1> QED BY <1>1, <1>5, OutOnceNext, RacedNext

\* Dropping a guard.
LEMMA PutBackSafe ==
  ASSUME TypeOK, OutOnce, RacedWhereShared, NEW g \in Goroutines, PutBack(g), program' = program
  PROVE  OutOnce' /\ RacedWhereShared'
<1>1. PICK F, x :
        LET v == GuardAt(g, x.slot, x.n) IN
        /\ Holding(g, F) /\ x.n # 0 /\ Hold(x.slot, x.ptr, x.n) \in F
        /\ taken' = [taken EXCEPT ![g] = KeptAll(taken[g], x.slot, x.n - 1, v.val) \ {v}]
        /\ raced' = raced
  BY DEF PutBack
<1> DEFINE v == GuardAt(g, x.slot, x.n)
           K == KeptAll(taken[g], x.slot, x.n - 1, v.val)
<1>2. \A l \in DOMAIN v.val : v.val[l] \in 0..MaxVal
  BY <1>1, GuardAtIs
<1>3. \A w \in K : \E u \in taken[g] : w.slot = u.slot /\ DOMAIN w.val = DOMAIN u.val
  <2>1. taken[g] \in SUBSET Guarded
    BY DEF TypeOK
  <2> HIDE DEF v
  <2>2. ASSUME NEW w \in K PROVE \E u \in taken[g] : w.slot = u.slot /\ DOMAIN w.val = DOMAIN u.val
    BY <1>2, <2>1, KeptAllIs
  <2> QED BY <2>2
<1>4. taken'[g] \subseteq K /\ \A h \in Goroutines \ {g} : taken'[h] = taken[h]
  BY <1>1 DEF TypeOK
<1> HIDE DEF K, v
<1>5. OldOrNew(g, x.slot, {})
  BY <1>3, <1>4 DEF OldOrNew
<1>6. raced' = raced \cup OutElsewhere(g, x.slot, {})
  BY <1>1 DEF OutElsewhere
<1>7. RacedWhereShared'
  <2>1. \A h, a : Reaches(h, a)' = Reaches(h, a)
    BY DEF Reaches
  <2> QED BY <1>1, <2>1 DEF RacedWhereShared
<1> QED BY <1>5, <1>6, <1>7, OutOnceNext

\* The steps that move no value.
LEMMA OthersSafe ==
  ASSUME OutOnce, RacedWhereShared, UNCHANGED <<program, taken, raced>>
  PROVE  OutOnce' /\ RacedWhereShared'
<1>1. OutOnce'
  BY DEF OutOnce
<1>2. \A h, a : Reaches(h, a)' = Reaches(h, a)
  BY DEF Reaches
<1> QED BY <1>1, <1>2 DEF RacedWhereShared

-----------------------------------------------------------------------------
\* The invariant holds at the start.
LEMMA IInvInit == Init => IInv
<1> SUFFICES ASSUME Init PROVE IInv
  OBVIOUS
<1>1. TypeOK
  <2>1. MaxVal \in Nat
    BY PointerAssumption
  <2> QED BY <2>1 DEF Init, TypeOK
<1>2. ASSUME NEW g \in Goroutines PROVE GoesOn(g)
  <2>1. steps[g] = <<>> /\ taken[g] = {} /\ \A c \in Cells : owner[c] = Nil
    BY DEF Init
  <2>2. g # Nil
    BY PointerAssumption
  <2>3. Holding(g, {})
    BY <2>1, <2>2 DEF Holding, Levels, Owns, Match
  <2>4. Moves(Used(g), steps[g], {}, {})
    BY <2>1, MovesNone
  <2> QED BY <2>3, <2>4 DEF GoesOn
<1>3. OutOnce /\ RacedWhereShared
  BY DEF Init, OutOnce, RacedWhereShared
<1> QED BY <1>1, <1>2, <1>3 DEF IInv

\* Every step keeps the invariant.
LEMMA IInvNext == IInv /\ [Next]_vars => IInv'
<1> SUFFICES ASSUME IInv, [Next]_vars PROVE IInv'
  OBVIOUS
<1>0. TypeOK /\ (\A h \in Goroutines : GoesOn(h)) /\ OutOnce /\ RacedWhereShared
  BY DEF IInv
<1>1. ASSUME NEW g \in Goroutines, Begin(g) PROVE IInv'
  <2>1. UNCHANGED <<program, taken, raced>>
    BY <1>1 DEF Begin
  <2> QED BY <1>0, <1>1, <2>1, BeginGoesOn, OthersSafe DEF IInv
<1>2. ASSUME NEW g \in Goroutines, Acquire(g) PROVE IInv'
  <2>1. UNCHANGED <<program, taken, raced>>
    BY <1>2 DEF Acquire, Past
  <2> QED BY <1>0, <1>2, <2>1, AcquireGoesOn, OthersSafe DEF IInv
<1>3. ASSUME NEW g \in Goroutines, Release(g) PROVE IInv'
  <2>1. UNCHANGED <<program, taken, raced>>
    BY <1>3 DEF Release, Past
  <2> QED BY <1>0, <1>3, <2>1, ReleaseGoesOn, OthersSafe DEF IInv
<1>4. ASSUME NEW g \in Goroutines, Take(g) PROVE IInv'
  <2>1. program' = program
    BY <1>4 DEF Take, Past
  <2> QED BY <1>0, <1>4, <2>1, TakeGoesOn, TookSafe DEF IInv
<1>5. ASSUME NEW g \in Goroutines, Put(g) PROVE IInv'
  <2>1. program' = program
    BY <1>5 DEF Put, Past
  <2> QED BY <1>0, <1>5, <2>1, PutGoesOn, PutBackSafe DEF IInv
<1>6. ASSUME NEW g \in Goroutines, Panic(g) PROVE IInv'
  <2>1. UNCHANGED <<program, taken, raced>>
    BY <1>6 DEF Panic
  <2> QED BY <1>0, <1>6, <2>1, PanicGoesOn, OthersSafe DEF IInv
<1>7. ASSUME NEW g \in Goroutines, NEW access \in Register!Accesses, Access(g, access) PROVE IInv'
  <2>1. program' = program
    BY <1>7 DEF Access, Past
  <2> QED BY <1>0, <1>7, <2>1, AccessGoesOn, AccessedSafe DEF IInv
<1>8. CASE UNCHANGED vars
  <2>1. UNCHANGED <<program, taken, raced>> /\ TypeOK'
    BY <1>0, <1>8 DEF vars, TypeOK
  <2>2. \A h \in Goroutines : GoesOn(h)'
    BY <1>0, <1>8, GoesOnElse DEF vars
  <2> QED BY <1>0, <2>1, <2>2, OthersSafe DEF IInv
<1> QED
  BY <1>1, <1>2, <1>3, <1>4, <1>5, <1>6, <1>7, <1>8 DEF Next, Advance, Finished

\* At every moment, what is locked and taken out is what the steps left to
\* each goroutine will drop, and what is out is out once unless it was given up.
THEOREM IInvAlways == Spec => []IInv
<1> QED BY IInvInit, IInvNext, PTL DEF Spec

\* RacedWhereShared is a part of the invariant.
THEOREM RacedWhereSharedAlways == Spec => []RacedWhereShared
<1>1. IInv => RacedWhereShared
  BY DEF IInv
<1> QED BY <1>1, IInvAlways, PTL

\* Who waits holds only the mutexes of methods, and so does who is waited for.
LEMMA StuckInCalls == IInv => StuckOnlyInCalls
<1> SUFFICES ASSUME IInv, \A g \in Goroutines : Done(g) \/ Blocked(g),
                    NEW g \in Goroutines, Blocked(g)
             PROVE  InCall(owner[Head(steps[g]).ptr.cell])
  BY DEF StuckOnlyInCalls
<1> DEFINE c == Head(steps[g]).ptr.cell
           h == owner[c]
<1>0. TypeOK /\ (\A k \in Goroutines : GoesOn(k)) /\ "acquire" \in Kinds
  BY DEF IInv, Kinds
<1>1. ASSUME NEW k \in Goroutines, Blocked(k)
      PROVE  \E F : /\ Holding(k, F) /\ Moves(Used(k), steps[k], F, {}) /\ OnlyMethods(F)
                    /\ Head(steps[k]).ptr.cell \in Cells
  <2> DEFINE x == Head(steps[k])
  <2>1. steps[k] # <<>> /\ x.do = "acquire"
    BY <1>1 DEF Blocked, At
  <2>2. PICK F : Holding(k, F) /\ Moves(Used(k), steps[k], F, {})
    BY <1>0 DEF GoesOn
  <2>3. steps[k] \in Seq(StepSet)
    BY <1>0 DEF TypeOK
  <2>4. PICK G : Legal(Used(k), x, F, G)
    BY <2>1, <2>2, <2>3, MovesTail
  <2>5. IsStep(Used(k), x) /\ Moved(x, F, G)
    BY <1>0, <2>1, <2>4, LegalHere
  <2>6. OnlyMethods(F)
    BY <2>1, <2>5 DEF Moved, Register!Accesses
  <2>7. x.ptr.cell \in Cells
    <3>1. x.ptr \in Pointers
      BY <1>0, <2>5, UsedIs DEF IsStep
    <3> QED BY <3>1 DEF Pointers
  <2> QED BY <2>2, <2>6, <2>7
<1>2. c \in Cells
  BY <1>1
<1>3. h \in Goroutines
  BY <1>0, <1>2 DEF Blocked, TypeOK
<1> HIDE DEF c, h
<1>4. Blocked(h)
  <2>1. ASSUME Done(h) PROVE FALSE
    <3>1. steps[h] = <<>>
      BY <2>1 DEF Done
    <3>2. PICK F : Holding(h, F) /\ Moves(Used(h), steps[h], F, {})
      BY <1>0, <1>3 DEF GoesOn
    <3>3. F = {}
      BY <3>1, <3>2, MovesNone
    <3> QED BY <1>2, <3>2, <3>3 DEF Holding, Owns, h
  <2> QED BY <1>3, <2>1
<1>5. PICK F : Holding(h, F) /\ Moves(Used(h), steps[h], F, {}) /\ OnlyMethods(F)
  BY <1>1, <1>3, <1>4
<1>6. PICK e \in F : e.n = 0 /\ e.ptr.cell = c
  BY <1>2, <1>5 DEF Holding, Owns, h
<1>7. e.slot = "under" /\ e.ptr.path = <<>>
  BY <1>5, <1>6 DEF OnlyMethods
<1>8. Len(steps[h]) \in Nat /\ DOMAIN steps[h] = 1..Len(steps[h])
  <2>1. steps[h] \in Seq(StepSet)
    BY <1>0, <1>3 DEF TypeOK
  <2> QED BY <2>1
<1>9. PICK i \in 1..Len(steps[h]) :
        /\ steps[h][i] = Step("release", steps[h][i].slot, steps[h][i].ptr, steps[h][i].n)
        /\ e = Hold(steps[h][i].slot, steps[h][i].ptr, 0)
  BY <1>5, <1>6, <1>8, MovesReleases
<1>10. /\ "slot" \in DOMAIN steps[h][i] /\ steps[h][i].do = "release"
       /\ steps[h][i].slot = "under" /\ steps[h][i].ptr.path = <<>>
  <2> DEFINE y == steps[h][i]
  <2>1. y = Step("release", y.slot, y.ptr, y.n) /\ e = Hold(y.slot, y.ptr, 0)
    BY <1>9
  <2> HIDE DEF y
  <2>2. "slot" \in DOMAIN y /\ y.do = "release"
    BY <2>1 DEF Step
  <2>3. e.slot = y.slot /\ e.ptr = y.ptr
    BY <2>1 DEF Hold
  <2> QED BY <1>7, <2>2, <2>3 DEF y
<1> QED BY <1>8, <1>10 DEF InCall, h, c

\* Goroutines get stuck only in methods that run under a direct pointer: any
\* other guard is dropped before its goroutine locks again.
THEOREM StuckOnlyInCallsAlways == Spec => []StuckOnlyInCalls
<1> QED BY IInvAlways, StuckInCalls, PTL

-----------------------------------------------------------------------------
(* The value of a leaf is that of its deepest holder.                      *)

ValueIn(H, m, l) == IF H = {} THEN m ELSE (CHOOSE v \in H : \A u \in H : u.n <= v.n).val[l]

\* The deepest of H have the value a in l.
Top(H, l, a) == \E v \in H : v.val[l] = a /\ \A u \in H : u.n <= v.n /\ (u.n = v.n => u.val[l] = a)

\* The value of the deepest holder is the value.
LEMMA TopIs ==
  ASSUME NEW H \in SUBSET Guarded, NEW m, NEW l, NEW a, Top(H, l, a)
  PROVE  ValueIn(H, m, l) = a
<1>1. PICK v \in H : v.val[l] = a /\ \A u \in H : u.n <= v.n /\ (u.n = v.n => u.val[l] = a)
  BY DEF Top
<1> DEFINE w == CHOOSE w \in H : \A u \in H : u.n <= w.n
<1>2. w \in H /\ \A u \in H : u.n <= w.n
  BY <1>1
<1> HIDE DEF w
<1>3. w.n <= v.n /\ v.n <= w.n /\ w.n \in Nat /\ v.n \in Nat
  BY <1>1, <1>2 DEF Guarded
<1>4. w.n = v.n
  BY <1>3
<1>5. w.val[l] = a
  BY <1>1, <1>2, <1>4
<1> QED BY <1>1, <1>5 DEF ValueIn, w

\* Of holders whose depth is bounded, one is the deepest.
LEMMA DeepestExists ==
  ASSUME NEW H \in SUBSET Guarded, H # {}, NEW b \in Nat, \A u \in H : u.n <= b
  PROVE  \E v \in H : \A u \in H : u.n <= v.n
<1> DEFINE T == {b - u.n : u \in H}
<1>1. \A u \in H : u.n \in Nat
  BY DEF Guarded
<1>2. T \in SUBSET Nat /\ T # {}
  BY <1>1
<1>3. PICK k \in T : \A j \in T : k <= j
  <2> HIDE DEF T
  <2> QED BY <1>2, LeastOfNat
<1>4. PICK v \in H : k = b - v.n
  OBVIOUS
<1>5. ASSUME NEW u \in H PROVE u.n <= v.n
  <2>1. b - v.n <= b - u.n
    BY <1>3, <1>4
  <2> QED BY <1>1, <2>1
<1> QED BY <1>5

\* B has what A has for l, at the same depths.
Covers(l, A, B) == \A w \in A : l \in DOMAIN w.val =>
                     \E v \in B : w.n = v.n /\ l \in DOMAIN v.val /\ w.val[l] = v.val[l]

\* Holders with the same values give the same value.
LEMMA SameValue ==
  ASSUME NEW H \in SUBSET Guarded, NEW K \in SUBSET Guarded, NEW l, NEW m, NEW a,
         H = {} \/ Top(H, l, a), \A v \in H \cup K : l \in DOMAIN v.val,
         Covers(l, H, K), Covers(l, K, H)
  PROVE  ValueIn(K, m, l) = ValueIn(H, m, l)
<1>1. CASE H = {}
  <2>1. K = {}
    BY <1>1 DEF Covers
  <2> QED BY <1>1, <2>1
<1>2. CASE Top(H, l, a)
  <2>1. PICK v \in H : v.val[l] = a /\ \A u \in H : u.n <= v.n /\ (u.n = v.n => u.val[l] = a)
    BY <1>2 DEF Top
  <2>2. PICK w \in K : w.n = v.n /\ w.val[l] = a
    BY <2>1 DEF Covers
  <2>3. ASSUME NEW u \in K PROVE u.n <= w.n /\ (u.n = w.n => u.val[l] = a)
    BY <2>1, <2>2 DEF Covers
  <2>4. Top(K, l, a)
    BY <2>2, <2>3 DEF Top
  <2> QED BY <1>2, <2>4, TopIs
<1> QED BY <1>1, <1>2

Sound == TypeOK /\ (\A h \in Goroutines : GoesOn(h)) /\ OutOnce

\* The holders of a leaf are of one goroutine and slot, one per depth.
LEMMA HoldersAre ==
  ASSUME Sound, NEW l \in Leaves \ raced
  PROVE  /\ Holders(l) \in SUBSET Guarded
         /\ \A v : v \in Holders(l) <=> \E h \in Goroutines : v \in taken[h] /\ l \in DOMAIN v.val
         /\ \A u, v \in Holders(l) : u.slot = v.slot /\ (u.n = v.n => u = v)
         /\ Holders(l) = {} \/ \E v \in Holders(l) : \A u \in Holders(l) : u.n <= v.n
<1> DEFINE H == Holders(l)
<1>1. \A v : v \in H <=> \E h \in Goroutines : v \in taken[h] /\ l \in DOMAIN v.val
  BY DEF Holders
<1> HIDE DEF H
<1>2. H \in SUBSET Guarded
  BY <1>1 DEF Sound, TypeOK
<1>3. ASSUME NEW h \in Goroutines, NEW k \in Goroutines, NEW u \in taken[h], NEW v \in taken[k],
             l \in DOMAIN u.val, l \in DOMAIN v.val
      PROVE  h = k /\ u.slot = v.slot
  BY <1>3 DEF Sound, OutOnce
<1>4. ASSUME NEW u \in H, NEW v \in H PROVE u.slot = v.slot /\ (u.n = v.n => u = v)
  <2>1. PICK h \in Goroutines : u \in taken[h] /\ l \in DOMAIN u.val
    BY <1>1
  <2>2. v \in taken[h] /\ u.slot = v.slot
    BY <1>1, <1>3, <2>1
  <2>3. \A p, q \in taken[h] : p.slot = q.slot /\ p.n = q.n => p = q
    BY DEF Sound, GoesOn, Holding, Match
  <2> QED BY <2>1, <2>2, <2>3
<1>5. ASSUME H # {} PROVE \E v \in H : \A u \in H : u.n <= v.n
  <2>1. PICK w \in H : TRUE
    BY <1>5
  <2>2. PICK h \in Goroutines : w \in taken[h] /\ l \in DOMAIN w.val
    BY <1>1, <2>1
  <2>3. PICK F : Levels(Used(h), F) /\ Match(taken[h], F)
    BY DEF Sound, GoesOn, Holding
  <2>4. PICK e \in F : e.slot = w.slot
    BY <2>2, <2>3 DEF Match
  <2>5. Len(e.ptr.path) \in Nat
    <3>1. e.slot \in Slots /\ e.ptr \in Used(h)[e.slot]
      BY <2>3 DEF Levels
    <3>2. e.ptr \in Pointers
      BY <3>1, UsedIs DEF Sound
    <3> QED BY <3>2 DEF Pointers
  <2>6. ASSUME NEW u \in H PROVE u.n <= Len(e.ptr.path)
    <3>1. u \in taken[h] /\ u.slot = w.slot
      BY <1>1, <1>3, <2>2
    <3>2. PICK f \in F : f.slot = u.slot /\ f.n = u.n
      BY <2>3, <3>1 DEF Match
    <3>3. f.ptr = e.ptr /\ f.n \in 0..Len(f.ptr.path)
      BY <2>3, <2>4, <3>1, <3>2 DEF Levels
    <3> QED BY <2>5, <3>2, <3>3
  <2> QED BY <1>2, <1>5, <2>5, <2>6, DeepestExists
<1> QED BY <1>1, <1>2, <1>4, <1>5 DEF H

\* The value of a leaf, in terms of its holders.
LEMMA ValueOfIs ==
  ASSUME NEW l
  PROVE  ValueOf(l) = ValueIn(Holders(l), mem[l], l)
  BY DEF ValueOf, ValueIn

\* The deepest holder of a leaf has its value.
LEMMA HoldersTop ==
  ASSUME Sound, NEW l \in Leaves \ raced, NEW v \in Holders(l), \A u \in Holders(l) : u.n <= v.n
  PROVE  Top(Holders(l), l, v.val[l]) /\ ValueOf(l) = v.val[l]
<1>1. Top(Holders(l), l, v.val[l])
  BY HoldersAre DEF Top
<1> QED BY <1>1, HoldersAre, TopIs, ValueOfIs

\* The holders after the guards of g have become T.
LEMMA HoldersNext ==
  ASSUME TypeOK, NEW g \in Goroutines, NEW T, T \subseteq Guarded, taken' = [taken EXCEPT ![g] = T], NEW l
  PROVE  /\ Holders(l)' \in SUBSET Guarded
         /\ \A w : w \in Holders(l)' <=> \/ w \in T /\ l \in DOMAIN w.val
                                         \/ \E h \in Goroutines \ {g} : w \in taken[h] /\ l \in DOMAIN w.val
         /\ ValueOf(l)' = ValueIn(Holders(l)', mem'[l], l)
<1>1. taken'[g] = T /\ \A h \in Goroutines \ {g} : taken'[h] = taken[h] /\ taken[h] \subseteq Guarded
  BY DEF TypeOK
<1>2. \A w : w \in Holders(l)' <=> \E h \in Goroutines : w \in taken'[h] /\ l \in DOMAIN w.val
  BY DEF Holders
<1>3. ValueOf(l)' = ValueIn(Holders(l)', mem'[l], l)
  BY DEF ValueOf, ValueIn
<1>4. \A w : w \in Holders(l)' <=> \/ w \in T /\ l \in DOMAIN w.val
                                  \/ \E h \in Goroutines \ {g} : w \in taken[h] /\ l \in DOMAIN w.val
  BY <1>1, <1>2
<1>5. Holders(l)' \in SUBSET Guarded
  BY <1>1, <1>4
<1> QED BY <1>3, <1>4, <1>5

-----------------------------------------------------------------------------
(* What the steps do to the values.                                        *)

\* Nothing, outside of the region they reach.
LEMMA ElsewhereSame ==
  ASSUME Sound, NEW g \in Goroutines, NEW T, T \subseteq Guarded, taken' = [taken EXCEPT ![g] = T],
         NEW l \in Leaves \ raced, mem'[l] = mem[l],
         Covers(l, T, taken[g]), Covers(l, taken[g], T)
  PROVE  ValueOf(l)' = ValueOf(l)
<1> DEFINE H == Holders(l)
           K == Holders(l)'
<1>1. /\ H \in SUBSET Guarded
      /\ \A v : v \in H <=> \E h \in Goroutines : v \in taken[h] /\ l \in DOMAIN v.val
      /\ H = {} \/ \E v \in H : \A u \in H : u.n <= v.n
  BY HoldersAre
<1>2. /\ K \in SUBSET Guarded
      /\ \A w : w \in K <=> \/ w \in T /\ l \in DOMAIN w.val
                            \/ \E h \in Goroutines \ {g} : w \in taken[h] /\ l \in DOMAIN w.val
      /\ ValueOf(l)' = ValueIn(K, mem'[l], l)
  BY HoldersNext DEF Sound
<1>3. PICK a : H = {} \/ Top(H, l, a)
  BY <1>1, HoldersTop
<1> HIDE DEF H, K
<1>4. Covers(l, K, H)
  BY <1>1, <1>2 DEF Covers
<1>5. Covers(l, H, K) /\ \A v \in H \cup K : l \in DOMAIN v.val
  BY <1>1, <1>2 DEF Covers
<1>6. ValueIn(K, mem[l], l) = ValueIn(H, mem[l], l)
  BY <1>1, <1>2, <1>3, <1>4, <1>5, SameValue
<1> QED BY <1>2, <1>6, ValueOfIs DEF H

\* Taking a guard changes no value: the one below has the default then, but
\* is not the deepest any more.
LEMMA TookValue ==
  ASSUME Sound, NEW g \in Goroutines, Took(g), NEW l \in Leaves \ raced'
  PROVE  ValueOf(l)' = ValueOf(l)
<1>1. PICK F, x :
        LET region == Region(x.ptr, x.n) IN
        /\ Holding(g, F) /\ IsStep(Used(g), x) /\ OnePointer(x, F) /\ x.n # 0
        /\ Hold(x.slot, x.ptr, x.n - 1) \in F /\ Hold(x.slot, x.ptr, x.n) \notin F
        /\ \E new \in Guarded :
             /\ new.slot = x.slot /\ new.n = x.n /\ DOMAIN new.val = region
             /\ \A k \in region : new.val[k] = Found(g, x.slot, x.n - 1, k)
             /\ taken' = [taken EXCEPT ![g] =
                  KeptAll(taken[g], x.slot, x.n - 1, Default(region)) \cup {new}]
        /\ mem' = IF x.n = 1 THEN SetMem(Default(region)) ELSE mem
        /\ raced' = raced \cup OutElsewhere(g, x.slot, region)
  BY DEF Took
<1> DEFINE slot == x.slot
           n == x.n
           m == n - 1
           region == Region(x.ptr, n)
           val == Default(region)
           S == KeptAll(taken[g], slot, m, val)
           H == Holders(l)
           K == Holders(l)'
<1>2. PICK new \in Guarded : /\ new.slot = slot /\ new.n = n /\ DOMAIN new.val = region
                             /\ \A k \in region : new.val[k] = Found(g, slot, m, k)
                             /\ taken' = [taken EXCEPT ![g] = S \cup {new}]
  BY <1>1
<1>3. TypeOK /\ taken[g] \in SUBSET Guarded /\ l \in Leaves \ raced
  BY <1>1 DEF Sound, TypeOK
<1>4. DOMAIN val = region /\ (\A k \in DOMAIN val : val[k] \in 0..MaxVal)
  BY PointerAssumption DEF Default
<1>5. /\ n \in Nat \ {0} /\ m \in Nat /\ m = n - 1 /\ x.ptr \in Used(g)[slot]
      /\ slot \in Slots /\ n \in 0..Len(x.ptr.path)
  BY <1>1 DEF IsStep
<1>6. region \subseteq Region(x.ptr, m)
  BY <1>3, <1>5, RegionIs
<1>7. /\ Holding(g, F) /\ OnePointer(x, F) /\ x.slot = slot
       /\ Hold(slot, x.ptr, m) \in F /\ Hold(slot, x.ptr, n) \notin F
       /\ raced' = raced \cup OutElsewhere(g, slot, region)
  BY <1>1
<1>8. mem'[l] = IF n = 1 /\ l \in region THEN val[l] ELSE mem[l]
  BY <1>1, <1>3, <1>4, SetMemIs
<1> HIDE DEF val, slot, n, m, region
<1>9. ASSUME NEW w \in S
      PROVE  /\ w \in Guarded
             /\ \E v \in taken[g] : /\ w.slot = v.slot /\ w.n = v.n /\ DOMAIN w.val = DOMAIN v.val
                                    /\ \A k \in DOMAIN v.val :
                                         (v.n # m \/ k \notin region) => w.val[k] = v.val[k]
  <2>1. w \in KeptAll(taken[g], slot, m, val)
    OBVIOUS
  <2> HIDE DEF S
  <2>2. PICK v \in taken[g] : w = Kept(v, slot, m, val)
    BY <2>1 DEF KeptAll
  <2>3. /\ w \in Guarded /\ w.slot = v.slot /\ w.n = v.n /\ DOMAIN w.val = DOMAIN v.val
        /\ \A k \in DOMAIN v.val : w.val[k] =
             IF v.slot = slot /\ v.n = m /\ k \in DOMAIN val THEN val[k] ELSE v.val[k]
    BY <1>3, <1>4, <2>2, KeptIs
  <2>4. \A k \in DOMAIN v.val : (v.n # m \/ k \notin region) => w.val[k] = v.val[k]
    BY <1>4, <2>3
  <2> QED BY <2>3, <2>4
<1>10. \A v \in taken[g] : \E w \in S : /\ w.slot = v.slot /\ w.n = v.n /\ DOMAIN w.val = DOMAIN v.val
                                       /\ \A k \in DOMAIN v.val :
                                            (v.n # m \/ k \notin region) => w.val[k] = v.val[k]
  BY <1>3, <1>4, KeptIs DEF KeptAll
<1> DEFINE T == S \cup {new}
<1>11. T \subseteq Guarded /\ taken' = [taken EXCEPT ![g] = T]
  BY <1>2, <1>9
<1> HIDE DEF S, T
<1>12. CASE l \notin region
  <2>1. mem'[l] = mem[l]
    BY <1>8, <1>12
  <2>2. Covers(l, T, taken[g])
    BY <1>2, <1>9, <1>12 DEF T, Covers
  <2>3. Covers(l, taken[g], T)
    BY <1>10, <1>12 DEF T, Covers
  <2> QED BY <1>11, <1>3, <2>1, <2>2, <2>3, ElsewhereSame
<1>13. CASE l \in region
  <2>1. ASSUME NEW h \in Goroutines, NEW v \in taken[h], l \in DOMAIN v.val PROVE h = g /\ v.slot = slot
    <3>1. l \notin OutElsewhere(g, slot, region)
      BY <1>7
    <3>2. <<h, v.slot>> = <<g, slot>>
      BY <1>13, <2>1, <3>1 DEF OutElsewhere
    <3> QED BY <3>2
  <2>2. \A v : v \in H <=> v \in taken[g] /\ v.slot = slot /\ l \in DOMAIN v.val
    BY <1>3, <2>1, HoldersAre
  <2>3. /\ K \in SUBSET Guarded
        /\ \A w : w \in K <=> w \in S \cup {new} /\ l \in DOMAIN w.val
        /\ ValueOf(l)' = ValueIn(K, mem'[l], l)
    <3>1. /\ K \in SUBSET Guarded
          /\ \A w : w \in K <=> \/ w \in T /\ l \in DOMAIN w.val
                                \/ \E h \in Goroutines \ {g} : w \in taken[h] /\ l \in DOMAIN w.val
          /\ ValueOf(l)' = ValueIn(K, mem'[l], l)
      BY <1>3, <1>11, HoldersNext
    <3> HIDE DEF K
    <3> QED BY <2>1, <3>1 DEF T
  <2>4. \A u, v \in H : u.n = v.n => u = v
    BY <1>3, HoldersAre
  <2>5. H = {} \/ \E v \in H : \A u \in H : u.n <= v.n
    BY <1>3, HoldersAre
  <2>6. \A u \in H : u.n \in Nat \ {0}
    BY <1>3, <2>2 DEF Guarded
  <2> HIDE DEF H, K
  <2>7. ASSUME NEW u \in H PROVE u.n # n
    <3>1. PICK e \in F : e.slot = u.slot /\ e.n = u.n
      BY <1>7, <2>2 DEF Holding, Match
    <3>2. e = Hold(e.slot, e.ptr, e.n) /\ e.ptr = x.ptr
      BY <1>7, <2>2, <3>1 DEF Holding, Levels, OnePointer
    <3> QED BY <1>7, <2>2, <3>1, <3>2
  <2>8. CASE \E u \in H : u.n > n
    <3>1. PICK t \in H : \A u \in H : u.n <= t.n
      BY <2>5, <2>8
    <3>2. t.n > n /\ t.n # m /\ t.n # n
      BY <1>5, <2>6, <2>8, <3>1
    <3>3. ValueOf(l) = t.val[l]
      BY <1>3, <3>1, HoldersTop DEF H
    <3>4. PICK w \in S : w.n = t.n /\ DOMAIN w.val = DOMAIN t.val /\ w.val[l] = t.val[l]
      <4>1. t \in taken[g] /\ l \in DOMAIN t.val
        BY <2>2
      <4> QED BY <1>10, <3>2, <4>1
    <3>5. w \in K
      BY <2>2, <2>3, <3>4
    <3>6. ASSUME NEW u \in K PROVE u.n <= w.n /\ (u.n = w.n => u.val[l] = t.val[l])
      <4>1. CASE u = new
        BY <1>2, <1>5, <2>6, <3>2, <3>4, <4>1
      <4>2. CASE u \in S
        <5>1. PICK v \in taken[g] : /\ u.slot = v.slot /\ u.n = v.n /\ DOMAIN u.val = DOMAIN v.val
                                    /\ \A k \in DOMAIN v.val :
                                         (v.n # m \/ k \notin region) => u.val[k] = v.val[k]
          BY <1>9, <4>2
        <5>2. v \in H
          BY <2>1, <2>2, <2>3, <5>1
        <5>3. u.n <= w.n
          BY <3>1, <3>4, <5>1, <5>2
        <5>4. ASSUME u.n = w.n PROVE u.val[l] = t.val[l]
          <6>1. v = t
            BY <2>4, <3>4, <5>1, <5>2, <5>4
          <6> QED BY <2>2, <3>2, <5>1, <5>2, <6>1
        <5> QED BY <5>3, <5>4
      <4> QED BY <2>3, <4>1, <4>2
    <3>7. Top(K, l, t.val[l])
      BY <3>4, <3>5, <3>6 DEF Top
    <3> QED BY <2>3, <3>3, <3>7, TopIs
  <2>9. CASE \A u \in H : ~(u.n > n)
    <3>1. \A u \in H : u.n <= m
      BY <1>5, <2>6, <2>7, <2>9
    <3>2. ValueOf(l) = new.val[l]
      <4>1. new.val[l] = Found(g, slot, m, l)
        BY <1>2, <1>13
      <4>2. CASE n = 1
        <5>1. H = {}
          BY <1>5, <2>6, <3>1, <4>2
        <5>2. ValueOf(l) = mem[l]
          BY <5>1, ValueOfIs DEF ValueIn, H
        <5> QED BY <1>5, <4>1, <4>2, <5>2 DEF Found
      <4>3. CASE n # 1
        <5> DEFINE b == GuardAt(g, slot, m)
        <5>0. m # 0
          BY <1>5, <4>3
        <5>1. b \in taken[g] /\ b.slot = slot /\ b.n = m /\ DOMAIN b.val = Region(x.ptr, m)
          BY <1>3, <1>7, <5>0, GuardAtIs
        <5> HIDE DEF b
        <5>2. b \in H
          BY <1>6, <1>13, <2>2, <5>1
        <5>3. ValueOf(l) = b.val[l]
          BY <1>3, <3>1, <5>1, <5>2, HoldersTop DEF H
        <5>4. Found(g, slot, m, l) = b.val[l]
          BY <5>0 DEF Found, b
        <5> QED BY <4>1, <5>3, <5>4
      <4> QED BY <4>2, <4>3
    <3>3. new \in K
      BY <1>2, <1>13, <2>3
    <3>4. ASSUME NEW u \in K PROVE u.n <= new.n /\ (u.n = new.n => u.val[l] = new.val[l])
      <4>1. CASE u = new
        BY <1>2, <1>5, <4>1
      <4>2. CASE u \in S
        <5>1. PICK v \in taken[g] : u.n = v.n /\ DOMAIN u.val = DOMAIN v.val
          BY <1>9, <4>2
        <5>2. v \in H
          BY <2>1, <2>2, <2>3, <5>1
        <5> QED BY <1>2, <1>5, <2>6, <3>1, <5>1, <5>2
      <4> QED BY <2>3, <4>1, <4>2
    <3>5. Top(K, l, new.val[l])
      BY <3>3, <3>4 DEF Top
    <3> QED BY <2>3, <3>2, <3>5, TopIs
  <2> QED BY <2>8, <2>9
<1> QED BY <1>12, <1>13

\* Dropping a guard changes no value: the one below has it again.
LEMMA PutBackValue ==
  ASSUME Sound, NEW g \in Goroutines, PutBack(g), NEW l \in Leaves \ raced
  PROVE  ValueOf(l)' = ValueOf(l)
<1>1. PICK F, x :
        LET v == GuardAt(g, x.slot, x.n) IN
        /\ Holding(g, F) /\ IsStep(Used(g), x) /\ OnePointer(x, F) /\ x.n # 0
        /\ Hold(x.slot, x.ptr, x.n - 1) \in F /\ Hold(x.slot, x.ptr, x.n) \in F
        /\ taken' = [taken EXCEPT ![g] = KeptAll(taken[g], x.slot, x.n - 1, v.val) \ {v}]
        /\ mem' = IF x.n = 1 THEN SetMem(v.val) ELSE mem
  BY DEF PutBack
<1> DEFINE slot == x.slot
           n == x.n
           m == n - 1
           v == GuardAt(g, slot, n)
           region == Region(x.ptr, n)
           k(u) == Kept(u, slot, m, v.val)
           S == KeptAll(taken[g], slot, m, v.val)
           T == S \ {v}
           H == Holders(l)
           K == Holders(l)'
<1>2. TypeOK /\ taken[g] \in SUBSET Guarded
  BY DEF Sound, TypeOK
<1>3. /\ n \in Nat \ {0} /\ m \in Nat /\ m = n - 1 /\ x.ptr \in Used(g)[slot]
      /\ slot \in Slots /\ n \in 0..Len(x.ptr.path)
  BY <1>1 DEF IsStep
<1>4. /\ Holding(g, F) /\ OnePointer(x, F) /\ x.slot = slot
      /\ Hold(slot, x.ptr, m) \in F /\ Hold(slot, x.ptr, n) \in F
  BY <1>1
<1>5. region \subseteq Region(x.ptr, m)
  BY <1>2, <1>3, RegionIs
<1>6. taken' = [taken EXCEPT ![g] = T] /\ mem' = IF n = 1 THEN SetMem(v.val) ELSE mem
  BY <1>1
<1> HIDE DEF slot, n, m
<1>7. /\ v \in taken[g] /\ v \in Guarded /\ v.slot = slot /\ v.n = n /\ DOMAIN v.val = region
      /\ \A u \in taken[g] : u.slot = slot /\ u.n = n => u = v
      /\ \A j \in DOMAIN v.val : v.val[j] \in 0..MaxVal
  BY <1>2, <1>3, <1>4, GuardAtIs
<1> HIDE DEF v
<1>8. mem'[l] = IF n = 1 /\ l \in region THEN v.val[l] ELSE mem[l]
  BY <1>2, <1>6, <1>7, SetMemIs
<1>9. /\ \A w \in S : \E u \in taken[g] : w = k(u)
      /\ \A u \in taken[g] : k(u) \in S
      /\ \A u \in taken[g] :
           /\ k(u) \in Guarded /\ k(u).slot = u.slot /\ k(u).n = u.n /\ DOMAIN k(u).val = DOMAIN u.val
           /\ \A j \in DOMAIN u.val :
                /\ u.slot = slot /\ u.n = m /\ j \in region => k(u).val[j] = v.val[j]
                /\ u.n # m \/ j \notin region => k(u).val[j] = u.val[j]
  <2> HIDE DEF region
  <2>1. /\ \A w \in S : \E u \in taken[g] : w = k(u)
        /\ \A u \in taken[g] : k(u) \in S
    BY Zenon DEF KeptAll
  <2>2. ASSUME NEW u \in taken[g]
        PROVE  /\ k(u) \in Guarded /\ k(u).slot = u.slot /\ k(u).n = u.n
               /\ DOMAIN k(u).val = DOMAIN u.val
               /\ \A j \in DOMAIN u.val : k(u).val[j] =
                    IF u.slot = slot /\ u.n = m /\ j \in DOMAIN v.val THEN v.val[j] ELSE u.val[j]
    BY <1>2, <1>7, KeptIs
  <2> HIDE DEF k, S
  <2>3. ASSUME NEW u \in taken[g], NEW j \in DOMAIN u.val
        PROVE  /\ u.slot = slot /\ u.n = m /\ j \in region => k(u).val[j] = v.val[j]
               /\ u.n # m \/ j \notin region => k(u).val[j] = u.val[j]
    BY <1>7, <2>2
  <2> QED BY <2>1, <2>2, <2>3
<1> HIDE DEF k, S, region
<1>10. T \subseteq Guarded
  BY <1>9
<1>11. \A u \in taken[g] : k(u) = v <=> u = v
  <2>1. k(v) = v
    <3>1. ~(v.slot = slot /\ v.n = m)
      BY <1>3, <1>7
    <3> QED BY <3>1, Zenon DEF k, Kept
  <2>2. ASSUME NEW u \in taken[g], k(u) = v PROVE u = v
    BY <1>7, <1>9, <2>2
  <2> QED BY <2>1, <2>2
<1>12. CASE l \notin region
  <2>1. Covers(l, T, taken[g])
    BY <1>9, <1>12 DEF Covers
  <2>2. Covers(l, taken[g], T)
    <3>1. ASSUME NEW u \in taken[g], l \in DOMAIN u.val
          PROVE  \E w \in T : u.n = w.n /\ l \in DOMAIN w.val /\ u.val[l] = w.val[l]
      <4>1. u # v
        BY <1>7, <1>12, <3>1
      <4>2. k(u) \in T
        BY <1>9, <1>11, <4>1
      <4> QED BY <1>9, <1>12, <3>1, <4>2
    <3> QED BY <3>1 DEF Covers
  <2>3. mem'[l] = mem[l]
    BY <1>8, <1>12
  <2> HIDE DEF T
  <2> QED BY <1>2, <1>6, <1>10, <2>1, <2>2, <2>3, ElsewhereSame
<1>13. CASE l \in region
  <2>1. ASSUME NEW h \in Goroutines, NEW u \in taken[h], l \in DOMAIN u.val PROVE h = g /\ u.slot = slot
    BY <1>7, <1>13, <2>1 DEF Sound, OutOnce
  <2>2. \A u : u \in H <=> u \in taken[g] /\ u.slot = slot /\ l \in DOMAIN u.val
    BY <2>1, HoldersAre
  <2>3. /\ K \in SUBSET Guarded
        /\ \A w : w \in K <=> w \in T /\ l \in DOMAIN w.val
        /\ ValueOf(l)' = ValueIn(K, mem'[l], l)
    <3> HIDE DEF T
    <3>1. /\ K \in SUBSET Guarded
          /\ \A w : w \in K <=> \/ w \in T /\ l \in DOMAIN w.val
                                \/ \E h \in Goroutines \ {g} : w \in taken[h] /\ l \in DOMAIN w.val
          /\ ValueOf(l)' = ValueIn(K, mem'[l], l)
      BY <1>2, <1>6, <1>10, HoldersNext
    <3> HIDE DEF K
    <3> QED BY <2>1, <3>1
  <2>4. \A u, w \in H : u.n = w.n => u = w
    BY HoldersAre
  <2>5. H = {} \/ \E u \in H : \A w \in H : w.n <= u.n
    BY HoldersAre
  <2>6. \A u \in H : u.n \in Nat \ {0}
    BY <1>2, <2>2 DEF Guarded
  <2> HIDE DEF H, K
  <2>7. v \in H
    BY <1>7, <1>13, <2>2
  <2>8. ASSUME NEW w \in K PROVE \E u \in H : u # v /\ w = k(u)
    <3>1. PICK u \in taken[g] : w = k(u)
      BY <1>9, <2>3
    <3> QED BY <1>9, <1>11, <2>1, <2>2, <2>3, <3>1
  <2>9. ASSUME NEW u \in H, u # v PROVE k(u) \in K
    BY <1>9, <1>11, <2>2, <2>3, <2>9
  <2>10. ASSUME NEW u \in H PROVE k(u).n = u.n /\ (u.n # m => k(u).val[l] = u.val[l])
    BY <1>9, <2>2
  <2>11. CASE \E u \in H : u.n > n
    <3>1. PICK t \in H : \A u \in H : u.n <= t.n
      BY <2>5, <2>11
    <3>2. t.n > n /\ t.n # m /\ t # v
      BY <1>3, <1>7, <2>6, <2>11, <3>1
    <3>3. ValueOf(l) = t.val[l]
      BY <3>1, HoldersTop DEF H
    <3>4. k(t) \in K /\ k(t).n = t.n /\ k(t).val[l] = t.val[l]
      BY <2>9, <2>10, <3>2
    <3>5. ASSUME NEW w \in K PROVE w.n <= k(t).n /\ (w.n = k(t).n => w.val[l] = t.val[l])
      <4>1. PICK u \in H : w = k(u)
        BY <2>8
      <4> QED BY <2>4, <2>10, <3>1, <3>4, <4>1
    <3>6. Top(K, l, t.val[l])
      BY <3>4, <3>5 DEF Top
    <3> QED BY <2>3, <3>3, <3>6, TopIs
  <2>12. CASE \A u \in H : ~(u.n > n)
    <3>1. \A u \in H : u.n <= n /\ (u # v => u.n <= m)
      BY <1>3, <1>7, <2>4, <2>6, <2>7, <2>12
    <3>2. ValueOf(l) = v.val[l]
      BY <1>7, <2>7, <3>1, HoldersTop DEF H
    <3>3. CASE n = 1
      <4>1. \A u \in H : u = v
        BY <1>3, <2>6, <3>1, <3>3
      <4>2. K = {}
        BY <2>8, <4>1
      <4> QED BY <1>8, <1>13, <2>3, <3>2, <3>3, <4>2 DEF ValueIn
    <3>4. CASE n # 1
      <4> DEFINE b == GuardAt(g, slot, m)
      <4>1. m # 0 /\ m # n
        BY <1>3, <3>4
      <4>2. b \in taken[g] /\ b.slot = slot /\ b.n = m /\ DOMAIN b.val = Region(x.ptr, m)
        BY <1>2, <1>4, <4>1, GuardAtIs
      <4> HIDE DEF b
      <4>3. b \in H /\ b # v
        BY <1>5, <1>7, <1>13, <2>2, <4>1, <4>2
      <4>4. k(b) \in K /\ k(b).n = m /\ k(b).val[l] = v.val[l]
        BY <1>9, <1>13, <2>2, <2>9, <4>2, <4>3
      <4>5. ASSUME NEW w \in K PROVE w.n <= m /\ (w.n = m => w.val[l] = v.val[l])
        <5>1. PICK u \in H : u # v /\ w = k(u)
          BY <2>8
        <5> QED BY <2>4, <2>10, <3>1, <4>2, <4>3, <4>4, <5>1
      <4>6. Top(K, l, v.val[l])
        BY <4>4, <4>5 DEF Top
      <4> QED BY <2>3, <3>2, <4>6, TopIs
    <3> QED BY <3>3, <3>4
  <2> QED BY <2>11, <2>12
<1> QED BY <1>12, <1>13

\* An access finds the values of its region, changes those and no others.
LEMMA AccessedValue ==
  ASSUME Sound, NEW g \in Goroutines, NEW access, Accessed(g, access)
  PROVE  \E region \in SUBSET Leaves :
           /\ region # {}
           /\ \A l \in Leaves \ raced' :
                /\ ValueOf(l)' = IF l \in region THEN Register!Written(access, ValueOf(l), seen[g][l])
                                   ELSE ValueOf(l)
                /\ seen'[g][l] = IF l \in region /\ access = "read" THEN ValueOf(l) ELSE seen[g][l]
           /\ \A h \in Goroutines \ {g} : seen'[h] = seen[h]
           /\ raced \subseteq raced'
<1>1. PICK F, x :
        /\ Holding(g, F) /\ IsStep(Used(g), x) /\ OnePointer(x, F) /\ x.n = Len(x.ptr.path)
        /\ Hold(x.slot, x.ptr, x.n) \in F
        /\ Wrote(g, access, x.slot, x.n, Region(x.ptr, x.n))
        /\ seen' = SeenAfter(g, access, x.slot, x.n, Region(x.ptr, x.n))
        /\ raced' = raced \cup OutElsewhere(g, x.slot, Region(x.ptr, x.n))
  BY DEF Accessed
<1> DEFINE slot == x.slot
           n == x.n
           region == Region(x.ptr, n)
<1>2. TypeOK /\ taken[g] \in SUBSET Guarded
  BY DEF Sound, TypeOK
<1>3. /\ n \in Nat /\ x.ptr \in Used(g)[slot] /\ slot \in Slots /\ n \in 0..Len(x.ptr.path)
      /\ x.slot = slot
      /\ n = x.n /\ n = Len(x.ptr.path)
  BY <1>1 DEF IsStep
<1>4. region \in SUBSET Leaves /\ region # {}
  BY <1>2, <1>3, RegionIs
<1>5. PICK val :
        /\ DOMAIN val = region
        /\ \A l \in region : /\ val[l] = Register!Written(access, Found(g, slot, n, l), seen[g][l])
                             /\ val[l] \in 0..MaxVal
        /\ taken' = [taken EXCEPT ![g] = KeptAll(taken[g], slot, n, val)]
        /\ mem' = IF n = 0 THEN SetMem(val) ELSE mem
  BY <1>1 DEF Wrote
<1> DEFINE k(u) == Kept(u, slot, n, val)
           T == KeptAll(taken[g], slot, n, val)
<1> HIDE DEF slot, n, region
<1>6. /\ \A w \in T : \E u \in taken[g] : w = k(u)
      /\ \A u \in taken[g] : k(u) \in T
      /\ \A u \in taken[g] :
           /\ k(u) \in Guarded /\ k(u).slot = u.slot /\ k(u).n = u.n /\ DOMAIN k(u).val = DOMAIN u.val
           /\ \A j \in DOMAIN u.val :
                /\ u.slot = slot /\ u.n = n /\ j \in region => k(u).val[j] = val[j]
                /\ u.n # n \/ j \notin region => k(u).val[j] = u.val[j]
  <2>1. /\ \A w \in T : \E u \in taken[g] : w = k(u)
        /\ \A u \in taken[g] : k(u) \in T
    BY Zenon DEF KeptAll
  <2>2. \A j \in DOMAIN val : val[j] \in 0..MaxVal
    BY <1>5
  <2>3. ASSUME NEW u \in taken[g]
        PROVE  /\ k(u) \in Guarded /\ k(u).slot = u.slot /\ k(u).n = u.n
               /\ DOMAIN k(u).val = DOMAIN u.val
               /\ \A j \in DOMAIN u.val : k(u).val[j] =
                    IF u.slot = slot /\ u.n = n /\ j \in DOMAIN val THEN val[j] ELSE u.val[j]
    BY <1>2, <2>2, KeptIs
  <2> HIDE DEF k, T
  <2>4. ASSUME NEW u \in taken[g], NEW j \in DOMAIN u.val
        PROVE  /\ u.slot = slot /\ u.n = n /\ j \in region => k(u).val[j] = val[j]
               /\ u.n # n \/ j \notin region => k(u).val[j] = u.val[j]
    BY <1>5, <2>3
  <2> QED BY <2>1, <2>3, <2>4
<1>7. taken' = [taken EXCEPT ![g] = T]
  BY <1>5
<1> HIDE DEF k, T
<1>8. T \subseteq Guarded
  BY <1>6
<1>9. ASSUME NEW l \in Leaves \ raced', l \notin region PROVE ValueOf(l)' = ValueOf(l)
  <2>1. l \in Leaves \ raced
    BY <1>1
  <2>2. Covers(l, T, taken[g]) /\ Covers(l, taken[g], T)
    BY <1>6, <1>9 DEF Covers
  <2>3. mem'[l] = mem[l]
    BY <1>2, <1>5, <1>9, <2>1, SetMemIs
  <2> QED BY <1>2, <1>7, <1>8, <2>1, <2>2, <2>3, ElsewhereSame
<1>10. ASSUME NEW l \in Leaves \ raced', l \in region
       PROVE  ValueOf(l) = Found(g, slot, n, l) /\ ValueOf(l)' = val[l]
  <2> DEFINE H == Holders(l)
             K == Holders(l)'
  <2>0. l \in Leaves \ raced
    BY <1>1
  <2>1. ASSUME NEW h \in Goroutines, NEW u \in taken[h], l \in DOMAIN u.val PROVE h = g /\ u.slot = slot
    <3>1. l \notin OutElsewhere(g, slot, region)
      BY <1>1 DEF region, slot, n
    <3>2. <<h, u.slot>> = <<g, slot>>
      BY <1>10, <2>1, <3>1 DEF OutElsewhere
    <3> QED BY <3>2
  <2>2. \A u : u \in H <=> u \in taken[g] /\ u.slot = slot /\ l \in DOMAIN u.val
    BY <2>0, <2>1, HoldersAre
  <2>3. /\ K \in SUBSET Guarded
        /\ \A w : w \in K <=> w \in T /\ l \in DOMAIN w.val
        /\ ValueOf(l)' = ValueIn(K, mem'[l], l)
    <3>1. /\ K \in SUBSET Guarded
          /\ \A w : w \in K <=> \/ w \in T /\ l \in DOMAIN w.val
                                \/ \E h \in Goroutines \ {g} : w \in taken[h] /\ l \in DOMAIN w.val
          /\ ValueOf(l)' = ValueIn(K, mem'[l], l)
      BY <1>2, <1>7, <1>8, HoldersNext
    <3> HIDE DEF K
    <3> QED BY <2>1, <3>1
  <2>4. \A u, w \in H : u.n = w.n => u = w
    BY <2>0, HoldersAre
  <2> HIDE DEF H, K
  <2>5. ASSUME NEW u \in H PROVE u.n <= n /\ u.n \in Nat \ {0}
    <3>1. PICK e \in F : e.slot = u.slot /\ e.n = u.n
      BY <1>1, <2>2 DEF Holding, Match
    <3>2. e.ptr = x.ptr /\ e.n \in 0..Len(e.ptr.path)
      BY <1>1, <1>3, <2>2, <3>1 DEF Holding, Levels, OnePointer
    <3>3. u.n \in Nat \ {0}
      BY <1>2, <2>2 DEF Guarded
    <3> QED BY <1>1, <1>3, <3>1, <3>2, <3>3
  <2>6. ASSUME NEW w \in K PROVE \E u \in H : w = k(u) /\ w.n = u.n
    <3>1. PICK u \in taken[g] : w = k(u)
      BY <1>6, <2>3
    <3> QED BY <1>6, <2>1, <2>2, <2>3, <3>1
  <2>7. CASE n = 0
    <3>1. H = {}
      BY <2>5, <2>7
    <3>2. K = {}
      BY <2>6, <3>1
    <3>3. mem'[l] = val[l]
      BY <1>2, <1>5, <1>10, <2>0, <2>7, SetMemIs
    <3>4. ValueOf(l) = mem[l]
      BY <3>1, ValueOfIs DEF ValueIn, H
    <3>5. ValueOf(l)' = val[l]
      BY <2>3, <3>2, <3>3 DEF ValueIn
    <3> QED BY <2>7, <3>4, <3>5 DEF Found
  <2>8. CASE n # 0
    <3> DEFINE b == GuardAt(g, slot, n)
    <3>1. b \in taken[g] /\ b.slot = slot /\ b.n = n /\ DOMAIN b.val = region
      BY <1>1, <1>2, <2>8, GuardAtIs DEF slot, n, region
    <3>2. Found(g, slot, n, l) = b.val[l]
      BY <2>8 DEF Found
    <3> HIDE DEF b
    <3>3. b \in H
      BY <1>10, <2>2, <3>1
    <3>4. ValueOf(l) = b.val[l]
      BY <2>0, <2>5, <3>1, <3>3, HoldersTop DEF H
    <3>5. k(b) \in K /\ k(b).n = n /\ k(b).val[l] = val[l]
      BY <1>6, <1>10, <2>3, <3>1
    <3>6. ASSUME NEW w \in K PROVE w.n <= n /\ (w.n = n => w.val[l] = val[l])
      <4>1. PICK u \in H : w = k(u) /\ w.n = u.n
        BY <2>6
      <4> QED BY <2>4, <2>5, <3>1, <3>3, <3>5, <4>1
    <3>7. Top(K, l, val[l])
      BY <3>5, <3>6 DEF Top
    <3>8. ValueOf(l)' = val[l]
      BY <2>3, <3>7, TopIs
    <3> QED BY <3>2, <3>4, <3>8
  <2> QED BY <2>7, <2>8
<1>11. ASSUME NEW l \in Leaves \ raced'
       PROVE  ValueOf(l)' = IF l \in region THEN Register!Written(access, ValueOf(l), seen[g][l])
                              ELSE ValueOf(l)
  BY <1>5, <1>9, <1>10
<1>12. \A h \in Goroutines \ {g} : seen'[h] = seen[h]
  BY <1>1, <1>2 DEF SeenAfter, TypeOK
<1>13. ASSUME NEW l \in Leaves \ raced'
       PROVE  seen'[g][l] = IF l \in region /\ access = "read" THEN ValueOf(l) ELSE seen[g][l]
  <2>1. CASE access = "read"
    <3> DEFINE now == [j \in Leaves |-> IF j \in region THEN Found(g, slot, n, j) ELSE seen[g][j]]
    <3>1. seen' = [seen EXCEPT ![g] = now]
      BY <1>1, <2>1 DEF SeenAfter, region, slot, n
    <3>2. now[l] = IF l \in region THEN Found(g, slot, n, l) ELSE seen[g][l]
      OBVIOUS
    <3> HIDE DEF now
    <3>3. seen'[g] = now
      BY <1>2, <3>1 DEF TypeOK
    <3> QED BY <1>10, <2>1, <3>2, <3>3
  <2>2. CASE access # "read"
    BY <1>1, <2>2 DEF SeenAfter
  <2> QED BY <2>1, <2>2
<1>14. raced \subseteq raced'
  BY <1>1
<1> QED BY <1>4, <1>11, <1>12, <1>13, <1>14

-----------------------------------------------------------------------------
(* The refinement.                                                         *)

\* Nothing is out at the start.
LEMMA MemoryInit == Init => Variables!Init
<1> SUFFICES ASSUME Init PROVE Variables!Init
  OBVIOUS
<1>1. ASSUME NEW l \in Leaves PROVE ValueOf(l) = 0
  <2>1. Holders(l) = {}
    BY DEF Holders, Init
  <2> QED BY <2>1 DEF ValueOf, Init
<1> QED BY <1>1 DEF Init, Variables!Init

\* A step that moves no values is a stutter of the memory.
LEMMA MemoryIdle ==
  ASSUME UNCHANGED <<mem, taken, seen, raced>>
  PROVE  UNCHANGED Variables!vars
<1>1. \A l \in Leaves : ValueOf(l)' = ValueOf(l)
  BY DEF ValueOf, Holders
<1>2. [l \in Leaves |-> ValueOf(l)]' = [l \in Leaves |-> ValueOf(l)]
  BY <1>1
<1> QED BY <1>2 DEF Variables!vars

\* A guard that is taken or dropped may give memory up, and changes no value.
LEMMA MemoryGivenUp ==
  ASSUME raced \subseteq raced', seen' = seen, \A l \in Leaves \ raced' : ValueOf(l)' = ValueOf(l)
  PROVE  Variables!Next
<1>1. Variables!GiveUp
  BY DEF Variables!GiveUp
<1> QED BY <1>1 DEF Variables!Next

\* An access is one access of the memory.
LEMMA MemoryAccessed ==
  ASSUME Sound, NEW g \in Goroutines, NEW access \in Register!Accesses, Accessed(g, access)
  PROVE  Variables!Next
<1>1. PICK region \in SUBSET Leaves :
        /\ region # {}
        /\ \A l \in Leaves \ raced' :
             /\ ValueOf(l)' = IF l \in region THEN Register!Written(access, ValueOf(l), seen[g][l])
                                ELSE ValueOf(l)
             /\ seen'[g][l] = IF l \in region /\ access = "read" THEN ValueOf(l) ELSE seen[g][l]
        /\ \A h \in Goroutines \ {g} : seen'[h] = seen[h]
        /\ raced \subseteq raced'
  BY AccessedValue
<1>2. \A old, register : Variables!Written(access, old, register) = Register!Written(access, old, register)
  BY DEF Variables!Written, Register!Written
<1>3. Variables!Access(g, access, region)
  BY <1>1, <1>2 DEF Variables!Access
<1>4. access \in Variables!Accesses
  BY DEF Variables!Accesses, Register!Accesses
<1> QED BY <1>1, <1>3, <1>4 DEF Variables!Next

\* Every step is a step of the memory, or none.
LEMMA MemoryNext == IInv /\ [Next]_vars => [Variables!Next]_(Variables!vars)
<1> SUFFICES ASSUME IInv, [Next]_vars PROVE [Variables!Next]_(Variables!vars)
  OBVIOUS
<1>0. Sound /\ TypeOK /\ \A h \in Goroutines : GoesOn(h)
  BY DEF IInv, Sound
<1>1. CASE \E g \in Goroutines : Begin(g) \/ Acquire(g) \/ Release(g) \/ Panic(g)
  <2>1. UNCHANGED <<mem, taken, seen, raced>>
    BY <1>1 DEF Begin, Acquire, Release, Panic
  <2> QED BY <2>1, MemoryIdle
<1>2. ASSUME NEW g \in Goroutines, Take(g) PROVE Variables!Next
  <2>1. Took(g)
    BY <1>0, <1>2, TakeGoesOn
  <2>2. \A l \in Leaves \ raced' : ValueOf(l)' = ValueOf(l)
    BY <1>0, <2>1, TookValue
  <2>3. raced \subseteq raced' /\ seen' = seen
    BY <1>2 DEF Take
  <2> QED BY <2>2, <2>3, MemoryGivenUp
<1>3. ASSUME NEW g \in Goroutines, Put(g) PROVE Variables!Next
  <2>1. PutBack(g)
    BY <1>0, <1>3, PutGoesOn
  <2>2. raced' = raced /\ seen' = seen
    BY <1>3 DEF Put
  <2>3. \A l \in Leaves \ raced' : ValueOf(l)' = ValueOf(l)
    BY <1>0, <2>1, <2>2, PutBackValue
  <2> QED BY <2>2, <2>3, MemoryGivenUp
<1>4. ASSUME NEW g \in Goroutines, NEW access \in Register!Accesses, Access(g, access)
      PROVE  Variables!Next
  BY <1>0, <1>4, AccessGoesOn, MemoryAccessed
<1>5. CASE UNCHANGED vars
  <2>1. UNCHANGED <<mem, taken, seen, raced>>
    BY <1>5 DEF vars
  <2> QED BY <2>1, MemoryIdle
<1> QED
  BY <1>1, <1>2, <1>3, <1>4, <1>5 DEF Next, Advance, Finished

\* Pointers keep what Go variables promise: mutexes, guards and transfers
\* implement plain variables with atomic accesses, up to the memory given up.
THEOREM ImplementsMemoryAlways == Spec => ImplementsMemory
<1> QED BY MemoryInit, MemoryNext, IInvAlways, PTL DEF Spec, ImplementsMemory, Variables!Spec
=============================================================================
